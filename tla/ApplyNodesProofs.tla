-------------------------- MODULE ApplyNodesProofs --------------------------
(***************************************************************************)
(* What ApplyNodes of ConfigFile computes, for every content of the file,  *)
(* every subscription and every list of links.  The recursive functions    *)
(* Pick and Given are reasoned about by induction on how far they got:     *)
(* UpTo, over the set of the numbers for which a claim holds.              *)
(***************************************************************************)
EXTENDS ConfigFile, FiniteSetTheorems, SequenceTheorems, WellFoundedInduction, TLAPS

(* A set of naturals that is not empty has a least element. *)
LEMMA LeastOf ==
  ASSUME NEW S \in SUBSET Nat, S # {}
  PROVE  \E x \in S : \A y \in S : x <= y
<1> DEFINE R == OpToRel(<, Nat)
<1>1. IsWellFoundedOn(R, Nat)
  BY NatLessThanWellFounded, Zenon
<1>2. \A x, y \in Nat : y < x => <<y, x>> \in R
  BY DEF OpToRel
<1> HIDE DEF R
<1>3. PICK x \in S : \A y \in S : ~(<<y, x>> \in R)
  BY <1>1, WFMin, Zenon
<1>4. ASSUME NEW y \in S PROVE x <= y
  <2>1. x \in Nat /\ y \in Nat /\ ~(y < x)
    BY <1>2, <1>3
  <2> QED BY <2>1
<1> QED BY <1>4

(* Induction up to N, over a set. *)
LEMMA UpTo ==
  ASSUME NEW N \in Nat, NEW S, 0 \in S, \A k \in 0..N : k \in S /\ k # N => k + 1 \in S
  PROVE  \A k \in 0..N : k \in S
<1> SUFFICES ASSUME NEW m \in 0..N, m \notin S PROVE FALSE
  OBVIOUS
<1> DEFINE T == {k \in 0..N : k \notin S}
<1>1. PICK x \in T : \A y \in T : x <= y
  <2>1. T \in SUBSET Nat /\ T # {}
    OBVIOUS
  <2> QED BY <2>1, LeastOf
<1>2. x \in 1..N
  BY <1>1
<1>3. x - 1 \in S
  BY <1>1, <1>2
<1> QED BY <1>1, <1>2, <1>3
-----------------------------------------------------------------------------
(* Pick, as far as k: the recursive function inside it. *)
Picked(list, I) ==
  CHOOSE upTo : upTo = [k \in 0..Len(list) |->
    IF k = 0 THEN <<>>
    ELSE IF k \in I THEN Append(upTo[k - 1], list[k]) ELSE upTo[k - 1]]

(* The recursive function inside Pick exists. *)
LEMMA PickedExists ==
  ASSUME NEW list, Len(list) \in Nat, NEW I
  PROVE  /\ Picked(list, I)[0] = <<>>
         /\ \A k \in 0..Len(list) : k # Len(list) =>
              Picked(list, I)[k + 1] = IF k + 1 \in I
                                       THEN Append(Picked(list, I)[k], list[k + 1])
                                       ELSE Picked(list, I)[k]
         /\ Pick(list, I) = Picked(list, I)[Len(list)]
<1> DEFINE N == Len(list)
           Add(x, k) == IF k \in I THEN Append(x, list[k]) ELSE x
           Is(g, m) == g = [k \in 0..m |-> IF k = 0 THEN <<>> ELSE Add(g[k - 1], k)]
           S == {m \in 0..N : \E g : Is(g, m)}
<1> HIDE DEF Add
<1>1. 0 \in S
  <2>1. Is([k \in 0..0 |-> <<>>], 0)
    OBVIOUS
  <2> HIDE DEF Is
  <2>2. \E g : Is(g, 0)
    BY <2>1
  <2> QED BY <2>2
<1>2. ASSUME NEW m \in 0..N, m \in S, m # N PROVE m + 1 \in S
  <2>1. PICK g : Is(g, m)
    BY <1>2
  <2> DEFINE h == [k \in 0..m + 1 |-> IF k = m + 1 THEN Add(g[m], m + 1) ELSE g[k]]
  <2>2. ASSUME NEW k \in 0..m + 1
        PROVE  h[k] = IF k = 0 THEN <<>> ELSE Add(h[k - 1], k)
    <3>1. CASE k = m + 1
      BY <3>1
    <3>2. CASE k \in 0..m
      <4>1. g[k] = IF k = 0 THEN <<>> ELSE Add(g[k - 1], k)
        BY <2>1, <3>2
      <4> QED BY <4>1, <3>2
    <3> QED BY <3>1, <3>2
  <2>3. Is(h, m + 1)
    BY <2>2
  <2> HIDE DEF Is
  <2>4. \E longer : Is(longer, m + 1)
    BY <2>3
  <2> QED BY <2>4, <1>2
<1>3. \A m \in 0..N : m \in S
  <2> HIDE DEF S
  <2> QED BY <1>1, <1>2, UpTo
<1>4. PICK g : Is(g, N)
  <2>1. N \in 0..N
    OBVIOUS
  <2> QED BY <1>3, <2>1
<1>5. Is(Picked(list, I), N)
  BY <1>4 DEF Picked, Add
<1>6. Pick(list, I) = Picked(list, I)[N]
  BY DEF Pick, Picked
<1>7. \A k \in 0..N : Picked(list, I)[k] =
            IF k = 0 THEN <<>> ELSE Add(Picked(list, I)[k - 1], k)
  BY <1>5
<1>8. Picked(list, I)[0] = <<>>
  BY <1>7
<1>9. ASSUME NEW k \in 0..N, k # N
      PROVE  Picked(list, I)[k + 1] = Add(Picked(list, I)[k], k + 1)
  <2>1. k + 1 \in 0..N /\ k + 1 # 0 /\ (k + 1) - 1 = k
    BY <1>9
  <2>2. Picked(list, I)[k + 1] =
          IF k + 1 = 0 THEN <<>> ELSE Add(Picked(list, I)[(k + 1) - 1], k + 1)
    BY <2>1, <1>7
  <2> QED BY <2>1, <2>2
<1> QED BY <1>6, <1>8, <1>9 DEF Add

(* At every stage it is a list. *)
LEMMA PickedType ==
  ASSUME NEW S, NEW list \in Seq(S), NEW I
  PROVE  \A k \in 0..Len(list) : Picked(list, I)[k] \in Seq(S)
<1> DEFINE N == Len(list)
           P == Picked(list, I)
           T == {k \in 0..N : P[k] \in Seq(S)}
<1>0. N \in Nat
  OBVIOUS
<1>1. /\ P[0] = <<>>
      /\ \A k \in 0..N : k # N =>
           P[k + 1] = IF k + 1 \in I THEN Append(P[k], list[k + 1]) ELSE P[k]
  BY <1>0, PickedExists
<1> HIDE DEF P
<1>2. 0 \in T
  <2>1. P[0] \in Seq(S)
    BY <1>1, EmptySeq, Zenon
  <2> QED BY <1>0, <2>1
<1>3. ASSUME NEW k \in 0..N, k \in T, k # N PROVE k + 1 \in T
  <2>1. k + 1 \in 0..N /\ list[k + 1] \in S /\ P[k] \in Seq(S)
    BY <1>0, <1>3
  <2>2. Append(P[k], list[k + 1]) \in Seq(S)
    BY <2>1, AppendProperties
  <2>3. P[k + 1] \in Seq(S)
    BY <2>1, <2>2, <1>1, <1>3
  <2> QED BY <2>1, <2>3
<1>4. \A k \in 0..N : k \in T
  <2> HIDE DEF T
  <2> QED BY <1>0, <1>2, <1>3, UpTo
<1> QED BY <1>4 DEF P

(* What Pick returns is a list of elements at the positions given, all of them. *)
LEMMA PickRange ==
  ASSUME NEW S, NEW list \in Seq(S), NEW I
  PROVE  /\ Pick(list, I) \in Seq(S)
         /\ \A x : x \in Range(Pick(list, I)) <=> \E i \in 1..Len(list) : i \in I /\ x = list[i]
<1> DEFINE N == Len(list)
           P == Picked(list, I)
           Is(s, k) == \A x : x \in Range(s) <=> \E i \in 1..k : i \in I /\ x = list[i]
           T == {k \in 0..N : P[k] \in Seq(S) /\ Is(P[k], k)}
<1>0. N \in Nat
  OBVIOUS
<1>1. /\ P[0] = <<>>
      /\ \A k \in 0..N : k # N =>
           P[k + 1] = IF k + 1 \in I THEN Append(P[k], list[k + 1]) ELSE P[k]
      /\ Pick(list, I) = P[N]
  BY <1>0, PickedExists
<1> HIDE DEF P
<1>2. 0 \in T
  <2>1. <<>> \in Seq(S) /\ DOMAIN <<>> = {}
    OBVIOUS
  <2>2. Is(<<>>, 0)
    BY <2>1 DEF Range
  <2> HIDE DEF Is
  <2>3. P[0] \in Seq(S) /\ Is(P[0], 0)
    BY <1>1, <2>1, <2>2, Zenon
  <2> QED BY <1>0, <2>3
<1>3. ASSUME NEW k \in 0..N, k \in T, k # N PROVE k + 1 \in T
  <2>1. k + 1 \in 1..N /\ list[k + 1] \in S /\ P[k] \in Seq(S) /\ Is(P[k], k)
    BY <1>0, <1>3
  <2>2. CASE k + 1 \in I
    <3>1. P[k + 1] = Append(P[k], list[k + 1])
      BY <1>1, <1>3, <2>2
    <3>2. P[k + 1] \in Seq(S)
      BY <3>1, <2>1
    <3>3. ASSUME NEW x
          PROVE  x \in Range(P[k + 1]) <=> x \in Range(P[k]) \/ x = list[k + 1]
      <4> DEFINE s == P[k]
                 t == P[k + 1]
      <4>1. /\ Len(t) = Len(s) + 1 /\ t[Len(s) + 1] = list[k + 1]
            /\ \A i \in 1..Len(s) : t[i] = s[i]
        BY <3>1, <2>1
      <4>2. DOMAIN t = 1..Len(s) + 1 /\ DOMAIN s = 1..Len(s) /\ Len(s) \in Nat
        BY <3>2, <2>1, <4>1
      <4> HIDE DEF s, t
      <4>3. \A i \in DOMAIN t : i \in DOMAIN s \/ i = Len(s) + 1
        BY <4>2
      <4>4. DOMAIN s \subseteq DOMAIN t /\ Len(s) + 1 \in DOMAIN t
        BY <4>2
      <4>5. x \in Range(t) <=> x \in Range(s) \/ x = list[k + 1]
        BY <4>1, <4>2, <4>3, <4>4 DEF Range
      <4> QED BY <4>5 DEF s, t
    <3>4. Is(P[k + 1], k + 1)
      BY <3>3, <2>1, <2>2
    <3> QED BY <3>2, <3>4, <1>0, <1>3
  <2>3. CASE k + 1 \notin I
    <3>1. P[k + 1] = P[k]
      BY <1>1, <1>3, <2>3
    <3>2. Is(P[k + 1], k + 1)
      BY <3>1, <2>1, <2>3, <1>0
    <3> QED BY <3>1, <3>2, <2>1, <1>0, <1>3
  <2> QED BY <2>2, <2>3
<1>4. \A k \in 0..N : k \in T
  <2> HIDE DEF T
  <2> QED BY <1>0, <1>2, <1>3, UpTo
<1>5. N \in 0..N
  BY <1>0
<1> QED BY <1>1, <1>4, <1>5

(* A concatenation is picked from piece by piece. *)
LEMMA PickConcat ==
  ASSUME NEW S, NEW a \in Seq(S), NEW b \in Seq(S), NEW I, NEW J,
         \A i \in 1..Len(b) : i \in J <=> i + Len(a) \in I
  PROVE  Pick(a \o b, I) = Pick(a, I) \o Pick(b, J)
<1> DEFINE M == Len(a)
           N == Len(b)
           P == Picked(a \o b, I)
           A == Picked(a, I)
           B == Picked(b, J)
<1>0. M \in Nat /\ N \in Nat
  OBVIOUS
<1>1. Len(a \o b) = M + N
  OBVIOUS
<1>2. /\ P[0] = <<>>
      /\ \A k \in 0..M + N : k # M + N =>
           P[k + 1] = IF k + 1 \in I THEN Append(P[k], (a \o b)[k + 1]) ELSE P[k]
      /\ Pick(a \o b, I) = P[M + N]
  <2>1. Len(a \o b) \in Nat
    BY <1>0, <1>1
  <2>2. /\ P[0] = <<>>
        /\ \A k \in 0..Len(a \o b) : k # Len(a \o b) =>
             P[k + 1] = IF k + 1 \in I THEN Append(P[k], (a \o b)[k + 1]) ELSE P[k]
        /\ Pick(a \o b, I) = P[Len(a \o b)]
    BY <2>1, PickedExists, Zenon
  <2> HIDE DEF P
  <2> QED BY <1>1, <2>2
<1>3. /\ A[0] = <<>>
      /\ \A k \in 0..M : k # M =>
           A[k + 1] = IF k + 1 \in I THEN Append(A[k], a[k + 1]) ELSE A[k]
      /\ Pick(a, I) = A[M]
  BY <1>0, PickedExists
<1>4. /\ B[0] = <<>>
      /\ \A k \in 0..N : k # N =>
           B[k + 1] = IF k + 1 \in J THEN Append(B[k], b[k + 1]) ELSE B[k]
      /\ Pick(b, J) = B[N]
  BY <1>0, PickedExists
<1> HIDE DEF P, A, B
<1>5. \A k \in 0..M : k \in {h \in 0..M : P[h] = A[h]}
  <2> DEFINE T == {h \in 0..M : P[h] = A[h]}
  <2>1. ASSUME NEW k \in 0..M, k \in T, k # M PROVE k + 1 \in T
    <3>1. /\ (a \o b)[k + 1] = a[k + 1] /\ k + 1 \in 0..M
          /\ k \in 0..M + N /\ k # M + N
      BY <1>0, <2>1
    <3> QED BY <3>1, <2>1, <1>2, <1>3
  <2>2. 0 \in T
    BY <1>0, <1>2, <1>3
  <2> HIDE DEF T
  <2>3. \A k \in 0..M : k \in T
    BY <1>0, <2>1, <2>2, UpTo
  <2> QED BY <2>3 DEF T
<1>6. P[M] = A[M]
  <2>1. M \in 0..M
    BY <1>0
  <2> QED BY <2>1, <1>5
<1>7. A[M] \in Seq(S)
  BY <1>3, PickRange
<1>8. \A k \in 0..N : B[k] \in Seq(S)
  BY PickedType DEF B
<1> DEFINE T == {h \in 0..N : P[M + h] = A[M] \o B[h]}
<1>9. 0 \in T
  <2>1. A[M] \o B[0] = A[M]
    BY <1>4, <1>7, ConcatEmptySeq, Zenon
  <2>2. P[M + 0] = A[M] \o B[0]
    BY <1>0, <1>6, <2>1
  <2>3. 0 \in 0..N
    BY <1>0
  <2> QED BY <2>2, <2>3, Zenon
<1>10. ASSUME NEW k \in 0..N, k \in T, k # N PROVE k + 1 \in T
  <2>1. /\ k + 1 \in 0..N /\ M + k \in 0..M + N /\ M + k # M + N
        /\ (M + k) + 1 = M + (k + 1)
    BY <1>0, <1>10
  <2>2. (a \o b)[(M + k) + 1] = b[k + 1] /\ b[k + 1] \in S
    BY <1>0, <1>10
  <2>3. k + 1 \in J <=> (M + k) + 1 \in I
    BY <1>0, <1>10, <2>1
  <2>4. P[(M + k) + 1] = IF k + 1 \in J THEN Append(P[M + k], b[k + 1]) ELSE P[M + k]
    BY <2>1, <2>2, <2>3, <1>2
  <2>5. P[M + k] = A[M] \o B[k] /\ B[k] \in Seq(S)
    BY <1>8, <1>10
  <2>6. CASE k + 1 \in J
    <3>1. B[k + 1] = Append(B[k], b[k + 1])
      BY <1>10, <2>6, <1>4
    <3> DEFINE s == A[M]
               t == B[k]
               e == b[k + 1]
    <3>a. s \in Seq(S) /\ t \in Seq(S) /\ e \in S
      BY <1>7, <2>2, <2>5
    <3>b. Append(s \o t, e) = s \o Append(t, e)
      <4> HIDE DEF s, t, e, T
      <4>1. <<e>> \in Seq(S) /\ s \o t \in Seq(S)
        BY <3>a
      <4>2. Append(s \o t, e) = (s \o t) \o <<e>> /\ Append(t, e) = t \o <<e>>
        BY <3>a, <4>1, AppendIsConcat
      <4>3. (s \o t) \o <<e>> = s \o (t \o <<e>>)
        BY <3>a, <4>1, ConcatAssociative
      <4> QED BY <4>2, <4>3
    <3>2. P[M + (k + 1)] = Append(s \o t, e)
      <4>1. P[M + (k + 1)] = Append(P[M + k], e)
        BY <2>1, <2>4, <2>6
      <4>2. P[M + k] = s \o t
        BY <2>5
      <4> HIDE DEF s, t, e
      <4> QED BY <4>1, <4>2
    <3> DEFINE u == B[k + 1]
    <3>3. u = Append(t, e)
      BY <3>1
    <3>4. P[M + (k + 1)] = s \o u
      <4> HIDE DEF s, t, e, u
      <4> QED BY <3>b, <3>2, <3>3
    <3> QED BY <3>4, <2>1
  <2>7. CASE k + 1 \notin J
    <3>1. B[k + 1] = B[k]
      BY <1>10, <2>7, <1>4
    <3> QED BY <3>1, <2>1, <2>4, <2>5, <2>7
  <2> QED BY <2>6, <2>7
<1>11. \A k \in 0..N : k \in T
  <2> HIDE DEF T
  <2> QED BY <1>9, <1>10, <1>0, UpTo
<1>12. P[M + N] = A[M] \o B[N]
  <2>1. N \in 0..N
    BY <1>0
  <2> QED BY <1>11, <2>1
<1> QED BY <1>12, <1>2, <1>3, <1>4

(* What is picked are elements at different positions. *)
LEMMA PickPositions ==
  ASSUME NEW S, NEW list \in Seq(S), NEW I
  PROVE  \E p \in [1..Len(Pick(list, I)) -> 1..Len(list)] :
           /\ \A i \in 1..Len(Pick(list, I)) : Pick(list, I)[i] = list[p[i]] /\ p[i] \in I
           /\ \A i, h \in 1..Len(Pick(list, I)) : p[i] = p[h] => i = h
<1> DEFINE N == Len(list)
           P == Picked(list, I)
           At(q, p, k) ==
             /\ p \in [1..Len(q) -> 1..k]
             /\ \A i \in 1..Len(q) : q[i] = list[p[i]] /\ p[i] \in I
             /\ \A i, h \in 1..Len(q) : p[i] = p[h] => i = h
           T == {k \in 0..N : \E p : At(P[k], p, k)}
<1>0. N \in Nat /\ N \in 0..N
  OBVIOUS
<1>1. /\ P[0] = <<>>
      /\ \A k \in 0..N : k # N =>
           P[k + 1] = IF k + 1 \in I THEN Append(P[k], list[k + 1]) ELSE P[k]
      /\ Pick(list, I) = P[N]
  BY <1>0, PickedExists
<1>2. \A k \in 0..N : P[k] \in Seq(S)
  BY PickedType
<1> HIDE DEF P
<1>3. 0 \in T
  <2>1. At(<<>>, <<>>, 0)
    OBVIOUS
  <2> HIDE DEF At
  <2>2. \E p : At(P[0], p, 0)
    BY <1>1, <2>1
  <2> QED BY <1>0, <2>2
<1>4. ASSUME NEW k \in 0..N, k \in T, k # N PROVE k + 1 \in T
  <2> HIDE DEF At
  <2>1. PICK p : At(P[k], p, k)
    BY <1>4
  <2>2. k + 1 \in 0..N /\ k \in Nat /\ list[k + 1] \in S /\ P[k] \in Seq(S)
    BY <1>0, <1>2, <1>4
  <2> DEFINE q == P[k]
             r == P[k + 1]
             m == Len(q)
  <2>3. q \in Seq(S) /\ m \in Nat
    BY <2>2
  <2>4. /\ p \in [1..m -> 1..k]
        /\ \A i \in 1..m : q[i] = list[p[i]] /\ p[i] \in I
        /\ \A i, h \in 1..m : p[i] = p[h] => i = h
    BY <2>1 DEF At
  <2>5. CASE k + 1 \in I
    <3> DEFINE pp == [i \in 1..m + 1 |-> IF i = m + 1 THEN k + 1 ELSE p[i]]
    <3>1. r = Append(q, list[k + 1])
      BY <1>1, <1>4, <2>5
    <3>2. Len(r) = m + 1 /\ r[m + 1] = list[k + 1] /\ \A i \in 1..m : r[i] = q[i]
      BY <2>2, <3>1, AppendProperties
    <3> HIDE DEF q, r, m
    <3>3. pp \in [1..m + 1 -> 1..k + 1]
      BY <2>2, <2>3, <2>4
    <3>4. \A i \in 1..m + 1 : i \in 1..m \/ i = m + 1
      BY <2>3
    <3>5. \A i \in 1..m : pp[i] = p[i] /\ p[i] # k + 1
      BY <2>2, <2>3, <2>4
    <3>6. pp[m + 1] = k + 1
      BY <2>3
    <3> HIDE DEF pp
    <3>7. \A i \in 1..m + 1 : r[i] = list[pp[i]] /\ pp[i] \in I
      BY <2>4, <2>5, <3>2, <3>4, <3>5, <3>6
    <3>8. \A i, h \in 1..m + 1 : pp[i] = pp[h] => i = h
      BY <2>4, <3>4, <3>5, <3>6
    <3>9. At(r, pp, k + 1)
      BY <3>2, <3>3, <3>7, <3>8 DEF At
    <3> QED BY <2>2, <3>9 DEF r
  <2>6. CASE k + 1 \notin I
    <3>1. P[k + 1] = P[k]
      BY <1>1, <1>4, <2>6
    <3>2. p \in [1..m -> 1..k + 1]
      BY <2>2, <2>3, <2>4
    <3>3. At(P[k + 1], p, k + 1)
      BY <2>4, <3>1, <3>2 DEF At
    <3> QED BY <2>2, <3>3
  <2> QED BY <2>5, <2>6
<1>5. \A k \in 0..N : k \in T
  <2> HIDE DEF T
  <2> QED BY <1>0, <1>3, <1>4, UpTo
<1>6. PICK p : At(P[N], p, N)
  BY <1>0, <1>5
<1> QED BY <1>1, <1>6

(* Nothing is picked from no position. *)
LEMMA PickNone ==
  ASSUME NEW S, NEW list \in Seq(S), NEW I, \A i \in 1..Len(list) : i \notin I
  PROVE  Pick(list, I) = <<>>
<1> DEFINE p == Pick(list, I)
<1>1. p \in Seq(S) /\ \A x : x \notin Range(p)
  BY PickRange
<1> HIDE DEF p
<1>2. ASSUME p # <<>> PROVE FALSE
  <2>1. 1 \in DOMAIN p
    BY <1>1, <1>2
  <2> QED BY <2>1, <1>1 DEF Range
<1> QED BY <1>2 DEF p

(* All is picked from all positions. *)
LEMMA PickAll ==
  ASSUME NEW S, NEW list \in Seq(S), NEW I, \A i \in 1..Len(list) : i \in I
  PROVE  Pick(list, I) = list
<1> DEFINE N == Len(list)
           P == Picked(list, I)
           T == {k \in 0..N : P[k] = SubSeq(list, 1, k)}
<1>0. N \in Nat
  OBVIOUS
<1>1. /\ P[0] = <<>>
      /\ \A k \in 0..N : k # N =>
           P[k + 1] = IF k + 1 \in I THEN Append(P[k], list[k + 1]) ELSE P[k]
      /\ Pick(list, I) = P[N]
  BY <1>0, PickedExists
<1>2. \A k \in 0..N : P[k] \in Seq(S)
  BY PickedType
<1> HIDE DEF P
<1>3. 0 \in T
  <2>1. SubSeq(list, 1, 0) = <<>>
    BY SubSeqEmpty
  <2>2. P[0] = SubSeq(list, 1, 0)
    BY <2>1, <1>1, Zenon
  <2> QED BY <2>2, <1>0
<1>4. ASSUME NEW k \in 0..N, k \in T, k # N PROVE k + 1 \in T
  <2>1. k + 1 \in 1..N /\ list[k + 1] \in S /\ P[k] \in Seq(S) /\ (k + 1) - 1 = k
    BY <1>0, <1>2, <1>4
  <2>2. P[k + 1] = P[k] \o <<list[k + 1]>>
    BY <2>1, <1>1, <1>4, AppendIsConcat
  <2>3. SubSeq(list, 1, k + 1) = SubSeq(list, 1, (k + 1) - 1) \o <<list[k + 1]>>
    <3>1. 1 \in 1..N /\ k + 1 \in 1..N
      BY <2>1
    <3> QED BY <3>1, SubSeqRecursiveSecond
  <2>4. P[k + 1] = SubSeq(list, 1, k + 1)
    BY <2>1, <2>2, <2>3, <1>4
  <2> QED BY <2>1, <2>4
<1>5. \A k \in 0..N : k \in T
  <2> HIDE DEF T
  <2> QED BY <1>0, <1>3, <1>4, UpTo
<1>6. P[N] = SubSeq(list, 1, N)
  <2>1. N \in 0..N
    BY <1>0
  <2> QED BY <2>1, <1>5
<1> QED BY <1>1, <1>6, SubSeqFull

(* The first that is picked is the element at the least position. *)
LeastAt(m, list, I) ==
  m \in 1..Len(list) /\ m \in I /\ \A i \in 1..Len(list) : i \in I => m <= i
FirstThenRest(m, list, I) == Pick(list, I) = <<list[m]>> \o Pick(list, I \ {m})
LEMMA PickLeast ==
  ASSUME NEW S, NEW list \in Seq(S), NEW I, NEW m, LeastAt(m, list, I)
  PROVE  FirstThenRest(m, list, I)
<1> DEFINE N == Len(list)
           J == I \ {m}
           P == Picked(list, I)
           Q == Picked(list, J)
           first == <<list[m]>>
           T == {k \in 0..N : /\ k < m => P[k] = <<>> /\ Q[k] = <<>>
                              /\ ~(k < m) => P[k] = first \o Q[k]}
<1>0. /\ N \in Nat /\ m \in 1..N /\ m \in 1..Len(list) /\ m \in I
      /\ \A i \in 1..Len(list) : i \in I => m <= i
  BY DEF LeastAt
<1>1. /\ P[0] = <<>>
      /\ \A k \in 0..N : k # N =>
           P[k + 1] = IF k + 1 \in I THEN Append(P[k], list[k + 1]) ELSE P[k]
      /\ Pick(list, I) = P[N]
  BY <1>0, PickedExists
<1>2. /\ Q[0] = <<>>
      /\ \A k \in 0..N : k # N =>
           Q[k + 1] = IF k + 1 \in J THEN Append(Q[k], list[k + 1]) ELSE Q[k]
      /\ Pick(list, J) = Q[N]
  BY <1>0, PickedExists
<1>3. \A k \in 0..N : Q[k] \in Seq(S)
  BY PickedType
<1> HIDE DEF P, Q
<1>4. first \in Seq(S)
  BY <1>0
<1>5. 0 \in T
  BY <1>0, <1>1, <1>2
<1>6. ASSUME NEW k \in 0..N, k \in T, k # N PROVE k + 1 \in T
  <2>1. k + 1 \in 1..N /\ list[k + 1] \in S
    BY <1>0, <1>6
  <2>2. CASE k + 1 < m
    <3>1. k + 1 \notin I /\ k < m
      BY <2>1, <2>2, <1>0
    <3>2. P[k + 1] = <<>> /\ Q[k + 1] = <<>>
      BY <3>1, <1>1, <1>2, <1>6
    <3> QED BY <2>1, <2>2, <3>2
  <2>3. CASE k + 1 = m
    <3>1. k + 1 \in I /\ k + 1 \notin J /\ k < m
      BY <2>1, <2>3, <1>0
    <3>2. P[k + 1] = Append(<<>>, list[m]) /\ Q[k + 1] = <<>>
      BY <3>1, <2>3, <1>1, <1>2, <1>6
    <3>3. Append(<<>>, list[m]) = <<>> \o first
      BY AppendIsConcat, EmptySeq
    <3>4. <<>> \o first = first \o <<>>
      BY <1>4, ConcatEmptySeq
    <3>5. ~(k + 1 < m)
      BY <2>3, <1>0
    <3>6. P[k + 1] = first \o Q[k + 1]
      BY <3>2, <3>3, <3>4
    <3> QED BY <2>1, <3>5, <3>6
  <2>4. CASE k + 1 > m
    <3>1. ~(k < m) /\ ~(k + 1 < m) /\ (k + 1 \in I <=> k + 1 \in J)
      BY <2>1, <2>4, <1>0
    <3>2. P[k] = first \o Q[k] /\ Q[k] \in Seq(S)
      BY <3>1, <1>3, <1>6
    <3>3. CASE k + 1 \in J
      <4> DEFINE q == Q[k]
                 e == list[k + 1]
      <4>1. P[k + 1] = Append(first \o q, e) /\ Q[k + 1] = Append(q, e)
        BY <3>1, <3>2, <3>3, <1>1, <1>2, <1>6
      <4>2. q \in Seq(S) /\ e \in S
        BY <3>2, <2>1
      <4> HIDE DEF q, e, first
      <4>3. <<e>> \in Seq(S) /\ first \o q \in Seq(S)
        BY <1>4, <4>2
      <4>4. Append(first \o q, e) = (first \o q) \o <<e>> /\ Append(q, e) = q \o <<e>>
        BY <4>2, <4>3, AppendIsConcat
      <4>5. (first \o q) \o <<e>> = first \o (q \o <<e>>)
        BY <1>4, <4>2, <4>3, ConcatAssociative
      <4>6. P[k + 1] = first \o Q[k + 1]
        BY <4>1, <4>4, <4>5
      <4> QED BY <2>1, <3>1, <4>6
    <3>4. CASE k + 1 \notin J
      <4>1. P[k + 1] = P[k] /\ Q[k + 1] = Q[k]
        BY <3>1, <3>4, <1>1, <1>2, <1>6
      <4>2. P[k + 1] = first \o Q[k + 1]
        BY <4>1, <3>2
      <4> QED BY <4>2, <2>1, <3>1
    <3> QED BY <3>3, <3>4
  <2> QED BY <1>0, <2>1, <2>2, <2>3, <2>4
<1>7. \A k \in 0..N : k \in T
  <2> HIDE DEF T
  <2> QED BY <1>0, <1>5, <1>6, UpTo
<1>8. P[N] = first \o Q[N]
  <2>1. N \in 0..N /\ ~(N < m)
    BY <1>0
  <2> HIDE DEF first
  <2> QED BY <2>1, <1>7
<1> QED BY <1>8, <1>1, <1>2 DEF FirstThenRest
-----------------------------------------------------------------------------
(* UniqueTag finds a tag that is not used: of as many numbers as there are used *)
(* tags, and one more, one is free.                                             *)
LEMMA UniqueTagIsNew ==
  ASSUME NEW name, NEW used, IsFiniteSet(used)
  PROVE  /\ UniqueTag(name, used) \notin used
         /\ \E k \in Nat \ {0} : UniqueTag(name, used) = [name |-> name, n |-> k]
<1> DEFINE N == Cardinality(used)
           F(k) == [name |-> name, n |-> k]
           K == {k \in 1..N + 1 : F(k) \notin used}
<1>1. N \in Nat
  BY FS_CardinalityType
<1>2. K # {}
  <2> SUFFICES ASSUME K = {} PROVE FALSE
    OBVIOUS
  <2> DEFINE f == [k \in 1..N + 1 |-> F(k)]
  <2>1. f \in [1..N + 1 -> used]
    OBVIOUS
  <2>2. IsFiniteSet(1..N + 1) /\ Cardinality(1..N + 1) = N + 1
    BY <1>1, FS_Interval
  <2>3. \E x, y \in 1..N + 1 : x # y /\ f[x] = f[y]
    <3> HIDE DEF f
    <3> QED BY <1>1, <2>1, <2>2, FS_PigeonHole
  <2>4. \A x, y : F(x) = F(y) => x = y
    <3>1. \A x : F(x).n = x
      OBVIOUS
    <3> QED BY <3>1
  <2> QED BY <2>3, <2>4
<1>3. PICK k \in K : \A h \in K : k <= h
  <2>1. K \in SUBSET Nat
    BY <1>1
  <2> QED BY <1>2, <2>1, LeastOf
<1>4. /\ F(k) \in [name : {name}, n : 1..N + 1] /\ F(k) \notin used
      /\ \A h \in 1..F(k).n - 1 : F(h) \in used
  <2>1. F(k).n = k /\ k \in 1..N + 1
    OBVIOUS
  <2>2. ASSUME NEW h \in 1..k - 1 PROVE F(h) \in used
    <3>1. h \in 1..N + 1 /\ ~(k <= h)
      BY <1>1, <2>1
    <3> QED BY <3>1, <1>3
  <2> QED BY <2>1, <2>2
<1> DEFINE t == UniqueTag(name, used)
<1>5. t \in [name : {name}, n : 1..N + 1] /\ t \notin used
  BY <1>4 DEF UniqueTag
<1>6. t = [name |-> name, n |-> t.n] /\ t.n \in Nat \ {0}
  <2> HIDE DEF t
  <2> QED BY <1>5, <1>1
<1> QED BY <1>5, <1>6

(* The tags of a list of outbounds. *)
LEMMA TagsType ==
  ASSUME NEW list \in Seq(Outbound)
  PROVE  /\ Tags(list) \in Seq(Tag)
         /\ Len(Tags(list)) = Len(list)
         /\ \A i \in 1..Len(list) : Tags(list)[i] = list[i].tag
         /\ \A t : t \in Range(Tags(list)) <=> \E i \in 1..Len(list) : t = list[i].tag
         /\ IsFiniteSet(Range(Tags(list)))
<1> DEFINE N == Len(list)
           T == Tags(list)
<1>1. N \in Nat /\ DOMAIN list = 1..N
  OBVIOUS
<1>2. T = [i \in 1..N |-> list[i].tag]
  BY <1>1 DEF Tags
<1>3. \A i \in 1..N : list[i].tag \in Tag
  <2>1. \A i \in 1..N : list[i] \in Outbound
    BY ElementOfSeq
  <2> QED BY <2>1 DEF Outbound
<1>4. T \in [1..N -> Tag]
  BY <1>2, <1>3
<1> HIDE DEF T
<1>5. T \in Seq(Tag) /\ Len(T) = N
  BY <1>1, <1>4
<1>6. \A i \in 1..N : T[i] = list[i].tag
  BY <1>2
<1>7. DOMAIN T = 1..N
  BY <1>4
<1>8. \A t : t \in Range(T) <=> \E i \in 1..N : t = list[i].tag
  BY <1>6, <1>7 DEF Range
<1>9. IsFiniteSet(Range(T))
  <2>1. T \in Surjection(1..N, Range(T))
    BY <1>4, <1>7 DEF Surjection, Range
  <2> QED BY <1>1, <2>1, FS_NatSurjection DEF ExistsSurjection
<1> QED BY <1>5, <1>6, <1>8, <1>9 DEF T

(* What a command may be run for. *)
Source == Sub \cup {Manual}

(* A tag keeps between none and ten digits of the hash, so its name is a list of names. *)
LEMMA DigitsType ==
  ASSUME NEW s \in Sub
  PROVE  Digits(s) \in 0..10
<1> DEFINE w == Width[s]
           Fits(d) == /\ d = 0 \/ w + 1 + d <= 48
                      /\ d = 10 \/ w + 1 + d >= 48
<1>1. w \in Nat
  BY SubscriptionsAssumption
<1> HIDE DEF w
<1>2. CASE w <= 37
  <2>1. Fits(10)
    BY <1>1, <1>2
  <2> QED BY <2>1 DEF Digits, w
<1>3. CASE w \in 38..46
  <2>1. 47 - w \in 0..10 /\ Fits(47 - w)
    BY <1>1, <1>3
  <2> QED BY <2>1 DEF Digits, w
<1>4. CASE w >= 47
  <2>1. Fits(0)
    BY <1>1, <1>4
  <2> QED BY <2>1 DEF Digits, w
<1> QED BY <1>1, <1>2, <1>3, <1>4

LEMMA NameType ==
  ASSUME NEW s \in Source, NEW l \in Link
  PROVE  Name(s, l) \in Seq(STRING)
<1>1. CASE s = Manual
  BY <1>1, LinksAssumption DEF Name, Links
<1>2. CASE s # Manual
  <2>1. s \in Sub /\ Stem[s] \in STRING
    BY <1>2, SubscriptionsAssumption DEF Source
  <2>2. Hash[l][Digits(s)] \in STRING
    BY <2>1, DigitsType, LinksAssumption
  <2>3. Name(s, l) = <<Stem[s], Hash[l][Digits(s)]>>
    BY <1>2 DEF Name
  <2> QED BY <2>1, <2>2, <2>3
<1> QED BY <1>1, <1>2

(* The outbounds and the tags a refresh starts from. *)
LEMMA StartType ==
  ASSUME NEW c \in Content, NEW s \in Source
  PROVE  /\ c.outbounds \in Seq(Outbound)
         /\ Kept(c, s) \in Seq(Outbound)
         /\ \A n : Held(c, s, n) \in Seq(Outbound)
         /\ KeptTags(c, s) \in [Node -> Seq(Tag)]
         /\ UsedTags(c, s) \subseteq Tag /\ IsFiniteSet(UsedTags(c, s))
<1>1. c.outbounds \in Seq(Outbound)
  BY DEF Content
<1>2. Kept(c, s) \in Seq(Outbound)
  <2>1. Others(c, s) \in Seq(Outbound)
    BY <1>1, PickRange DEF Others
  <2> QED BY <1>1, <2>1 DEF Kept
<1>3. ASSUME NEW n PROVE Held(c, s, n) \in Seq(Outbound)
  BY <1>1, PickRange DEF Held
<1>4. \A n : HeldTags(c, s, n) \in Seq(Tag)
  BY <1>3, TagsType DEF HeldTags
<1>5. KeptTags(c, s) \in [Node -> Seq(Tag)]
  <2>1. <<>> \in Seq(Tag)
    BY EmptySeq
  <2> QED BY <1>4, <2>1 DEF KeptTags
<1>6. UsedTags(c, s) \subseteq Tag /\ IsFiniteSet(UsedTags(c, s))
  <2>1. Tags(Kept(c, s)) \in Seq(Tag) /\ IsFiniteSet(Range(Tags(Kept(c, s))))
    BY <1>2, TagsType
  <2> QED BY <2>1, RangeOfSeq DEF UsedTags
<1> QED BY <1>1, <1>2, <1>3, <1>5, <1>6
-----------------------------------------------------------------------------
(* The recursive function inside ApplyNodes exists. *)
LEMMA GivenIs ==
  ASSUME NEW c, NEW s, NEW links, Len(links) \in Nat
  PROVE  /\ Given(c, s, links)[0] =
              [left |-> KeptTags(c, s), used |-> UsedTags(c, s), made |-> <<>>]
         /\ \A k \in 0..Len(links) : k # Len(links) =>
              Given(c, s, links)[k + 1] = Give(Given(c, s, links)[k], s, links[k + 1])
<1> DEFINE N == Len(links)
           start == [left |-> KeptTags(c, s), used |-> UsedTags(c, s), made |-> <<>>]
           Add(x, k) == Give(x, s, links[k])
           Is(g, m) == g = [k \in 0..m |-> IF k = 0 THEN start ELSE Add(g[k - 1], k)]
           S == {m \in 0..N : \E g : Is(g, m)}
<1> HIDE DEF Add, start
<1>1. 0 \in S
  <2>1. Is([k \in 0..0 |-> start], 0)
    OBVIOUS
  <2> HIDE DEF Is
  <2>2. \E g : Is(g, 0)
    BY <2>1
  <2> QED BY <2>2
<1>2. ASSUME NEW m \in 0..N, m \in S, m # N PROVE m + 1 \in S
  <2>1. PICK g : Is(g, m)
    BY <1>2
  <2> DEFINE h == [k \in 0..m + 1 |-> IF k = m + 1 THEN Add(g[m], m + 1) ELSE g[k]]
  <2>2. ASSUME NEW k \in 0..m + 1
        PROVE  h[k] = IF k = 0 THEN start ELSE Add(h[k - 1], k)
    <3>1. CASE k = m + 1
      BY <3>1
    <3>2. CASE k \in 0..m
      <4>1. g[k] = IF k = 0 THEN start ELSE Add(g[k - 1], k)
        BY <2>1, <3>2
      <4> QED BY <4>1, <3>2
    <3> QED BY <3>1, <3>2
  <2>3. Is(h, m + 1)
    BY <2>2
  <2> HIDE DEF Is
  <2>4. \E longer : Is(longer, m + 1)
    BY <2>3
  <2> QED BY <2>4, <1>2
<1>3. \A m \in 0..N : m \in S
  <2> HIDE DEF S
  <2> QED BY <1>1, <1>2, UpTo
<1>4. PICK g : Is(g, N)
  <2>1. N \in 0..N
    OBVIOUS
  <2> QED BY <1>3, <2>1
<1> DEFINE G == Given(c, s, links)
<1>5. Is(G, N)
  BY <1>4 DEF Given, Add, start
<1>6. \A k \in 0..N : G[k] = IF k = 0 THEN start ELSE Add(G[k - 1], k)
  BY <1>5
<1> HIDE DEF G
<1>7. G[0] = start
  BY <1>6
<1>8. ASSUME NEW k \in 0..N, k # N PROVE G[k + 1] = Add(G[k], k + 1)
  <2>1. k + 1 \in 0..N /\ k + 1 # 0 /\ (k + 1) - 1 = k
    BY <1>8
  <2>2. G[k + 1] = IF k + 1 = 0 THEN start ELSE Add(G[(k + 1) - 1], k + 1)
    BY <2>1, <1>6
  <2> QED BY <2>1, <2>2
<1> QED BY <1>7, <1>8 DEF G, Add, start

(* The state of the fold, and the node it makes of one link. *)
Accs == [left : [Node -> Seq(Tag)], used : SUBSET Tag, made : Seq(Outbound)]
Made(s, l, tag) ==
  [tag |-> tag, node |-> NodeOf(l), sub |-> s, good |-> FieldsComplete(Entry[l])]

(* One link takes the first tag left of its node, or gets a tag nobody has. *)
Reused(acc, l, tag, left) ==
  /\ acc.left[NodeOf(l)] # <<>>
  /\ tag = Head(acc.left[NodeOf(l)])
  /\ left = [acc.left EXCEPT ![NodeOf(l)] = Tail(acc.left[NodeOf(l)])]
Fresh(acc, s, l, tag, left) ==
  /\ acc.left[NodeOf(l)] = <<>>
  /\ tag = UniqueTag(Name(s, l), acc.used)
  /\ tag \notin acc.used /\ tag.name = Name(s, l)
  /\ left = acc.left

(* One step of the fold. *)
LEMMA GiveIs ==
  ASSUME NEW acc \in Accs, IsFiniteSet(acc.used), NEW s \in Source, NEW l \in Link
  PROVE  \E tag \in Tag, left \in [Node -> Seq(Tag)] :
           /\ Give(acc, s, l) = [left |-> left, used |-> acc.used \cup {tag},
                                 made |-> Append(acc.made, Made(s, l, tag))]
           /\ Made(s, l, tag) \in Outbound
           /\ Reused(acc, l, tag, left) \/ Fresh(acc, s, l, tag, left)
<1> DEFINE n == NodeOf(l)
<1>1. n \in Node /\ acc.left[n] \in Seq(Tag) /\ acc.left \in [Node -> Seq(Tag)]
  BY DEF Node, Accs
<1>2. FieldsComplete(Entry[l]) \in BOOLEAN
  BY DEF FieldsComplete, RequiredFields
<1>3. ASSUME NEW tag \in Tag PROVE Made(s, l, tag) \in Outbound
  BY <1>1, <1>2 DEF Made, Outbound, Source
<1>4. CASE acc.left[n] = <<>>
  <2> DEFINE tag == UniqueTag(Name(s, l), acc.used)
  <2>1. tag \notin acc.used
    BY UniqueTagIsNew
  <2>2. PICK k \in Nat \ {0} : tag = [name |-> Name(s, l), n |-> k]
    BY UniqueTagIsNew
  <2>3. tag \in Tag /\ tag.name = Name(s, l)
    BY <2>2, NameType DEF Tag
  <2>4. Give(acc, s, l) = AddTag(acc, s, l, tag)
    BY <1>4 DEF Give
  <2>5. AddTag(acc, s, l, tag) = [left |-> acc.left, used |-> acc.used \cup {tag},
                                  made |-> Append(acc.made, Made(s, l, tag))]
    BY DEF AddTag, Made
  <2>6. Fresh(acc, s, l, tag, acc.left)
    BY <1>4, <2>1, <2>3 DEF Fresh
  <2> HIDE DEF tag
  <2> QED BY <1>1, <1>3, <2>3, <2>4, <2>5, <2>6
<1>5. CASE acc.left[n] # <<>>
  <2> DEFINE tag == Head(acc.left[n])
             left == [acc.left EXCEPT ![n] = Tail(acc.left[n])]
             rest == [acc EXCEPT !.left[n] = Tail(acc.left[n])]
  <2>1. tag \in Tag /\ Tail(acc.left[n]) \in Seq(Tag)
    BY <1>1, <1>5, HeadTailProperties
  <2>2. left \in [Node -> Seq(Tag)]
    BY <1>1, <2>1
  <2>3. Give(acc, s, l) = AddTag(rest, s, l, tag)
    BY <1>5 DEF Give
  <2>4. rest.left = left /\ rest.used = acc.used /\ rest.made = acc.made
    BY DEF Accs
  <2>5. AddTag(rest, s, l, tag) = [left |-> left, used |-> acc.used \cup {tag},
                                   made |-> Append(acc.made, Made(s, l, tag))]
    <3> HIDE DEF rest, left, tag
    <3> QED BY <2>4 DEF AddTag, Made
  <2>6. Reused(acc, l, tag, left)
    BY <1>5 DEF Reused
  <2> HIDE DEF tag, left, rest
  <2> QED BY <1>3, <2>1, <2>2, <2>3, <2>5, <2>6
<1> QED BY <1>4, <1>5

(* The fold keeps its types, and makes one outbound of each link. *)
LEMMA GivenType ==
  ASSUME NEW c \in Content, NEW s \in Source, NEW links \in Seq(Link)
  PROVE  \A k \in 0..Len(links) :
           LET acc == Given(c, s, links)[k]
           IN  /\ acc \in Accs /\ IsFiniteSet(acc.used)
               /\ Len(acc.made) = k
               /\ \A i \in 1..k : acc.made[i] = Made(s, links[i], acc.made[i].tag)
<1> DEFINE N == Len(links)
           G == Given(c, s, links)
           Ok(acc, k) == /\ acc \in Accs /\ IsFiniteSet(acc.used)
                         /\ Len(acc.made) = k
                         /\ \A i \in 1..k : acc.made[i] = Made(s, links[i], acc.made[i].tag)
           T == {k \in 0..N : Ok(G[k], k)}
<1>0. N \in Nat
  OBVIOUS
<1>1. /\ G[0] = [left |-> KeptTags(c, s), used |-> UsedTags(c, s), made |-> <<>>]
      /\ \A k \in 0..N : k # N => G[k + 1] = Give(G[k], s, links[k + 1])
  BY <1>0, GivenIs
<1> HIDE DEF G
<1>2. 0 \in T
  <2>1. G[0] \in Accs /\ IsFiniteSet(G[0].used) /\ Len(G[0].made) = 0
    BY <1>1, StartType, EmptySeq DEF Accs
  <2> QED BY <1>0, <2>1
<1>3. ASSUME NEW k \in 0..N, k \in T, k # N PROVE k + 1 \in T
  <2> DEFINE acc == G[k]
             l == links[k + 1]
  <2>1. k + 1 \in 0..N /\ l \in Link /\ Ok(acc, k)
    BY <1>0, <1>3
  <2>2. PICK tag \in Tag, left \in [Node -> Seq(Tag)] :
          /\ Give(acc, s, l) = [left |-> left, used |-> acc.used \cup {tag},
                                made |-> Append(acc.made, Made(s, l, tag))]
          /\ Made(s, l, tag) \in Outbound
    <3> HIDE DEF acc, l
    <3> QED BY <2>1, GiveIs
  <2> DEFINE b == [left |-> left, used |-> acc.used \cup {tag},
                   made |-> Append(acc.made, Made(s, l, tag))]
  <2>3. G[k + 1] = b
    BY <1>1, <1>3, <2>2
  <2>4. acc.made \in Seq(Outbound) /\ acc.used \subseteq Tag /\ Len(acc.made) = k
    BY <2>1 DEF Accs
  <2> HIDE DEF acc, l
  <2>5. /\ b.made \in Seq(Outbound) /\ Len(b.made) = k + 1
        /\ b.made[k + 1] = Made(s, l, tag)
        /\ \A i \in 1..k : b.made[i] = acc.made[i]
    BY <2>2, <2>4, AppendProperties
  <2>6. b \in Accs
    BY <2>4, <2>5 DEF Accs
  <2>7. IsFiniteSet(b.used)
    BY <2>1, FS_AddElement
  <2>8. Made(s, l, tag).tag = tag
    BY DEF Made
  <2>9. \A i \in 1..k + 1 : b.made[i] = Made(s, links[i], b.made[i].tag)
    <3> HIDE DEF b
    <3>1. \A i \in 1..k + 1 : i \in 1..k \/ i = k + 1
      OBVIOUS
    <3>2. \A i \in 1..k : b.made[i] = Made(s, links[i], b.made[i].tag)
      BY <2>1, <2>5
    <3>3. b.made[k + 1] = Made(s, links[k + 1], b.made[k + 1].tag)
      BY <2>5, <2>8 DEF l
    <3> QED BY <3>1, <3>2, <3>3
  <2>10. Ok(G[k + 1], k + 1)
    <3> HIDE DEF b
    <3> QED BY <2>3, <2>5, <2>6, <2>7, <2>9
  <2> QED BY <2>1, <2>10
<1>4. \A k \in 0..N : k \in T
  <2> HIDE DEF T
  <2> QED BY <1>0, <1>2, <1>3, UpTo
<1> QED BY <1>4 DEF G

(* One step of the fold, with what it starts from and what it makes. *)
Stepped(acc, b, s, l, tag, left) ==
  /\ b.left = left /\ b.used = acc.used \cup {tag}
  /\ b.made = Append(acc.made, Made(s, l, tag))
  /\ b.made \in Seq(Outbound) /\ Len(b.made) = Len(acc.made) + 1
  /\ b.made[Len(b.made)].tag = tag /\ b.made[Len(b.made)].node = NodeOf(l)
  /\ \A i \in 1..Len(acc.made) : b.made[i] = acc.made[i]
  /\ Reused(acc, l, tag, left) \/ Fresh(acc, s, l, tag, left)

LEMMA GivenStep ==
  ASSUME NEW c \in Content, NEW s \in Source, NEW links \in Seq(Link),
         NEW k \in 0..Len(links), k # Len(links)
  PROVE  \E tag \in Tag, left \in [Node -> Seq(Tag)] :
           Stepped(Given(c, s, links)[k], Given(c, s, links)[k + 1], s, links[k + 1], tag, left)
<1> DEFINE acc == Given(c, s, links)[k]
           b == Given(c, s, links)[k + 1]
           l == links[k + 1]
<1>1. l \in Link /\ acc \in Accs /\ IsFiniteSet(acc.used)
  BY GivenType
<1>2. b = Give(acc, s, l)
  <2>1. Len(links) \in Nat
    OBVIOUS
  <2> DEFINE G == Given(c, s, links)
  <2>2. /\ G[0] = [left |-> KeptTags(c, s), used |-> UsedTags(c, s), made |-> <<>>]
        /\ \A h \in 0..Len(links) : h # Len(links) => G[h + 1] = Give(G[h], s, links[h + 1])
    BY <2>1, GivenIs
  <2> QED BY <2>2
<1> HIDE DEF acc, b, l
<1>3. PICK tag \in Tag, left \in [Node -> Seq(Tag)] :
        /\ b = [left |-> left, used |-> acc.used \cup {tag},
                made |-> Append(acc.made, Made(s, l, tag))]
        /\ Made(s, l, tag) \in Outbound
        /\ Reused(acc, l, tag, left) \/ Fresh(acc, s, l, tag, left)
  BY <1>1, <1>2, GiveIs
<1>4. acc.made \in Seq(Outbound)
  BY <1>1 DEF Accs
<1>5. /\ b.made = Append(acc.made, Made(s, l, tag))
      /\ b.made \in Seq(Outbound) /\ Len(b.made) = Len(acc.made) + 1
      /\ b.made[Len(b.made)] = Made(s, l, tag)
      /\ \A i \in 1..Len(acc.made) : b.made[i] = acc.made[i]
  BY <1>3, <1>4, AppendProperties
<1>6. b.made[Len(b.made)].tag = tag /\ b.made[Len(b.made)].node = NodeOf(l)
  BY <1>5 DEF Made
<1>7. Stepped(acc, b, s, l, tag, left)
  BY <1>3, <1>5, <1>6 DEF Stepped
<1> QED BY <1>7 DEF acc, b, l

(* A list that is not empty is its head and its tail. *)
LEMMA RangeOfTail ==
  ASSUME NEW S, NEW q \in Seq(S), q # <<>>
  PROVE  \A t : t \in Range(q) <=> t = Head(q) \/ t \in Range(Tail(q))
<1>1. /\ Len(q) \in Nat \ {0} /\ DOMAIN q = 1..Len(q)
      /\ Tail(q) \in Seq(S) /\ Len(Tail(q)) = Len(q) - 1
      /\ \A i \in 1..Len(Tail(q)) : Tail(q)[i] = q[i + 1]
  BY HeadTailProperties, EmptySeq, LenProperties
<1>2. DOMAIN Tail(q) = 1..Len(q) - 1
  BY <1>1, LenProperties
<1>3. Head(q) = q[1]
  OBVIOUS
<1> DEFINE r == Tail(q)
           h == Head(q)
           m == Len(q)
<1>4. /\ m \in Nat \ {0} /\ DOMAIN q = 1..m /\ DOMAIN r = 1..m - 1
      /\ \A i \in 1..m - 1 : r[i] = q[i + 1]
      /\ h = q[1]
  BY <1>1, <1>2, <1>3
<1> HIDE DEF r, h, m
<1> SUFFICES ASSUME NEW t PROVE t \in Range(q) <=> t = h \/ t \in Range(r)
  BY DEF r, h
<1>5. ASSUME t \in Range(q) PROVE t = h \/ t \in Range(r)
  <2>1. PICK i \in 1..m : t = q[i]
    BY <1>4, <1>5 DEF Range
  <2>2. CASE i = 1
    BY <2>1, <2>2, <1>4
  <2>3. CASE i # 1
    <3>1. i - 1 \in 1..m - 1 /\ (i - 1) + 1 = i
      BY <2>1, <2>3, <1>4
    <3>2. t = r[i - 1]
      BY <2>1, <3>1, <1>4
    <3> QED BY <3>1, <3>2, <1>4 DEF Range
  <2> QED BY <2>2, <2>3
<1>6. ASSUME t = h PROVE t \in Range(q)
  <2>1. 1 \in 1..m
    BY <1>4
  <2> QED BY <2>1, <1>4, <1>6 DEF Range
<1>7. ASSUME t \in Range(r) PROVE t \in Range(q)
  <2>1. PICK i \in 1..m - 1 : t = r[i]
    BY <1>4, <1>7 DEF Range
  <2>2. i + 1 \in 1..m /\ t = q[i + 1]
    BY <2>1, <1>4
  <2> QED BY <2>2, <1>4 DEF Range
<1> QED BY <1>5, <1>6, <1>7

(* How often a node is among the first k links. *)
Count(links, n, k) == Cardinality({i \in 1..k : NodeOf(links[i]) = n})

LEMMA CountStep ==
  ASSUME NEW links, NEW n, NEW k \in Nat
  PROVE  /\ Count(links, n, k) \in Nat
         /\ Count(links, n, 0) = 0
         /\ Count(links, n, k + 1) =
              Count(links, n, k) + (IF NodeOf(links[k + 1]) = n THEN 1 ELSE 0)
<1> DEFINE C(m) == {i \in 1..m : NodeOf(links[i]) = n}
<1>1. IsFiniteSet(C(k))
  <2>1. IsFiniteSet(1..k) /\ C(k) \in SUBSET (1..k)
    BY FS_Interval
  <2> QED BY <2>1, FS_Subset
<1>2. Cardinality(C(k)) \in Nat
  BY <1>1, FS_CardinalityType
<1>3. C(0) = {}
  OBVIOUS
<1>4. C(k + 1) = IF NodeOf(links[k + 1]) = n THEN C(k) \cup {k + 1} ELSE C(k)
  <2>1. \A i : i \in 1..k + 1 <=> i \in 1..k \/ i = k + 1
    OBVIOUS
  <2> QED BY <2>1
<1>5. k + 1 \notin C(k)
  OBVIOUS
<1> HIDE DEF C
<1>6. Cardinality(C(k) \cup {k + 1}) = Cardinality(C(k)) + 1
  BY <1>1, <1>5, FS_AddElement
<1>7. Cardinality(C(k + 1)) = Cardinality(C(k)) + (IF NodeOf(links[k + 1]) = n THEN 1 ELSE 0)
  BY <1>2, <1>4, <1>6
<1>8. Cardinality(C(0)) = 0
  BY <1>3, FS_EmptySet
<1> QED BY <1>2, <1>7, <1>8 DEF C, Count

(* A tag a node had is either still left or given to an outbound of that node, and *)
(* while one is left every link of that node has taken one.                        *)
StillHas(acc, n, had, k) ==
  \A t \in Range(had) :
    t \in Range(acc.left[n]) \/ \E i \in 1..k : acc.made[i].tag = t /\ acc.made[i].node = n
Taken(acc, links, n, had, k) ==
  acc.left[n] = <<>> \/ Len(acc.left[n]) + Count(links, n, k) = Len(had)

LEMMA GivenKeepsTags ==
  ASSUME NEW c \in Content, NEW s \in Source, NEW links \in Seq(Link), NEW n \in Node
  PROVE  \A k \in 0..Len(links) :
           /\ StillHas(Given(c, s, links)[k], n, KeptTags(c, s)[n], k)
           /\ Taken(Given(c, s, links)[k], links, n, KeptTags(c, s)[n], k)
<1> DEFINE N == Len(links)
           G == Given(c, s, links)
           had == KeptTags(c, s)[n]
           Has(acc, k) == StillHas(acc, n, had, k)
           Takes(acc, k) == Taken(acc, links, n, had, k)
           T == {k \in 0..N : Has(G[k], k) /\ Takes(G[k], k)}
<1>0. N \in Nat
  OBVIOUS
<1>1. had \in Seq(Tag)
  BY StartType
<1>2. 0 \in T
  <2>0. G[0] = [left |-> KeptTags(c, s), used |-> UsedTags(c, s), made |-> <<>>]
    BY <1>0, GivenIs
  <2>1. G[0].left[n] = had
    BY <2>0
  <2>2. Len(had) \in Nat /\ Len(had) + Count(links, n, 0) = Len(had)
    BY <1>1, CountStep
  <2> HIDE DEF G, had
  <2> QED BY <1>0, <2>1, <2>2 DEF StillHas, Taken
<1>3. ASSUME NEW k \in 0..N, k \in T, k # N PROVE k + 1 \in T
  <2> DEFINE acc == G[k]
             b == G[k + 1]
             l == links[k + 1]
  <2>1. k + 1 \in 0..N /\ k \in Nat /\ Has(acc, k) /\ Takes(acc, k)
    BY <1>0, <1>3
  <2>2. PICK tag \in Tag, left \in [Node -> Seq(Tag)] : Stepped(acc, b, s, l, tag, left)
    BY <1>3, GivenStep
  <2>3. acc.left \in [Node -> Seq(Tag)] /\ Len(acc.made) = k
    BY <1>3, GivenType DEF Accs
  <2>4. l \in Link /\ NodeOf(l) \in Node
    BY <1>0, <1>3 DEF Node
  <2>5. Count(links, n, k) \in Nat /\
        Count(links, n, k + 1) = Count(links, n, k) + (IF NodeOf(l) = n THEN 1 ELSE 0)
    BY <2>1, CountStep
  <2> HIDE DEF acc, b, l, G, had
  <2>6. /\ \A i \in 1..k : b.made[i] = acc.made[i]
        /\ b.made[k + 1].tag = tag /\ b.made[k + 1].node = NodeOf(l)
        /\ b.left = left
    BY <2>2, <2>3 DEF Stepped
  <2>7. CASE Reused(acc, l, tag, left) /\ NodeOf(l) = n
    <3> DEFINE q == acc.left[n]
    <3>1. q \in Seq(Tag) /\ q # <<>> /\ tag = Head(q) /\ left[n] = Tail(q)
      BY <2>3, <2>7 DEF Reused
    <3>2. \A t : t \in Range(q) <=> t = tag \/ t \in Range(left[n])
      BY <3>1, RangeOfTail
    <3>3. Len(left[n]) = Len(q) - 1 /\ Len(q) \in Nat /\ Len(had) \in Nat
      BY <3>1, <1>1, HeadTailProperties
    <3> HIDE DEF q
    <3>4. Has(b, k + 1)
      <4> SUFFICES ASSUME NEW t \in Range(had)
                   PROVE  t \in Range(b.left[n]) \/
                          \E i \in 1..k + 1 : b.made[i].tag = t /\ b.made[i].node = n
        BY DEF StillHas
      <4>1. CASE t \in Range(q)
        <5>1. k + 1 \in 1..k + 1
          BY <2>1
        <5> QED BY <4>1, <5>1, <3>2, <2>6, <2>7
      <4>2. CASE \E i \in 1..k : acc.made[i].tag = t /\ acc.made[i].node = n
        <5>1. \A i \in 1..k : i \in 1..k + 1
          BY <2>1
        <5> QED BY <4>2, <5>1, <2>6
      <4> QED BY <4>1, <4>2, <2>1 DEF q, StillHas
    <3>5. Len(b.left[n]) + Count(links, n, k + 1) = Len(had)
      <4>1. Len(q) + Count(links, n, k) = Len(had)
        BY <3>1, <2>1 DEF q, Taken
      <4>2. b.left[n] = left[n] /\ Count(links, n, k) \in Nat
        BY <2>5, <2>6
      <4>3. Count(links, n, k + 1) = Count(links, n, k) + 1
        BY <2>5, <2>7
      <4> QED BY <3>3, <4>1, <4>2, <4>3
    <3>6. Takes(b, k + 1)
      BY <3>5 DEF Taken
    <3> QED BY <3>4, <3>6, <2>1 DEF b
  <2>8. CASE Fresh(acc, s, l, tag, left) \/ NodeOf(l) # n
    <3>1. b.left[n] = acc.left[n]
      BY <2>2, <2>3, <2>4, <2>6, <2>8 DEF Stepped, Reused, Fresh
    <3>2. Has(b, k + 1)
      <4>1. \A i \in 1..k : i \in 1..k + 1
        BY <2>1
      <4> QED BY <3>1, <4>1, <2>1, <2>6 DEF StillHas
    <3>3. Takes(b, k + 1)
      <4>1. CASE NodeOf(l) # n
        BY <3>1, <4>1, <2>1, <2>5 DEF Taken
      <4>2. CASE Fresh(acc, s, l, tag, left) /\ NodeOf(l) = n
        BY <3>1, <4>2 DEF Fresh, Taken
      <4> QED BY <4>1, <4>2, <2>8
    <3> QED BY <3>2, <3>3, <2>1 DEF b
  <2> QED BY <2>2, <2>7, <2>8 DEF Stepped
<1>4. \A k \in 0..N : k \in T
  <2> HIDE DEF T
  <2> QED BY <1>0, <1>2, <1>3, UpTo
<1> QED BY <1>4 DEF G, had

(* Where the tag of an outbound that ApplyNodes made comes from: its node had it, *)
(* or it has the name of the link and none of the outbounds that stay has it.     *)
Origin(c, s, l, o) ==
  \/ o.tag \in Range(KeptTags(c, s)[NodeOf(l)])
  \/ o.tag.name = Name(s, l) /\ o.tag \notin UsedTags(c, s)

LEMMA GivenOrigin ==
  ASSUME NEW c \in Content, NEW s \in Source, NEW links \in Seq(Link)
  PROVE  \A k \in 0..Len(links) :
           LET acc == Given(c, s, links)[k]
           IN  /\ \A n \in Node : Range(acc.left[n]) \subseteq Range(KeptTags(c, s)[n])
               /\ UsedTags(c, s) \subseteq acc.used
               /\ \A i \in 1..k : /\ acc.made[i].tag \in acc.used
                                  /\ Origin(c, s, links[i], acc.made[i])
<1> DEFINE N == Len(links)
           G == Given(c, s, links)
           had == KeptTags(c, s)
           Within(acc) == \A n \in Node : Range(acc.left[n]) \subseteq Range(had[n])
           From(acc, k) == \A i \in 1..k : /\ acc.made[i].tag \in acc.used
                                           /\ Origin(c, s, links[i], acc.made[i])
           T == {k \in 0..N : Within(G[k]) /\ UsedTags(c, s) \subseteq G[k].used /\ From(G[k], k)}
<1>0. N \in Nat
  OBVIOUS
<1>1. had \in [Node -> Seq(Tag)]
  BY StartType
<1>2. 0 \in T
  <2>1. G[0] = [left |-> had, used |-> UsedTags(c, s), made |-> <<>>]
    BY <1>0, GivenIs
  <2> HIDE DEF G, had
  <2> QED BY <1>0, <2>1
<1>3. ASSUME NEW k \in 0..N, k \in T, k # N PROVE k + 1 \in T
  <2> DEFINE acc == G[k]
             b == G[k + 1]
             l == links[k + 1]
  <2>1. /\ k + 1 \in 0..N /\ k \in Nat
        /\ Within(acc) /\ UsedTags(c, s) \subseteq acc.used /\ From(acc, k)
    <3> HIDE DEF Within, From
    <3> QED BY <1>0, <1>3
  <2>2. PICK tag \in Tag, left \in [Node -> Seq(Tag)] : Stepped(acc, b, s, l, tag, left)
    BY <1>3, GivenStep
  <2>3. acc.left \in [Node -> Seq(Tag)] /\ Len(acc.made) = k
    BY <1>3, GivenType DEF Accs
  <2>4. l \in Link /\ NodeOf(l) \in Node
    BY <1>0, <1>3 DEF Node
  <2> HIDE DEF acc, b, G, had
  <2>5. /\ \A i \in 1..k : b.made[i] = acc.made[i]
        /\ b.made[k + 1].tag = tag /\ b.made[k + 1].node = NodeOf(l)
        /\ b.left = left /\ b.used = acc.used \cup {tag}
    BY <2>2, <2>3 DEF Stepped
  <2>6. Within(b) /\ Origin(c, s, l, b.made[k + 1])
    <3>1. CASE Reused(acc, l, tag, left)
      <4> DEFINE n == NodeOf(l)
                 q == acc.left[n]
      <4>1. q \in Seq(Tag) /\ q # <<>> /\ tag = Head(q) /\ left[n] = Tail(q)
        BY <2>3, <2>4, <3>1 DEF Reused
      <4>2. \A t : t \in Range(q) <=> t = tag \/ t \in Range(left[n])
        BY <4>1, RangeOfTail
      <4>3. \A m \in Node : m # n => left[m] = acc.left[m]
        BY <2>3, <3>1 DEF Reused
      <4>4. Range(left[n]) \subseteq Range(q) /\ tag \in Range(q)
        BY <4>2
      <4>5. Within(b)
        <5> SUFFICES ASSUME NEW m \in Node PROVE Range(b.left[m]) \subseteq Range(had[m])
          OBVIOUS
        <5> QED BY <2>1, <2>5, <4>3, <4>4
      <4>6. tag \in Range(had[n])
        BY <2>1, <2>4, <4>4
      <4> QED BY <2>5, <4>5, <4>6 DEF Origin, had
    <3>2. CASE Fresh(acc, s, l, tag, left)
      <4>1. left = acc.left /\ tag \notin acc.used /\ tag.name = Name(s, l)
        BY <3>2 DEF Fresh
      <4>2. tag \notin UsedTags(c, s)
        BY <4>1, <2>1
      <4>3. Origin(c, s, l, b.made[k + 1])
        BY <4>1, <4>2, <2>5 DEF Origin
      <4> QED BY <4>1, <4>3, <2>1, <2>5
    <3> QED BY <2>2, <3>1, <3>2 DEF Stepped
  <2>7. From(b, k + 1)
    <3>1. \A i \in 1..k + 1 : i \in 1..k \/ i = k + 1
      BY <2>1
    <3>2. \A i \in 1..k : b.made[i].tag \in b.used /\ Origin(c, s, links[i], b.made[i])
      BY <2>1, <2>5
    <3>3. b.made[k + 1].tag \in b.used
      BY <2>5
    <3> QED BY <2>6, <3>1, <3>2, <3>3
  <2>8. UsedTags(c, s) \subseteq b.used
    BY <2>1, <2>5
  <2> QED BY <2>1, <2>6, <2>7, <2>8 DEF b
<1>4. \A k \in 0..N : k \in T
  <2> HIDE DEF T
  <2> QED BY <1>0, <1>2, <1>3, UpTo
<1> QED BY <1>4 DEF G, had

(* What a refresh may reuse: tags that differ from each other and from all that     *)
(* stay, and of which one has the name of a listed link only if it is of its node.  *)
Distinct(left) ==
  \A n, m \in Node : \A i \in 1..Len(left[n]), k \in 1..Len(left[m]) :
    left[n][i] = left[m][k] => n = m /\ i = k
Apart(left, used) == \A n \in Node : Range(left[n]) \cap used = {}
NoClash(left, s, links) ==
  \A n \in Node : \A t \in Range(left[n]), i \in 1..Len(links) :
    t.name = Name(s, links[i]) => n = NodeOf(links[i])
Tidy(left, used, s, links) == Distinct(left) /\ Apart(left, used) /\ NoClash(left, s, links)

(* From such tags ApplyNodes makes outbounds with tags of their own. *)
LEMMA GivenDistinct ==
  ASSUME NEW c \in Content, NEW s \in Source, NEW links \in Seq(Link),
         Tidy(KeptTags(c, s), UsedTags(c, s), s, links)
  PROVE  \A k \in 0..Len(links) :
           LET acc == Given(c, s, links)[k]
           IN  /\ Tidy(acc.left, acc.used, s, links)
               /\ \A i \in 1..k : acc.made[i].tag \notin UsedTags(c, s)
               /\ \A i, h \in 1..k : acc.made[i].tag = acc.made[h].tag => i = h
<1> DEFINE N == Len(links)
           G == Given(c, s, links)
           had == KeptTags(c, s)
           New(acc, k) == \A i \in 1..k : acc.made[i].tag \notin UsedTags(c, s)
           Own(acc, k) == \A i, h \in 1..k : acc.made[i].tag = acc.made[h].tag => i = h
           T == {k \in 0..N : Tidy(G[k].left, G[k].used, s, links) /\ New(G[k], k) /\ Own(G[k], k)}
<1>0. N \in Nat
  OBVIOUS
<1>1. had \in [Node -> Seq(Tag)]
  BY StartType
<1>2. 0 \in T
  <2>1. G[0] = [left |-> had, used |-> UsedTags(c, s), made |-> <<>>]
    BY <1>0, GivenIs
  <2>2. Tidy(G[0].left, G[0].used, s, links)
    BY <2>1
  <2> HIDE DEF G, had
  <2> QED BY <1>0, <2>2
<1>3. ASSUME NEW k \in 0..N, k \in T, k # N PROVE k + 1 \in T
  <2> DEFINE acc == G[k]
             b == G[k + 1]
             l == links[k + 1]
  <2>1. /\ k + 1 \in 0..N /\ k \in Nat
        /\ Tidy(acc.left, acc.used, s, links) /\ New(acc, k) /\ Own(acc, k)
    BY <1>0, <1>3
  <2>2. PICK tag \in Tag, left \in [Node -> Seq(Tag)] : Stepped(acc, b, s, l, tag, left)
    BY <1>3, GivenStep
  <2>3. acc.left \in [Node -> Seq(Tag)] /\ Len(acc.made) = k
    BY <1>3, GivenType DEF Accs
  <2>4. l \in Link /\ NodeOf(l) \in Node
    BY <1>0, <1>3 DEF Node
  <2>5. UsedTags(c, s) \subseteq acc.used /\ \A i \in 1..k : acc.made[i].tag \in acc.used
    BY <1>3, GivenOrigin
  <2> HIDE DEF acc, b, G, had
  <2>6. /\ \A i \in 1..k : b.made[i] = acc.made[i]
        /\ b.made[k + 1].tag = tag
        /\ b.left = left /\ b.used = acc.used \cup {tag}
    BY <2>2, <2>3 DEF Stepped
  <2>7. tag \notin acc.used /\ Tidy(left, b.used, s, links)
    <3>1. CASE Reused(acc, l, tag, left)
      <4> DEFINE n == NodeOf(l)
                 q == acc.left[n]
      <4>1. /\ q \in Seq(Tag) /\ q # <<>> /\ tag = q[1] /\ left[n] = Tail(q)
            /\ 1 \in 1..Len(q) /\ Len(q) \in Nat
        BY <2>3, <2>4, <3>1 DEF Reused
      <4>2. /\ Len(left[n]) = Len(q) - 1
            /\ \A i \in 1..Len(left[n]) : left[n][i] = q[i + 1] /\ i + 1 \in 1..Len(q)
        BY <4>1, HeadTailProperties
      <4>3. \A m \in Node : m # n => left[m] = acc.left[m]
        BY <2>3, <3>1 DEF Reused
      <4>4. \A t : t \in Range(q) <=> t = tag \/ t \in Range(left[n])
        <5>1. tag = Head(q)
          BY <3>1 DEF Reused
        <5> QED BY <4>1, <5>1, RangeOfTail
      <4>5. Distinct(left)
        <5> SUFFICES ASSUME NEW m1 \in Node, NEW m2 \in Node,
                            NEW i \in 1..Len(left[m1]), NEW h \in 1..Len(left[m2]),
                            left[m1][i] = left[m2][h]
                     PROVE  m1 = m2 /\ i = h
          BY DEF Distinct
        <5> DEFINE I == IF m1 = n THEN i + 1 ELSE i
                   H == IF m2 = n THEN h + 1 ELSE h
        <5>1. I \in 1..Len(acc.left[m1]) /\ left[m1][i] = acc.left[m1][I]
          BY <4>2, <4>3
        <5>2. H \in 1..Len(acc.left[m2]) /\ left[m2][h] = acc.left[m2][H]
          BY <4>2, <4>3
        <5>3. m1 = m2 /\ I = H
          <6> HIDE DEF I, H
          <6>1. acc.left[m1][I] = acc.left[m2][H]
            BY <5>1, <5>2
          <6>2. Distinct(acc.left)
            BY <2>1 DEF Tidy
          <6> QED BY <6>1, <6>2, <5>1, <5>2 DEF Distinct
        <5>4. i \in Int /\ h \in Int
          OBVIOUS
        <5> QED BY <5>3, <5>4
      <4>6. \A m \in Node : \A t \in Range(left[m]) : t # tag /\ t \in Range(acc.left[m])
        <5> SUFFICES ASSUME NEW m \in Node, NEW t \in Range(left[m])
                     PROVE  t # tag /\ t \in Range(acc.left[m])
          OBVIOUS
        <5>1. t \in Range(acc.left[m])
          BY <4>3, <4>4
        <5>2. PICK i \in 1..Len(left[m]) : t = left[m][i]
          <6>1. left[m] \in Seq(Tag)
            OBVIOUS
          <6> QED BY <6>1, RangeEquality
        <5>3. CASE m = n
          <6>1. t = left[n][i] /\ i \in 1..Len(left[n]) /\ i # 0
            BY <5>2, <5>3
          <6>2. t = q[i + 1] /\ i + 1 \in 1..Len(q)
            <7> HIDE DEF q, n
            <7> QED BY <4>2, <6>1
          <6>3. i + 1 # 1
            BY <6>1
          <6> QED BY <6>2, <6>3, <5>1, <5>3, <4>1, <2>1, <2>4 DEF Tidy, Distinct
        <5>4. CASE m # n
          <6>1. t = acc.left[m][i] /\ i \in 1..Len(acc.left[m])
            BY <4>3, <5>2, <5>4
          <6> QED BY <6>1, <5>1, <5>4, <4>1, <2>1, <2>4 DEF Tidy, Distinct
        <5> QED BY <5>3, <5>4
      <4>7. Apart(left, b.used) /\ NoClash(left, s, links)
        BY <4>6, <2>1, <2>6 DEF Tidy, Apart, NoClash
      <4>8. tag \notin acc.used
        BY <4>4, <2>1, <2>4 DEF Tidy, Apart
      <4> QED BY <4>5, <4>7, <4>8 DEF Tidy
    <3>2. CASE Fresh(acc, s, l, tag, left)
      <4>1. /\ left = acc.left /\ tag \notin acc.used /\ tag.name = Name(s, l)
            /\ left[NodeOf(l)] = <<>>
        BY <3>2 DEF Fresh
      <4>2. ASSUME NEW m \in Node PROVE tag \notin Range(left[m])
        <5>1. CASE m = NodeOf(l)
          BY <4>1, <5>1 DEF Range
        <5>2. CASE m # NodeOf(l)
          BY <4>1, <5>2, <2>1, <2>4 DEF Tidy, NoClash, l
        <5> QED BY <5>1, <5>2
      <4> QED BY <4>1, <4>2, <2>1, <2>6 DEF Tidy, Apart
    <3> QED BY <2>2, <3>1, <3>2 DEF Stepped
  <2>8. \A i \in 1..k + 1 : i \in 1..k \/ i = k + 1
    BY <2>1
  <2>9. New(b, k + 1)
    BY <2>1, <2>5, <2>6, <2>7, <2>8
  <2>10. Own(b, k + 1)
    <3>1. \A i \in 1..k : b.made[i].tag # tag
      BY <2>5, <2>6, <2>7
    <3> QED BY <3>1, <2>1, <2>6, <2>8
  <2> QED BY <2>1, <2>6, <2>7, <2>9, <2>10 DEF b
<1>4. \A k \in 0..N : k \in T
  <2> HIDE DEF T
  <2> QED BY <1>0, <1>2, <1>3, UpTo
<1> QED BY <1>4 DEF G
-----------------------------------------------------------------------------
(* The outbounds ApplyNodes makes of the links. *)
MadeOf(c, s, links) == Given(c, s, links)[Len(links)].made

(* What ApplyNodes returns: what stays, and an outbound for each link. *)
LEMMA ApplyNodesIs ==
  ASSUME NEW c \in Content, NEW s \in Source, NEW links \in Seq(Link)
  PROVE  LET made == MadeOf(c, s, links)
             new == ApplyNodes(c, s, links)
         IN  /\ new.outbounds = Kept(c, s) \o made
             /\ new.enabled = c.enabled /\ new.whole = c.whole
             /\ new.readable = c.readable /\ new.refs = c.refs
             /\ new \in Content
             /\ made \in Seq(Outbound) /\ Len(made) = Len(links)
             /\ \A i \in 1..Len(links) :
                  /\ made[i] = Made(s, links[i], made[i].tag)
                  /\ made[i].sub = s /\ made[i].node = NodeOf(links[i])
                  /\ Origin(c, s, links[i], made[i])
<1> DEFINE N == Len(links)
           made == MadeOf(c, s, links)
           new == ApplyNodes(c, s, links)
<1>0. N \in Nat /\ N \in 0..N
  OBVIOUS
<1>1. Given(c, s, links)[N] \in Accs /\ Len(made) = N
  BY <1>0, GivenType DEF MadeOf
<1>2. made \in Seq(Outbound)
  BY <1>1 DEF MadeOf, Accs
<1>3. \A i \in 1..N : made[i] = Made(s, links[i], made[i].tag)
  BY <1>0, GivenType DEF MadeOf
<1>4. \A i \in 1..N : Origin(c, s, links[i], made[i])
  BY <1>0, GivenOrigin DEF MadeOf
<1>5. new = [c EXCEPT !.outbounds = Kept(c, s) \o made]
  BY DEF ApplyNodes, MadeOf
<1> HIDE DEF made, new
<1>6. Kept(c, s) \o made \in Seq(Outbound)
  BY <1>2, StartType, ConcatProperties
<1>7. /\ new.outbounds = Kept(c, s) \o made
      /\ new.enabled = c.enabled /\ new.whole = c.whole
      /\ new.readable = c.readable /\ new.refs = c.refs
      /\ new \in Content
  BY <1>5, <1>6 DEF Content
<1>8. ASSUME NEW i \in 1..N PROVE made[i].sub = s /\ made[i].node = NodeOf(links[i])
  <2>1. \A t : Made(s, links[i], t).sub = s /\ Made(s, links[i], t).node = NodeOf(links[i])
    BY DEF Made
  <2> QED BY <1>3, <2>1
<1> QED BY <1>1, <1>2, <1>3, <1>4, <1>7, <1>8 DEF made, new

(* What Held, HeldTags and Others return, element by element. *)
LEMMA HeldIs ==
  ASSUME NEW c \in Content, NEW s, NEW n
  PROVE  /\ HeldTags(c, s, n) \in Seq(Tag)
         /\ \A t : t \in Range(HeldTags(c, s, n)) <=>
              \E i \in 1..Len(c.outbounds) :
                 /\ c.outbounds[i].sub = s /\ c.outbounds[i].node = n
                 /\ t = c.outbounds[i].tag
<1> DEFINE list == c.outbounds
           I == {i \in OfSub(c, s) : list[i].node = n}
           held == Pick(list, I)
<1>1. list \in Seq(Outbound)
  BY DEF Content
<1>2. DOMAIN list = 1..Len(list)
  BY <1>1
<1>3. held \in Seq(Outbound) /\ \A x : x \in Range(held) <=> \E i \in 1..Len(list) : i \in I /\ x = list[i]
  BY <1>1, PickRange
<1>4. HeldTags(c, s, n) = Tags(held)
  BY DEF HeldTags, Held
<1> HIDE DEF held
<1>5. \A x : x \in Range(held) <=> \E k \in 1..Len(held) : x = held[k]
  BY <1>3, RangeEquality
<1>6. Tags(held) \in Seq(Tag) /\
      \A t : t \in Range(Tags(held)) <=> \E k \in 1..Len(held) : t = held[k].tag
  BY <1>3, TagsType
<1>7. \A i \in 1..Len(list) : i \in I <=> list[i].sub = s /\ list[i].node = n
  BY <1>2 DEF OfSub
<1>8. ASSUME NEW t
      PROVE  t \in Range(Tags(held)) <=>
               \E i \in 1..Len(list) : list[i].sub = s /\ list[i].node = n /\ t = list[i].tag
  <2> HIDE DEF I, list
  <2>1. ASSUME t \in Range(Tags(held))
        PROVE  \E i \in 1..Len(list) : list[i].sub = s /\ list[i].node = n /\ t = list[i].tag
    <3>1. PICK k \in 1..Len(held) : t = held[k].tag
      BY <2>1, <1>6
    <3>2. held[k] \in Range(held)
      BY <1>5
    <3> QED BY <3>1, <3>2, <1>3, <1>7
  <2>2. ASSUME NEW i \in 1..Len(list), list[i].sub = s, list[i].node = n, t = list[i].tag
        PROVE  t \in Range(Tags(held))
    <3>1. list[i] \in Range(held)
      BY <2>2, <1>3, <1>7
    <3>2. PICK k \in 1..Len(held) : list[i] = held[k]
      BY <3>1, <1>5
    <3> QED BY <3>2, <2>2, <1>6
  <2> QED BY <2>1, <2>2
<1> QED BY <1>4, <1>6, <1>8

LEMMA KeptIs ==
  ASSUME NEW c \in Content, NEW s \in Source
  PROVE  /\ Kept(c, s) \in Seq(Outbound)
         /\ \A x : x \in Range(Kept(c, s)) <=>
              \E i \in 1..Len(c.outbounds) :
                 (s \in Sub => c.outbounds[i].sub # s) /\ x = c.outbounds[i]
         /\ \A t : t \in UsedTags(c, s) <=>
              \E i \in 1..Len(c.outbounds) :
                 (s \in Sub => c.outbounds[i].sub # s) /\ t = c.outbounds[i].tag
<1> DEFINE list == c.outbounds
           kept == Kept(c, s)
<1>1. list \in Seq(Outbound) /\ DOMAIN list = 1..Len(list)
  BY DEF Content
<1>2. kept \in Seq(Outbound)
  BY StartType
<1>3. Replacing(s) <=> s \in Sub
  BY SubscriptionsAssumption DEF Replacing, Source
<1>4. \A x : x \in Range(kept) <=>
        \E i \in 1..Len(list) : (s \in Sub => list[i].sub # s) /\ x = list[i]
  <2>1. CASE s \in Sub
    <3> DEFINE I == DOMAIN list \ OfSub(c, s)
    <3>1. kept = Pick(list, I)
      BY <1>3, <2>1 DEF Kept, Others
    <3>2. \A x : x \in Range(kept) <=> \E i \in 1..Len(list) : i \in I /\ x = list[i]
      BY <1>1, <3>1, PickRange
    <3>3. \A i \in 1..Len(list) : i \in I <=> list[i].sub # s
      BY <1>1 DEF OfSub
    <3> HIDE DEF I, list, kept
    <3> QED BY <2>1, <3>2, <3>3
  <2>2. CASE s \notin Sub
    <3>1. kept = list
      BY <1>3, <2>2 DEF Kept
    <3> QED BY <1>1, <2>2, <3>1, RangeEquality
  <2> QED BY <2>1, <2>2
<1> HIDE DEF kept
<1>5. \A x : x \in Range(kept) <=> \E k \in 1..Len(kept) : x = kept[k]
  BY <1>2, RangeEquality
<1>6. \A t : t \in UsedTags(c, s) <=> \E k \in 1..Len(kept) : t = kept[k].tag
  BY <1>2, TagsType DEF UsedTags, kept
<1>7. ASSUME NEW t
      PROVE  t \in UsedTags(c, s) <=>
               \E i \in 1..Len(list) : (s \in Sub => list[i].sub # s) /\ t = list[i].tag
  <2> HIDE DEF list
  <2>1. ASSUME t \in UsedTags(c, s)
        PROVE  \E i \in 1..Len(list) : (s \in Sub => list[i].sub # s) /\ t = list[i].tag
    <3>1. PICK k \in 1..Len(kept) : t = kept[k].tag
      BY <2>1, <1>6
    <3>2. kept[k] \in Range(kept)
      BY <1>5
    <3> QED BY <3>1, <3>2, <1>4
  <2>2. ASSUME NEW i \in 1..Len(list), s \in Sub => list[i].sub # s, t = list[i].tag
        PROVE  t \in UsedTags(c, s)
    <3>1. list[i] \in Range(kept)
      BY <2>2, <1>4
    <3>2. PICK k \in 1..Len(kept) : list[i] = kept[k]
      BY <3>1, <1>5
    <3> QED BY <3>2, <2>2, <1>6
  <2> QED BY <2>1, <2>2
<1> QED BY <1>2, <1>4, <1>7 DEF kept

(* The outbounds of a refreshed file: those that stay, then those it made. *)
LEMMA NewOutbounds ==
  ASSUME NEW c \in Content, NEW s \in Source, NEW links \in Seq(Link)
  PROVE  LET a == Kept(c, s)
             made == MadeOf(c, s, links)
             all == ApplyNodes(c, s, links).outbounds
         IN  /\ a \in Seq(Outbound) /\ Len(a) \in Nat
             /\ Len(all) = Len(a) + Len(links) /\ DOMAIN all = 1..Len(all)
             /\ \A i \in 1..Len(a) : all[i] = a[i]
             /\ \A i \in 1..Len(links) : all[i + Len(a)] = made[i] /\ i + Len(a) \in 1..Len(all)
             /\ \A i \in 1..Len(all) : i \in 1..Len(a) \/ i - Len(a) \in 1..Len(links)
<1> DEFINE a == Kept(c, s)
           made == MadeOf(c, s, links)
           all == ApplyNodes(c, s, links).outbounds
<1>1. /\ a \in Seq(Outbound) /\ made \in Seq(Outbound) /\ all = a \o made
      /\ Len(made) = Len(links)
  BY ApplyNodesIs, StartType
<1> HIDE DEF a, made, all
<1>2. /\ Len(a) \in Nat /\ Len(made) \in Nat /\ all \in Seq(Outbound)
      /\ Len(all) = Len(a) + Len(made)
      /\ \A i \in 1..Len(a) + Len(made) :
           all[i] = IF i <= Len(a) THEN a[i] ELSE made[i - Len(a)]
  <2>1. Len(a) \in Nat /\ Len(made) \in Nat
    BY <1>1, LenProperties
  <2>2. /\ a \o made \in Seq(Outbound) /\ Len(a \o made) = Len(a) + Len(made)
        /\ \A i \in 1..Len(a) + Len(made) :
             (a \o made)[i] = IF i <= Len(a) THEN a[i] ELSE made[i - Len(a)]
    BY <1>1, ConcatProperties
  <2> QED BY <1>1, <2>1, <2>2, Zenon
<1>3. DOMAIN all = 1..Len(all)
  BY <1>2, LenProperties
<1>4. \A i \in 1..Len(a) : all[i] = a[i]
  BY <1>2
<1>5. \A i \in 1..Len(made) : all[i + Len(a)] = made[i] /\ i + Len(a) \in 1..Len(all)
  BY <1>2
<1>6. \A i \in 1..Len(all) : i \in 1..Len(a) \/ i - Len(a) \in 1..Len(made)
  BY <1>2
<1> QED BY <1>1, <1>2, <1>3, <1>4, <1>5, <1>6 DEF a, made, all

(* A node that is listed as often as the file has it keeps every one of its tags. *)
LEMMA ListedKeeps ==
  ASSUME NEW c \in Content, NEW s \in Sub, NEW links \in Seq(Link), NEW n \in Node,
         Listed(links, n) >= Len(HeldTags(c, s, n))
  PROVE  Range(HeldTags(c, s, n)) \subseteq Range(HeldTags(ApplyNodes(c, s, links), s, n))
<1> DEFINE N == Len(links)
           G == Given(c, s, links)
           made == MadeOf(c, s, links)
           new == ApplyNodes(c, s, links)
           had == HeldTags(c, s, n)
<1>0. N \in Nat /\ N \in 0..N /\ s \in Source /\ DOMAIN links = 1..N
  BY DEF Source
<1>1. KeptTags(c, s)[n] = had
  BY SubscriptionsAssumption DEF KeptTags, Replacing
<1>2. Listed(links, n) = Count(links, n, N)
  BY <1>0 DEF Listed, Count
<1>3. G[N].left[n] \in Seq(Tag) /\ had \in Seq(Tag)
  BY <1>0, GivenType, HeldIs DEF Accs
<1>4. /\ \A t \in Range(had) :
           t \in Range(G[N].left[n]) \/ \E i \in 1..N : made[i].tag = t /\ made[i].node = n
      /\ G[N].left[n] = <<>> \/ Len(G[N].left[n]) + Count(links, n, N) = Len(had)
  <2>1. StillHas(G[N], n, had, N) /\ Taken(G[N], links, n, had, N)
    <3> HIDE DEF had
    <3> QED BY <1>0, <1>1, GivenKeepsTags
  <2> HIDE DEF G
  <2>2. G[N].made = made
    BY DEF MadeOf, G
  <2> HIDE DEF made, had
  <2> QED BY <2>1, <2>2 DEF StillHas, Taken
<1>5. Range(G[N].left[n]) = {}
  <2> DEFINE q == G[N].left[n]
  <2>1. q \in Seq(Tag) /\ (q = <<>> \/ Len(q) + Count(links, n, N) = Len(had))
    BY <1>3, <1>4
  <2>2. Count(links, n, N) \in Nat /\ Len(had) \in Nat /\ Count(links, n, N) >= Len(had)
    BY <1>0, <1>2, <1>3, CountStep
  <2> HIDE DEF q, had
  <2>3. Len(q) = 0
    BY <2>1, <2>2
  <2>4. DOMAIN q = 1..0
    BY <2>1, <2>3
  <2>5. Range(q) = {}
    BY <2>4 DEF Range
  <2> QED BY <2>5 DEF q
<1>6. ASSUME NEW t \in Range(had) PROVE t \in Range(HeldTags(new, s, n))
  <2>1. PICK i \in 1..N : made[i].tag = t /\ made[i].node = n
    BY <1>4, <1>5, <1>6
  <2> DEFINE k == i + Len(Kept(c, s))
  <2>2. new.outbounds[k] = made[i] /\ k \in 1..Len(new.outbounds)
    BY <1>0, NewOutbounds
  <2>3. made[i].sub = s /\ new \in Content
    BY <1>0, ApplyNodesIs
  <2> HIDE DEF k, new, made
  <2> QED BY <2>1, <2>2, <2>3, HeldIs
<1> QED BY <1>6

(* Where a tag of an acceptable file comes to stand for another node, the node is new *)
(* and may have the name of the tag.                                                 *)
LEMMA OtherNodeClashes ==
  ASSUME NEW c \in Content, NEW s \in Sub, NEW links \in Seq(Link),
         c.enabled, Accepted(c),
         NEW i \in 1..Len(c.outbounds), NEW k \in 1..Len(ApplyNodes(c, s, links).outbounds),
         c.outbounds[i].tag = ApplyNodes(c, s, links).outbounds[k].tag,
         c.outbounds[i].node # ApplyNodes(c, s, links).outbounds[k].node
  PROVE  \E m \in 1..Len(links) : /\ NodeOf(links[m]) = ApplyNodes(c, s, links).outbounds[k].node
                                  /\ Clash(c.outbounds[i], links[m], s)
<1> DEFINE list == c.outbounds
           made == MadeOf(c, s, links)
           all == ApplyNodes(c, s, links).outbounds
           a == Kept(c, s)
<1>0. s \in Source /\ list \in Seq(Outbound) /\ DOMAIN list = 1..Len(list)
  BY DEF Source, Content
<1>1. \A h \in 1..Len(list) : list[h].tag = list[i].tag => h = i
  BY <1>0 DEF Accepted
<1>2. CASE k \in 1..Len(a)
  <2>1. all[k] = a[k] /\ a \in Seq(Outbound)
    BY <1>0, <1>2, NewOutbounds
  <2>2. a[k] \in Range(a)
    BY <1>2, <2>1, RangeEquality
  <2>3. PICK h \in 1..Len(list) : a[k] = list[h]
    BY <1>0, <2>2, KeptIs
  <2> QED BY <2>1, <2>3, <1>1
<1>3. CASE k - Len(a) \in 1..Len(links)
  <2> DEFINE m == k - Len(a)
             l == links[m]
             o == made[m]
             n == NodeOf(l)
  <2>0. l \in Link /\ n \in Node
    BY <1>3 DEF Node
  <2>1. o.node = n /\ o.sub = s /\ Origin(c, s, l, o)
    BY <1>0, <1>3, ApplyNodesIs
  <2>2. all[k] = o
    <3>1. all[m + Len(a)] = made[m] /\ Len(a) \in Nat
      BY <1>0, <1>3, NewOutbounds
    <3>2. m + Len(a) = k
      BY <3>1, <1>3
    <3> QED BY <3>1, <3>2
  <2>3. CASE o.tag \in Range(KeptTags(c, s)[n])
    <3>1. KeptTags(c, s)[n] = HeldTags(c, s, n)
      BY <2>0, SubscriptionsAssumption DEF KeptTags, Replacing
    <3>2. PICK h \in 1..Len(list) : list[h].node = n /\ o.tag = list[h].tag
      BY <2>3, <3>1, HeldIs
    <3>3. h = i
      BY <3>2, <2>2, <1>1
    <3> QED BY <3>2, <3>3, <2>1, <2>2
  <2>4. CASE o.tag.name = Name(s, l) /\ o.tag \notin UsedTags(c, s)
    <3>1. list[i].tag \notin UsedTags(c, s) /\ list[i].tag.name = Name(s, l)
      BY <2>2, <2>4
    <3>2. list[i].sub = s
      BY <1>0, <3>1, KeptIs
    <3>3. Clash(list[i], l, s)
      <4>1. s # Manual /\ list[i].node # n
        BY <2>1, <2>2, SubscriptionsAssumption
      <4> QED BY <3>1, <3>2, <4>1 DEF Clash, Replacing
    <3>4. m \in 1..Len(links) /\ NodeOf(links[m]) = all[k].node
      BY <1>3, <2>1, <2>2
    <3> HIDE DEF m
    <3> QED BY <3>3, <3>4
  <2> QED BY <2>1, <2>3, <2>4 DEF Origin
<1> QED BY <1>0, <1>2, <1>3, NewOutbounds

(* In a file that is acceptable afterwards too, its old node is listed less often. *)
LEMMA OtherNodeIsLess ==
  ASSUME NEW c \in Content, NEW s \in Sub, NEW links \in Seq(Link),
         c.enabled, Accepted(c), Accepted(ApplyNodes(c, s, links)),
         NEW i \in 1..Len(c.outbounds), NEW k \in 1..Len(ApplyNodes(c, s, links).outbounds),
         c.outbounds[i].tag = ApplyNodes(c, s, links).outbounds[k].tag,
         c.outbounds[i].node # ApplyNodes(c, s, links).outbounds[k].node
  PROVE  ~(Listed(links, c.outbounds[i].node) >= Len(HeldTags(c, s, c.outbounds[i].node)))
<1> DEFINE n == c.outbounds[i].node
           new == ApplyNodes(c, s, links)
<1> SUFFICES ASSUME Listed(links, n) >= Len(HeldTags(c, s, n)) PROVE FALSE
  OBVIOUS
<1>0. /\ new \in Content /\ new.enabled = c.enabled /\ DOMAIN new.outbounds = 1..Len(new.outbounds)
      /\ c.outbounds \in Seq(Outbound)
  <2>1. new \in Content /\ s \in Source
    BY ApplyNodesIs DEF Source
  <2>2. new.enabled = c.enabled
    BY Zenon DEF ApplyNodes, Content
  <2>3. c.outbounds \in Seq(Outbound) /\ DOMAIN new.outbounds = 1..Len(new.outbounds)
    BY <2>1, NewOutbounds DEF Content
  <2> QED BY <2>1, <2>2, <2>3
<1>1. n \in Node
  <2>1. c.outbounds[i] \in Outbound
    BY <1>0
  <2> QED BY <2>1 DEF Outbound
<1>2. Range(HeldTags(c, s, n)) \subseteq Range(HeldTags(new, s, n))
  BY <1>1, ListedKeeps
<1>3. c.outbounds[i].sub = s
  <2>1. PICK m \in 1..Len(links) : Clash(c.outbounds[i], links[m], s)
    BY OtherNodeClashes
  <2> QED BY <2>1 DEF Clash
<1> HIDE DEF n, new
<1>4. c.outbounds[i].tag \in Range(HeldTags(new, s, n))
  BY <1>2, <1>3, HeldIs DEF n
<1>5. PICK h \in 1..Len(new.outbounds) :
        new.outbounds[h].node = n /\ new.outbounds[h].tag = c.outbounds[i].tag
  BY <1>0, <1>4, HeldIs
<1>6. h = k
  <2>1. \A x, y \in 1..Len(new.outbounds) : new.outbounds[x].tag = new.outbounds[y].tag => x = y
    BY <1>0 DEF Accepted, new
  <2>2. k \in 1..Len(new.outbounds) /\ new.outbounds[k].tag = c.outbounds[i].tag
    BY DEF new
  <2> QED BY <2>1, <2>2, <1>5
<1> QED BY <1>5, <1>6 DEF new, n

(* Where all tags differ, those picked do. *)
LEMMA PickDistinct ==
  ASSUME NEW list \in Seq(Outbound), NEW I,
         \A i, k \in 1..Len(list) : list[i].tag = list[k].tag => i = k
  PROVE  \A i, k \in 1..Len(Pick(list, I)) :
           Pick(list, I)[i].tag = Pick(list, I)[k].tag => i = k
<1> DEFINE q == Pick(list, I)
<1>1. PICK p \in [1..Len(q) -> 1..Len(list)] :
        /\ \A i \in 1..Len(q) : q[i] = list[p[i]] /\ p[i] \in I
        /\ \A i, h \in 1..Len(q) : p[i] = p[h] => i = h
  BY PickPositions
<1> HIDE DEF q
<1> SUFFICES ASSUME NEW i \in 1..Len(q), NEW k \in 1..Len(q), q[i].tag = q[k].tag PROVE i = k
  BY DEF q
<1>2. p[i] \in 1..Len(list) /\ p[k] \in 1..Len(list) /\ list[p[i]].tag = list[p[k]].tag
  BY <1>1
<1>3. p[i] = p[k]
  BY <1>2
<1> QED BY <1>1, <1>3

(* The tags of an acceptable file may be reused, unless a listed node clashes. *)
LEMMA KeptTagsTidy ==
  ASSUME NEW c \in Content, NEW s \in Source, NEW links \in Seq(Link),
         \A i, k \in 1..Len(c.outbounds) : c.outbounds[i].tag = c.outbounds[k].tag => i = k,
         \A i \in 1..Len(c.outbounds), m \in 1..Len(links) : ~Clash(c.outbounds[i], links[m], s)
  PROVE  Tidy(KeptTags(c, s), UsedTags(c, s), s, links)
<1> DEFINE list == c.outbounds
           had == KeptTags(c, s)
<1>0. list \in Seq(Outbound) /\ had \in [Node -> Seq(Tag)]
  BY StartType DEF Content
<1>1. CASE s \notin Sub
  <2>1. \A n \in Node : had[n] = <<>>
    BY <1>1 DEF KeptTags, Replacing, Source
  <2>2. Len(<<>>) = 0 /\ Range(<<>>) = {}
    BY DEF Range
  <2> HIDE DEF had
  <2> QED BY <2>1, <2>2 DEF Tidy, Distinct, Apart, NoClash, had
<1>2. CASE s \in Sub
  <2>1. \A n \in Node : had[n] = HeldTags(c, s, n)
    BY <1>2, SubscriptionsAssumption DEF KeptTags, Replacing
  <2>2. ASSUME NEW n \in Node, NEW t \in Range(had[n])
        PROVE  \E i \in 1..Len(list) : list[i].sub = s /\ list[i].node = n /\ t = list[i].tag
    BY <2>1, <2>2, HeldIs
  <2>3. Distinct(had)
    <3> SUFFICES ASSUME NEW n \in Node, NEW m \in Node,
                        NEW i \in 1..Len(had[n]), NEW k \in 1..Len(had[m]),
                        had[n][i] = had[m][k]
                 PROVE  n = m /\ i = k
      BY DEF Distinct
    <3>1. had[n] \in Seq(Tag) /\ had[m] \in Seq(Tag)
      BY <1>0
    <3>2. had[n][i] \in Range(had[n]) /\ had[m][k] \in Range(had[m])
      <4> HIDE DEF had
      <4> QED BY <3>1, RangeEquality
    <3>3. n = m
      <4> HIDE DEF had, list
      <4>1. PICK a \in 1..Len(list) : list[a].node = n /\ had[n][i] = list[a].tag
        BY <2>2, <3>2
      <4>2. PICK b \in 1..Len(list) : list[b].node = m /\ had[m][k] = list[b].tag
        BY <2>2, <3>2
      <4>3. a = b
        BY <4>1, <4>2 DEF list
      <4> QED BY <4>1, <4>2, <4>3
    <3>4. i = k
      <4> DEFINE held == Held(c, s, n)
      <4>1. held \in Seq(Outbound) /\ had[n] = Tags(held)
        BY <2>1, StartType DEF HeldTags
      <4>2. \A a, b \in 1..Len(held) : held[a].tag = held[b].tag => a = b
        BY <1>0, PickDistinct DEF Held
      <4>3. i \in 1..Len(held) /\ k \in 1..Len(held)
        BY <3>3, <4>1, TagsType
      <4>4. had[n][i] = held[i].tag /\ had[n][k] = held[k].tag
        BY <4>1, <4>3, TagsType
      <4> HIDE DEF held, had
      <4> QED BY <3>3, <4>2, <4>3, <4>4
    <3> QED BY <3>3, <3>4
  <2>4. Apart(had, UsedTags(c, s))
    <3> SUFFICES ASSUME NEW n \in Node, NEW t \in Range(had[n]), t \in UsedTags(c, s)
                 PROVE  FALSE
      BY DEF Apart
    <3>1. PICK i \in 1..Len(list) : list[i].sub = s /\ t = list[i].tag
      <4> HIDE DEF had, list
      <4> QED BY <2>2, Zenon
    <3>2. PICK k \in 1..Len(list) : list[k].sub # s /\ t = list[k].tag
      BY <1>2, KeptIs
    <3>3. i = k
      BY <3>1, <3>2
    <3> QED BY <3>1, <3>2, <3>3
  <2>5. NoClash(had, s, links)
    <3> SUFFICES ASSUME NEW n \in Node, NEW t \in Range(had[n]), NEW m \in 1..Len(links),
                        t.name = Name(s, links[m])
                 PROVE  n = NodeOf(links[m])
      BY DEF NoClash
    <3>1. PICK i \in 1..Len(list) : list[i].sub = s /\ list[i].node = n /\ t = list[i].tag
      <4> HIDE DEF had, list
      <4> QED BY <2>2, Zenon
    <3>2. ~Clash(list[i], links[m], s) /\ s # Manual
      BY <1>2, SubscriptionsAssumption
    <3> HIDE DEF list, had
    <3> QED BY <3>1, <3>2 DEF Clash, Replacing
  <2> QED BY <2>3, <2>4, <2>5 DEF Tidy
<1> QED BY <1>1, <1>2

(* An acceptable file stays acceptable: what Validate could refuse is in the list, *)
(* in the pools' tags or in what the user changed.                                 *)
LEMMA RefreshAccepted ==
  ASSUME NEW c \in Content, NEW s \in Source, NEW links \in Seq(Link),
         Accepted(c), c.whole, PortsSuffice(ApplyNodes(c, s, links)),
         \A i \in 1..Len(links) : FieldsComplete(Entry[links[i]]),
         \A i \in 1..Len(links), t \in Forbidden(c) : t.name # Name(s, links[i]),
         \A i \in 1..Len(c.outbounds), m \in 1..Len(links) : ~Clash(c.outbounds[i], links[m], s),
         \A i \in 1..Len(c.outbounds) :
           c.outbounds[i].sub = s /\ c.outbounds[i].tag \in References(c) =>
             LET n == c.outbounds[i].node IN Listed(links, n) >= Len(HeldTags(c, s, n))
  PROVE  Accepted(ApplyNodes(c, s, links))
<1> DEFINE list == c.outbounds
           N == Len(links)
           a == Kept(c, s)
           made == MadeOf(c, s, links)
           new == ApplyNodes(c, s, links)
           all == new.outbounds
<1>0. list \in Seq(Outbound) /\ DOMAIN list = 1..Len(list) /\ N \in Nat /\ N \in 0..N
  BY DEF Content
<1>1. /\ new.enabled = c.enabled /\ new.whole = c.whole /\ new.refs = c.refs
      /\ new.readable = c.readable /\ new \in Content /\ c.readable
  <2>1. c.readable
    BY DEF Accepted
  <2>2. /\ new.enabled = c.enabled /\ new.whole = c.whole /\ new.refs = c.refs
        /\ new.readable = c.readable
    BY Zenon DEF ApplyNodes, Content
  <2>3. new \in Content
    BY ApplyNodesIs
  <2> QED BY <2>1, <2>2, <2>3
<1>2. SUFFICES ASSUME c.enabled
               PROVE  /\ \A i, k \in DOMAIN all : i # k => all[i].tag # all[k].tag
                      /\ \A i \in DOMAIN all : all[i].good
                      /\ TagsOf(new) \cap Forbidden(c) = {}
                      /\ References(new) \subseteq TagsOf(new) \cup PoolTags
  <2>1. Forbidden(new) = Forbidden(c)
    BY <1>1 DEF Forbidden
  <2> QED BY <1>1, <2>1 DEF Accepted
<1>3. /\ \A i, k \in 1..Len(list) : list[i].tag = list[k].tag => i = k
      /\ \A i \in 1..Len(list) : list[i].good
      /\ TagsOf(c) \cap Forbidden(c) = {}
      /\ References(c) \subseteq TagsOf(c) \cup PoolTags
  BY <1>0, <1>2 DEF Accepted
<1>4. Tidy(KeptTags(c, s), UsedTags(c, s), s, links)
  BY <1>3, KeptTagsTidy
<1>5. /\ \A i \in 1..N : made[i].tag \notin UsedTags(c, s)
      /\ \A i, h \in 1..N : made[i].tag = made[h].tag => i = h
  BY <1>0, <1>4, GivenDistinct DEF MadeOf
<1>6. /\ a \in Seq(Outbound) /\ Len(a) \in Nat
      /\ Len(all) = Len(a) + N /\ DOMAIN all = 1..Len(all)
      /\ \A i \in 1..Len(a) : all[i] = a[i]
      /\ \A i \in 1..N : all[i + Len(a)] = made[i] /\ i + Len(a) \in 1..Len(all)
      /\ \A i \in 1..Len(all) : i \in 1..Len(a) \/ i - Len(a) \in 1..N
  BY NewOutbounds
<1>7. \A i \in 1..Len(a) :
        /\ a[i].tag \in UsedTags(c, s)
        /\ \E k \in 1..Len(list) : a[i] = list[k]
  <2>1. \A x : x \in Range(a) <=>
          \E k \in 1..Len(list) : (s \in Sub => list[k].sub # s) /\ x = list[k]
    BY KeptIs
  <2>2. \A t : t \in UsedTags(c, s) <=>
          \E k \in 1..Len(list) : (s \in Sub => list[k].sub # s) /\ t = list[k].tag
    BY KeptIs
  <2> HIDE DEF a, list
  <2>3. \A i \in 1..Len(a) : a[i] \in Range(a)
    BY <1>6, RangeEquality
  <2> QED BY <2>1, <2>2, <2>3
<1>8. \A i, k \in 1..Len(a) : a[i].tag = a[k].tag => i = k
  <2>1. CASE Replacing(s)
    BY <1>0, <1>3, <2>1, PickDistinct DEF Kept, Others
  <2>2. CASE ~Replacing(s)
    BY <1>3, <2>2 DEF Kept
  <2> QED BY <2>1, <2>2
<1>9. \A i \in 1..N :
        /\ made[i].good = FieldsComplete(Entry[links[i]])
        /\ made[i].node = NodeOf(links[i]) /\ made[i].sub = s
        /\ Origin(c, s, links[i], made[i])
  <2> SUFFICES ASSUME NEW i \in 1..N
               PROVE  /\ made[i].good = FieldsComplete(Entry[links[i]])
                      /\ made[i].node = NodeOf(links[i]) /\ made[i].sub = s
                      /\ Origin(c, s, links[i], made[i])
    OBVIOUS
  <2>1. \A t : Made(s, links[i], t).good = FieldsComplete(Entry[links[i]])
    BY DEF Made
  <2> QED BY <2>1, ApplyNodesIs
<1>10. \A t : t \in TagsOf(c) <=> \E i \in 1..Len(list) : t = list[i].tag
  BY <1>0 DEF TagsOf
<1>11. \A t : t \in TagsOf(new) <=> \E i \in 1..Len(all) : t = all[i].tag
  BY <1>6 DEF TagsOf
<1>12. TagsOf(new) \cap Forbidden(c) = {}
  <2> SUFFICES ASSUME NEW i \in 1..Len(all), all[i].tag \in Forbidden(c) PROVE FALSE
    BY <1>11
  <2>1. CASE i \in 1..Len(a)
    <3>1. all[i] = a[i]
      BY <1>6, <2>1
    <3>2. PICK k \in 1..Len(list) : a[i] = list[k]
      BY <1>7, <2>1
    <3>3. list[k].tag \in TagsOf(c)
      BY <1>10
    <3>4. all[i].tag = list[k].tag
      BY <3>1, <3>2, Zenon
    <3> QED BY <3>3, <3>4, <1>3, Zenon
  <2>2. CASE i - Len(a) \in 1..N
    <3> DEFINE m == i - Len(a)
               l == links[m]
    <3>1. m + Len(a) = i /\ m \in 1..N
      BY <1>6, <2>2
    <3>2. all[i] = made[m] /\ Origin(c, s, l, made[m]) /\ l \in Link /\ NodeOf(l) \in Node
      BY <1>6, <1>9, <3>1 DEF Node
    <3>3. CASE made[m].tag.name = Name(s, l)
      BY <3>1, <3>2, <3>3
    <3>4. CASE made[m].tag \in Range(KeptTags(c, s)[NodeOf(l)])
      <4>1. KeptTags(c, s)[NodeOf(l)] = HeldTags(c, s, NodeOf(l)) \/
            KeptTags(c, s)[NodeOf(l)] = <<>>
        BY <3>2 DEF KeptTags
      <4>2. made[m].tag \in Range(HeldTags(c, s, NodeOf(l)))
        BY <4>1, <3>4 DEF Range
      <4>3. made[m].tag \in TagsOf(c)
        BY <4>2, <1>10, HeldIs
      <4> QED BY <4>3, <3>2, <1>3
    <3> QED BY <3>2, <3>3, <3>4 DEF Origin
  <2> QED BY <1>6, <2>1, <2>2
<1>13. References(new) \subseteq TagsOf(new) \cup PoolTags
  <2>1. References(new) = References(c)
    BY <1>1 DEF References
  <2> SUFFICES ASSUME NEW i \in 1..Len(list), list[i].tag \in References(c)
               PROVE  list[i].tag \in TagsOf(new)
    BY <2>1, <1>3, <1>10
  <2>2. CASE s \in Sub => list[i].sub # s
    <3>1. list[i] \in Range(a)
      BY <2>2, KeptIs
    <3>2. PICK k \in 1..Len(a) : list[i] = a[k]
      <4> HIDE DEF a, list
      <4>1. \A x : x \in Range(a) <=> \E k \in 1..Len(a) : x = a[k]
        BY <1>6, RangeEquality
      <4> QED BY <3>1, <4>1
    <3>3. all[k] = a[k] /\ k \in 1..Len(all)
      BY <1>6
    <3> QED BY <3>2, <3>3, <1>11
  <2>3. CASE s \in Sub /\ list[i].sub = s
    <3> DEFINE n == list[i].node
    <3>1. n \in Node
      <4>1. list[i] \in Outbound
        BY <1>0
      <4> QED BY <4>1 DEF Outbound
    <3>2. Listed(links, n) >= Len(HeldTags(c, s, n))
      BY <2>3
    <3>3. list[i].tag \in Range(HeldTags(c, s, n))
      BY <2>3, HeldIs
    <3>4. list[i].tag \in Range(HeldTags(new, s, n))
      <4> HIDE DEF n
      <4> QED BY <2>3, <3>1, <3>2, <3>3, ListedKeeps
    <3>5. \E k \in 1..Len(all) : list[i].tag = all[k].tag
      BY <1>1, <3>4, HeldIs
    <3> QED BY <3>5, <1>11
  <2> QED BY <2>2, <2>3
<1>14. \A i \in DOMAIN all : all[i].good
  <2> SUFFICES ASSUME NEW i \in 1..Len(all) PROVE all[i].good
    BY <1>6
  <2>1. CASE i \in 1..Len(a)
    <3>1. PICK k \in 1..Len(list) : a[i] = list[k]
      BY <1>7, <2>1
    <3>2. all[i] = list[k] /\ list[k].good
      BY <3>1, <1>3, <1>6, <2>1
    <3> QED BY <3>2, Zenon
  <2>2. CASE i - Len(a) \in 1..N
    <3> DEFINE m == i - Len(a)
    <3>1. m + Len(a) = i /\ m \in 1..N
      BY <1>6, <2>2
    <3>2. all[i] = made[m]
      BY <1>6, <3>1
    <3>3. made[m].good = FieldsComplete(Entry[links[m]]) /\ FieldsComplete(Entry[links[m]])
      BY <1>9, <3>1
    <3> QED BY <3>2, <3>3, Zenon
  <2> QED BY <1>6, <2>1, <2>2
<1>15. \A i, k \in DOMAIN all : i # k => all[i].tag # all[k].tag
  <2> SUFFICES ASSUME NEW i \in 1..Len(all), NEW k \in 1..Len(all), all[i].tag = all[k].tag
               PROVE  i = k
    BY <1>6
  <2>1. /\ (i - Len(a)) + Len(a) = i /\ (k - Len(a)) + Len(a) = k
        /\ i \in Int /\ k \in Int
    BY <1>6
  <2>2. ASSUME NEW h \in 1..N PROVE all[h + Len(a)].tag \notin UsedTags(c, s)
    BY <1>5, <1>6
  <2>3. CASE i \in 1..Len(a) /\ k \in 1..Len(a)
    BY <2>3, <1>6, <1>8
  <2>4. CASE i \in 1..Len(a) /\ k - Len(a) \in 1..N
    <3>1. all[i].tag \in UsedTags(c, s)
      BY <2>4, <1>6, <1>7
    <3>2. all[(k - Len(a)) + Len(a)].tag \notin UsedTags(c, s)
      BY <2>2, <2>4
    <3> QED BY <3>1, <3>2, <2>1
  <2>5. CASE i - Len(a) \in 1..N /\ k \in 1..Len(a)
    <3>1. all[k].tag \in UsedTags(c, s)
      BY <2>5, <1>6, <1>7
    <3>2. all[(i - Len(a)) + Len(a)].tag \notin UsedTags(c, s)
      BY <2>2, <2>5
    <3> QED BY <3>1, <3>2, <2>1
  <2>6. CASE i - Len(a) \in 1..N /\ k - Len(a) \in 1..N
    <3> DEFINE x == i - Len(a)
               y == k - Len(a)
    <3>1. all[x + Len(a)] = made[x] /\ all[y + Len(a)] = made[y]
      <4> HIDE DEF x, y
      <4>1. x \in 1..N /\ y \in 1..N
        BY <2>6 DEF x, y
      <4> QED BY <4>1, <1>6
    <3>2. made[x].tag = made[y].tag
      BY <3>1, <2>1
    <3>3. x = y
      <4> HIDE DEF x, y, made
      <4>1. x \in 1..N /\ y \in 1..N
        BY <2>6 DEF x, y
      <4> QED BY <4>1, <3>2, <1>5
    <3> QED BY <3>3, <2>1
  <2> QED BY <1>6, <2>3, <2>4, <2>5, <2>6
<1> QED BY <1>12, <1>13, <1>14, <1>15

(* The tags of a list, one at a time. *)
LEMMA TagsOfTail ==
  ASSUME NEW o \in Outbound, NEW q \in Seq(Outbound)
  PROVE  /\ Tags(<<o>> \o q) # <<>>
         /\ Head(Tags(<<o>> \o q)) = o.tag
         /\ Tail(Tags(<<o>> \o q)) = Tags(q)
<1> DEFINE r == <<o>> \o q
           t == Tags(r)
<1>0. <<o>> \in Seq(Outbound) /\ Len(<<o>>) = 1 /\ <<o>>[1] = o
  OBVIOUS
<1>1. /\ r \in Seq(Outbound) /\ Len(r) = 1 + Len(q) /\ Len(q) \in Nat
      /\ \A i \in 1..1 + Len(q) : r[i] = IF i <= 1 THEN <<o>>[i] ELSE q[i - 1]
  BY <1>0, ConcatProperties
<1> HIDE DEF r
<1>2. r[1] = o /\ \A i \in 1..Len(q) : r[i + 1] = q[i]
  BY <1>0, <1>1
<1>3. /\ t \in Seq(Tag) /\ Len(t) = 1 + Len(q)
      /\ \A i \in 1..Len(r) : t[i] = r[i].tag
  BY <1>1, TagsType
<1>4. /\ Tags(q) \in Seq(Tag) /\ Len(Tags(q)) = Len(q)
      /\ \A i \in 1..Len(q) : Tags(q)[i] = q[i].tag
  BY TagsType
<1> HIDE DEF t
<1>5. t # <<>> /\ Head(t) = t[1] /\ t[1] = o.tag
  BY <1>1, <1>2, <1>3
<1>6. /\ Tail(t) \in Seq(Tag) /\ Len(Tail(t)) = Len(q)
      /\ \A i \in 1..Len(q) : Tail(t)[i] = t[i + 1]
  BY <1>1, <1>3, <1>5, HeadTailProperties
<1>7. \A i \in 1..Len(q) : Tail(t)[i] = Tags(q)[i]
  <2> SUFFICES ASSUME NEW i \in 1..Len(q) PROVE Tail(t)[i] = Tags(q)[i]
    OBVIOUS
  <2>1. i + 1 \in 1..Len(r) /\ r[i + 1] = q[i]
    BY <1>1, <1>2
  <2> QED BY <2>1, <1>3, <1>4, <1>6
<1>8. Tail(t) = Tags(q)
  BY <1>4, <1>6, <1>7, SeqEqual
<1> QED BY <1>5, <1>8 DEF t, r

(* What a second refresh from the same list finds. *)
LEMMA KeptAgain ==
  ASSUME NEW c \in Content, NEW s \in Sub, NEW links \in Seq(Link)
  PROVE  LET made == MadeOf(c, s, links)
             new == ApplyNodes(c, s, links)
         IN  /\ Kept(new, s) = Kept(c, s)
             /\ \A n : HeldTags(new, s, n) = Tags(Pick(made, {i \in 1..Len(made) : made[i].node = n}))
<1> DEFINE a == Kept(c, s)
           made == MadeOf(c, s, links)
           new == ApplyNodes(c, s, links)
           all == new.outbounds
           I == DOMAIN all \ OfSub(new, s)
<1>0. s \in Source /\ Replacing(s)
  BY SubscriptionsAssumption DEF Source, Replacing
<1>1. /\ a \in Seq(Outbound) /\ made \in Seq(Outbound) /\ all = a \o made
      /\ Len(made) = Len(links)
      /\ \A i \in 1..Len(links) : made[i].sub = s
  BY <1>0, ApplyNodesIs, StartType
<1>2. /\ DOMAIN all = 1..Len(all) /\ Len(a) \in Nat
      /\ \A i \in 1..Len(a) : all[i] = a[i]
      /\ \A i \in 1..Len(links) : all[i + Len(a)] = made[i] /\ i + Len(a) \in 1..Len(all)
      /\ Len(all) = Len(a) + Len(links)
  BY <1>0, NewOutbounds
<1>3. \A i \in 1..Len(a) : a[i].sub # s
  <2>1. \A x : x \in Range(a) => \E k \in 1..Len(c.outbounds) :
                                    c.outbounds[k].sub # s /\ x = c.outbounds[k]
    BY <1>0, KeptIs
  <2> HIDE DEF a
  <2>2. \A i \in 1..Len(a) : a[i] \in Range(a)
    BY <1>1, RangeEquality
  <2> QED BY <2>1, <2>2
<1>4. \A i \in 1..Len(a) : i \in DOMAIN all /\ i \notin OfSub(new, s)
  BY <1>1, <1>2, <1>3 DEF OfSub
<1>5. \A i \in 1..Len(made) : i + Len(a) \in OfSub(new, s)
  BY <1>1, <1>2 DEF OfSub
<1> HIDE DEF a, made, all
<1>6. Kept(new, s) = a
  <2>1. Pick(a \o made, I) = Pick(a, I) \o Pick(made, {})
    <3>1. \A i \in 1..Len(made) : i \in {} <=> i + Len(a) \in I
      BY <1>5
    <3> HIDE DEF I
    <3> QED BY <1>1, <3>1, PickConcat
  <2>2. Pick(a, I) = a
    <3>1. \A i \in 1..Len(a) : i \in I
      BY <1>4
    <3> HIDE DEF I
    <3> QED BY <1>1, <3>1, PickAll
  <2>3. Pick(made, {}) = <<>>
    BY <1>1, PickNone
  <2>4. Pick(a \o made, I) = a
    BY <2>1, <2>2, <2>3, <1>1, ConcatEmptySeq
  <2>5. Kept(new, s) = Pick(all, I)
    BY <1>0 DEF Kept, Others, all
  <2> QED BY <2>4, <2>5, <1>1
<1>7. ASSUME NEW n
      PROVE  HeldTags(new, s, n) = Tags(Pick(made, {i \in 1..Len(made) : made[i].node = n}))
  <2> DEFINE H == {i \in OfSub(new, s) : all[i].node = n}
             J == {i \in 1..Len(made) : made[i].node = n}
  <2>1. Pick(a \o made, H) = Pick(a, H) \o Pick(made, J)
    <3>1. \A i \in 1..Len(made) : i \in J <=> i + Len(a) \in H
      BY <1>1, <1>2, <1>5
    <3> HIDE DEF H, J
    <3> QED BY <1>1, <3>1, PickConcat
  <2>2. Pick(a, H) = <<>>
    <3>1. \A i \in 1..Len(a) : i \notin H
      BY <1>4
    <3> HIDE DEF H
    <3> QED BY <1>1, <3>1, PickNone
  <2>3. Pick(made, J) \in Seq(Outbound)
    BY <1>1, PickRange
  <2>4. <<>> \o Pick(made, J) = Pick(made, J)
    BY <2>3, ConcatEmptySeq
  <2>5. HeldTags(new, s, n) = Tags(Pick(all, H))
    BY DEF HeldTags, Held, all
  <2> QED BY <2>1, <2>2, <2>4, <2>5, <1>1
<1> QED BY <1>6, <1>7 DEF a, made

(* A refresh from the same list again changes nothing. *)
LEMMA RefreshTwice ==
  ASSUME NEW c \in Content, NEW s \in Sub, NEW links \in Seq(Link)
  PROVE  ApplyNodes(ApplyNodes(c, s, links), s, links) = ApplyNodes(c, s, links)
<1> DEFINE N == Len(links)
           made == MadeOf(c, s, links)
           new == ApplyNodes(c, s, links)
           G == Given(new, s, links)
           Rest(n, k) == {i \in k + 1..N : made[i].node = n}
           Left(acc, k) == \A n \in Node : acc.left[n] = Tags(Pick(made, Rest(n, k)))
           T == {k \in 0..N : G[k].made = SubSeq(made, 1, k) /\ Left(G[k], k)}
<1>0. N \in Nat /\ N \in 0..N /\ s \in Source /\ Replacing(s)
  BY SubscriptionsAssumption DEF Source, Replacing
<1>1. /\ made \in Seq(Outbound) /\ Len(made) = N
      /\ new \in Content /\ new.outbounds = Kept(c, s) \o made
  BY <1>0, ApplyNodesIs
<1>1a. \A i \in 1..N : made[i] = Made(s, links[i], made[i].tag) /\ made[i].node = NodeOf(links[i])
  BY <1>0, ApplyNodesIs
<1>2. Kept(new, s) = Kept(c, s)
  BY KeptAgain
<1>3. \A n : HeldTags(new, s, n) = Tags(Pick(made, {i \in 1..Len(made) : made[i].node = n}))
  BY KeptAgain
<1>4. \A k \in 0..N : G[k] \in Accs /\ IsFiniteSet(G[k].used)
  <2> HIDE DEF new
  <2> QED BY <1>0, <1>1, GivenType
<1>5. 0 \in T
  <2>1. G[0] = [left |-> KeptTags(new, s), used |-> UsedTags(new, s), made |-> <<>>]
    <3> HIDE DEF new
    <3> QED BY <1>0, GivenIs
  <2>2. SubSeq(made, 1, 0) = <<>>
    BY SubSeqEmpty
  <2>3. \A n \in Node : KeptTags(new, s)[n] = HeldTags(new, s, n)
    BY <1>0 DEF KeptTags
  <2> HIDE DEF G, made, new
  <2>4. ASSUME NEW n \in Node PROVE G[0].left[n] = Tags(Pick(made, Rest(n, 0)))
    <3>1. {i \in 1..Len(made) : made[i].node = n} = Rest(n, 0)
      BY <1>1
    <3> QED BY <3>1, <2>1, <2>3, <1>3
  <2>5. G[0].made = SubSeq(made, 1, 0)
    <3>1. G[0].made = <<>>
      BY <2>1
    <3> QED BY <3>1, <2>2
  <2>6. Left(G[0], 0)
    BY <2>4
  <2> HIDE DEF Left
  <2> QED BY <1>0, <2>5, <2>6
<1>6. ASSUME NEW k \in 0..N, k \in T, k # N PROVE k + 1 \in T
  <2> DEFINE acc == G[k]
             b == G[k + 1]
             l == links[k + 1]
             n == NodeOf(l)
             o == made[k + 1]
  <2>1. k + 1 \in 1..N /\ k + 1 \in 0..N /\ k \in Nat /\ l \in Link /\ n \in Node
    BY <1>0, <1>6 DEF Node
  <2>2. acc.made = SubSeq(made, 1, k) /\ Left(acc, k)
    <3> HIDE DEF Left
    <3> QED BY <1>6
  <2>3. o \in Outbound /\ o = Made(s, l, o.tag) /\ o.node = n
    BY <1>1, <1>1a, <2>1
  <2>4. b = Give(acc, s, l) /\ acc \in Accs
    <3>1. \A h \in 0..N : h # N => G[h + 1] = Give(G[h], s, links[h + 1])
      <4> HIDE DEF new
      <4>1. /\ G[0] = [left |-> KeptTags(new, s), used |-> UsedTags(new, s), made |-> <<>>]
            /\ \A h \in 0..N : h # N => G[h + 1] = Give(G[h], s, links[h + 1])
        BY <1>0, GivenIs
      <4> QED BY <4>1
    <3> QED BY <3>1, <1>4, <1>6
  <2> HIDE DEF acc, b, made, new, G
  <2>5. Pick(made, Rest(n, k)) = <<o>> \o Pick(made, Rest(n, k + 1))
    <3>1. k + 1 \in Rest(n, k) /\ \A i \in 1..Len(made) : i \in Rest(n, k) => k + 1 <= i
      BY <2>1, <2>3
    <3>2. Rest(n, k) \ {k + 1} = Rest(n, k + 1)
      BY <2>1
    <3>3. k + 1 \in 1..Len(made)
      BY <1>1, <2>1
    <3> DEFINE I == Rest(n, k)
               m == k + 1
    <3>4. LeastAt(m, made, I)
      BY <3>1, <3>3 DEF LeastAt
    <3>5. made \in Seq(Outbound)
      BY <1>1
    <3>6. FirstThenRest(m, made, I)
      <4> HIDE DEF I, m, n, l, o
      <4> QED BY <3>4, <3>5, PickLeast
    <3> QED BY <3>2, <3>6 DEF FirstThenRest
  <2>6. Pick(made, Rest(n, k + 1)) \in Seq(Outbound)
    <3> HIDE DEF Rest
    <3> QED BY <1>1, PickRange
  <2> DEFINE q == acc.left[n]
  <2>7. q # <<>> /\ Head(q) = o.tag /\ Tail(q) = Tags(Pick(made, Rest(n, k + 1)))
    <3>1. q = Tags(<<o>> \o Pick(made, Rest(n, k + 1)))
      BY <2>1, <2>2, <2>5
    <3> HIDE DEF Rest, o, q
    <3> QED BY <3>1, <2>3, <2>6, TagsOfTail
  <2>8. /\ b.left = [acc.left EXCEPT ![n] = Tail(q)]
        /\ b.made = Append(acc.made, Made(s, l, o.tag))
    <3>1. b = AddTag([acc EXCEPT !.left[n] = Tail(q)], s, l, o.tag)
      BY <2>4, <2>7 DEF Give
    <3> DEFINE rest == [acc EXCEPT !.left[n] = Tail(q)]
    <3>2. rest.left = [acc.left EXCEPT ![n] = Tail(q)] /\ rest.made = acc.made
      BY <2>4 DEF Accs
    <3> HIDE DEF rest
    <3>3. b.left = rest.left /\ b.made = Append(rest.made, Made(s, l, o.tag))
      BY <3>1 DEF AddTag, Made, rest
    <3> QED BY <3>2, <3>3
  <2>9. acc.left \in [Node -> Seq(Tag)]
    BY <2>4 DEF Accs
  <2>10. Left(b, k + 1)
    <3> SUFFICES ASSUME NEW m \in Node
                 PROVE  b.left[m] = Tags(Pick(made, Rest(m, k + 1)))
      OBVIOUS
    <3>1. CASE m = n
      <4>1. b.left[n] = Tail(q)
        BY <2>1, <2>8, <2>9
      <4> HIDE DEF Rest, n, q
      <4> QED BY <4>1, <2>7, <3>1
    <3>2. CASE m # n
      <4>1. Rest(m, k) = Rest(m, k + 1)
        <5>1. \A i : i \in k + 1..N <=> i = k + 1 \/ i \in (k + 1) + 1..N
          BY <2>1
        <5> QED BY <2>3, <3>2, <5>1
      <4>2. b.left[m] = acc.left[m]
        BY <2>8, <2>9, <3>2
      <4>3. acc.left[m] = Tags(Pick(made, Rest(m, k)))
        BY <2>2
      <4> HIDE DEF Rest
      <4> QED BY <4>1, <4>2, <4>3
    <3> QED BY <3>1, <3>2
  <2>11. b.made = SubSeq(made, 1, k + 1)
    <3>1. b.made = Append(SubSeq(made, 1, k), o)
      BY <2>2, <2>3, <2>8
    <3>2. SubSeq(made, 1, k) \in Seq(Outbound)
      <4>1. \A i \in 1..k : made[i] \in Outbound
        BY <1>1, <2>1
      <4> QED BY <4>1, <2>1, SubSeqProperties
    <3>3. b.made = SubSeq(made, 1, k) \o <<o>>
      <4> HIDE DEF o
      <4> QED BY <3>1, <3>2, <2>3, AppendIsConcat
    <3>4. (k + 1) - 1 = k /\ 1 \in 1..Len(made) /\ k + 1 \in 1..Len(made)
      BY <1>1, <2>1
    <3>5. SubSeq(made, 1, k + 1) = SubSeq(made, 1, (k + 1) - 1) \o <<made[k + 1]>>
      BY <1>1, <3>4, SubSeqRecursiveSecond
    <3> QED BY <3>3, <3>4, <3>5
  <2> HIDE DEF Left
  <2> QED BY <2>1, <2>10, <2>11 DEF b
<1>7. \A k \in 0..N : k \in T
  <2> HIDE DEF T
  <2> QED BY <1>0, <1>5, <1>6, UpTo
<1>8. G[N].made = made
  <2>1. G[N].made = SubSeq(made, 1, N)
    BY <1>0, <1>7
  <2> QED BY <2>1, <1>1, SubSeqFull
<1>9. ApplyNodes(new, s, links) = [new EXCEPT !.outbounds = new.outbounds]
  <2> HIDE DEF new, made
  <2> QED BY <1>1, <1>2, <1>8 DEF ApplyNodes
<1>10. [new EXCEPT !.outbounds = new.outbounds] = new
  <2> HIDE DEF new
  <2> QED BY <1>1 DEF Content
<1> QED BY <1>9, <1>10
=============================================================================
