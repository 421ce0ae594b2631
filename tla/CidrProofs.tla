----------------------------- MODULE CidrProofs -----------------------------
(***************************************************************************)
(* What NormalizeIPv4CIDRs of Cidr computes, for every width of addresses  *)
(* and every set of CIDRs: exactly the addresses they cover, in disjoint   *)
(* blocks none of which could be part of a larger one.  Size, Merged and   *)
(* Blocks are recursive functions, reasoned about by induction on how far  *)
(* they got: UpTo, over the set of the numbers for which a claim holds.    *)
(***************************************************************************)
EXTENDS Cidr, FiniteSetTheorems, SequenceTheorems, WellFoundedInduction, TLAPS

(* A set of naturals that is not empty has a least element. *)
LEMMA LeastOf ==
  ASSUME NEW S \in SUBSET Nat, S # {}
  PROVE  \E x \in S : \A y \in S : x <= y
<1> DEFINE R == OpToRel(<, Nat)
<1>1. IsWellFoundedOn(R, Nat)
  BY NatLessThanWellFounded, Zenon
<1>2. \A x, y \in Nat : y < x => <<y, x>> \in R
  BY DEF OpToRel
<1> HIDE DEF R
<1>3. PICK x \in S : \A y \in S : ~(<<y, x>> \in R)
  BY <1>1, WFMin, Zenon
<1>4. ASSUME NEW y \in S PROVE x <= y
  <2>1. x \in Nat /\ y \in Nat /\ ~(y < x)
    BY <1>2, <1>3
  <2> QED BY <2>1
<1> QED BY <1>4

(* Induction up to N, over a set. *)
LEMMA UpTo ==
  ASSUME NEW N \in Nat, NEW S, 0 \in S, \A k \in 0..N : k \in S /\ k # N => k + 1 \in S
  PROVE  \A k \in 0..N : k \in S
<1> SUFFICES ASSUME NEW k \in 0..N, k \notin S PROVE FALSE
  OBVIOUS
<1> DEFINE B == {m \in 0..N : m \notin S}
<1>1. PICK x \in B : \A y \in B : x <= y
  <2>1. B \in SUBSET Nat /\ B # {}
    OBVIOUS
  <2> HIDE DEF B
  <2> QED BY <2>1, LeastOf
<1>2. x \in 0..N /\ x # 0 /\ x \notin S
  OBVIOUS
<1>3. x - 1 \in 0..N /\ x - 1 # N /\ (x - 1) + 1 = x
  BY <1>2
<1>4. x - 1 \in S
  BY <1>1, <1>3
<1> QED BY <1>2, <1>3, <1>4
-----------------------------------------------------------------------------
(* Division with remainder. *)
LEMMA DivMod ==
  ASSUME NEW x \in Nat, NEW n \in Nat \ {0}
  PROVE  x % n \in 0..n - 1 /\ \E q \in Nat : x = q * n + (x % n)
<1>1. x % n \in 0..n - 1
  OBVIOUS
<1>2. x = (x \div n) * n + (x % n)
  OBVIOUS
<1>3. x \div n \in Nat
  OBVIOUS
<1> QED BY <1>1, <1>2, <1>3

LEMMA Multiples ==
  ASSUME NEW a \in Nat, NEW b \in Nat, NEW n \in Nat, a < b
  PROVE  a * n + n <= b * n
<1>1. PICK d \in Nat : b = a + 1 + d
  <2>1. b - a - 1 \in Nat /\ b = a + 1 + (b - a - 1)
    OBVIOUS
  <2> QED BY <2>1
<1>2. b * n = a * n + n + d * n
  BY <1>1
<1>3. d * n \in Nat
  BY <1>1
<1> QED BY <1>2, <1>3

LEMMA Remainder ==
  ASSUME NEW p \in Nat, NEW q \in Nat, NEW n \in Nat \ {0}, NEW r \in 0..n - 1, NEW s \in 0..n - 1,
         p * n + r = q * n + s
  PROVE  p = q /\ r = s
<1>0. p * n \in Nat /\ q * n \in Nat /\ r \in Nat /\ s \in Nat
  OBVIOUS
<1>1. CASE p < q
  <2>1. p * n + n <= q * n
    BY <1>1, Multiples
  <2> QED BY <2>1, <1>0
<1>2. CASE q < p
  <2>1. q * n + n <= p * n
    BY <1>2, Multiples
  <2> QED BY <2>1, <1>0
<1>3. CASE p = q
  BY <1>3, <1>0
<1> QED BY <1>1, <1>2, <1>3

(* The remainder is the r with x = q * n + r. *)
LEMMA ModIs ==
  ASSUME NEW q \in Nat, NEW n \in Nat \ {0}, NEW r \in 0..n - 1
  PROVE  (q * n + r) % n = r
<1> DEFINE x == q * n + r
<1>1. x \in Nat
  OBVIOUS
<1> HIDE DEF x
<1>2. PICK p \in Nat : x = p * n + (x % n)
  BY <1>1, DivMod
<1>3. x % n \in 0..n - 1
  BY <1>1, DivMod
<1>4. p * n + (x % n) = q * n + r
  BY <1>2 DEF x
<1>5. x % n = r
  <2> DEFINE s == x % n
  <2>1. s \in 0..n - 1 /\ p * n + s = q * n + r
    BY <1>3, <1>4
  <2> HIDE DEF s
  <2>2. s = r
    BY <2>1, Remainder
  <2> QED BY <2>2 DEF s
<1> QED BY <1>5 DEF x
-----------------------------------------------------------------------------
(* The recursive function Size exists. *)
LEMMA SizeIs ==
  /\ Size[W] = 1
  /\ \A len \in 0..W : len # W => Size[len] = 2 * Size[len + 1]
<1> DEFINE Is(g, m) == g = [len \in m..W |-> IF len = W THEN 1 ELSE 2 * g[len + 1]]
           S == {m \in 0..W : \E g : Is(g, W - m)}
<1>0. W \in Nat
  BY WAssumption
<1>1. 0 \in S
  <2>1. Is([len \in W - 0..W |-> 1], W - 0)
    BY <1>0
  <2> HIDE DEF Is
  <2>2. \E g : Is(g, W - 0)
    BY <2>1
  <2> QED BY <1>0, <2>2
<1>2. ASSUME NEW m \in 0..W, m \in S, m # W PROVE m + 1 \in S
  <2>1. PICK g : Is(g, W - m)
    BY <1>2
  <2> DEFINE k == W - (m + 1)
             h == [len \in k..W |-> IF len = k THEN 2 * g[k + 1] ELSE g[len]]
  <2>2. k + 1 = W - m /\ k \in 0..W /\ k # W /\ m + 1 \in 0..W
    BY <1>0, <1>2
  <2>3. ASSUME NEW len \in k..W
        PROVE  h[len] = IF len = W THEN 1 ELSE 2 * h[len + 1]
    <3>1. CASE len = k
      <4>1. h[k + 1] = g[k + 1] /\ h[k] = 2 * g[k + 1]
        BY <1>0, <2>2
      <4> QED BY <2>2, <3>1, <4>1
    <3>2. CASE len \in k + 1..W
      <4>1. g[len] = IF len = W THEN 1 ELSE 2 * g[len + 1]
        BY <2>1, <2>2, <3>2
      <4>2. h[len] = g[len] /\ (len # W => h[len + 1] = g[len + 1])
        BY <1>0, <2>2, <3>2
      <4> QED BY <4>1, <4>2
    <3> QED BY <1>0, <2>2, <3>1, <3>2
  <2>4. Is(h, k)
    BY <2>3
  <2> HIDE DEF Is, h
  <2>5. \E f : Is(f, W - (m + 1))
    BY <2>4
  <2> QED BY <2>2, <2>5
<1>3. \A m \in 0..W : m \in S
  <2> HIDE DEF S
  <2> QED BY <1>0, <1>1, <1>2, UpTo
<1>4. PICK g : Is(g, 0)
  <2>1. W \in 0..W /\ W - W = 0
    BY <1>0
  <2> QED BY <1>3, <2>1
<1>5. Is(Size, 0)
  BY <1>4 DEF Size
<1>6. \A len \in 0..W : Size[len] = IF len = W THEN 1 ELSE 2 * Size[len + 1]
  BY <1>5
<1> QED BY <1>0, <1>6

(* A block has at least one address, and larger blocks consist of smaller ones. *)
LEMMA SizePositive == \A len \in 0..W : Size[len] \in Nat \ {0}
<1> DEFINE S == {m \in 0..W : Size[W - m] \in Nat \ {0}}
<1>0. W \in Nat
  BY WAssumption
<1>1. 0 \in S
  BY <1>0, SizeIs
<1>2. ASSUME NEW m \in 0..W, m \in S, m # W PROVE m + 1 \in S
  <2>1. W - (m + 1) \in 0..W /\ W - (m + 1) # W /\ (W - (m + 1)) + 1 = W - m /\ m + 1 \in 0..W
    BY <1>0, <1>2
  <2>2. Size[W - (m + 1)] = 2 * Size[W - m]
    BY <2>1, SizeIs
  <2> QED BY <1>2, <2>1, <2>2
<1>3. \A m \in 0..W : m \in S
  <2> HIDE DEF S
  <2> QED BY <1>0, <1>1, <1>2, UpTo
<1>4. \A len \in 0..W : W - len \in 0..W /\ W - (W - len) = len
  BY <1>0
<1> QED BY <1>3, <1>4

LEMMA SizeDivides ==
  ASSUME NEW small \in 0..W, NEW large \in 0..small
  PROVE  \E q \in Nat \ {0} : Size[large] = q * Size[small]
<1> DEFINE Divides(len) == \E q \in Nat \ {0} : Size[len] = q * Size[small]
           S == {m \in 0..small : Divides(small - m)}
<1>0. W \in Nat /\ small \in Nat
  BY WAssumption
<1>1. 0 \in S
  <2>1. small - 0 = small /\ Size[small] = 1 * Size[small]
    BY <1>0, SizePositive
  <2> QED BY <1>0, <2>1
<1>2. ASSUME NEW m \in 0..small, m \in S, m # small PROVE m + 1 \in S
  <2> DEFINE k == small - (m + 1)
  <2>1. k \in 0..W /\ k # W /\ k + 1 = small - m /\ m + 1 \in 0..small
    BY <1>0, <1>2
  <2>2. PICK q \in Nat \ {0} : Size[k + 1] = q * Size[small]
    BY <1>2, <2>1
  <2>3. Size[k] = 2 * Size[k + 1]
    BY <2>1, SizeIs
  <2> HIDE DEF k
  <2>4. Size[k] = (2 * q) * Size[small] /\ 2 * q \in Nat \ {0}
    BY <1>0, <2>2, <2>3, SizePositive
  <2>5. Divides(k)
    BY <2>4
  <2> QED BY <2>1, <2>5 DEF k
<1>3. \A m \in 0..small : m \in S
  <2> HIDE DEF S
  <2> QED BY <1>0, <1>1, <1>2, UpTo
<1>4. small - large \in 0..small /\ small - (small - large) = large
  BY <1>0
<1> QED BY <1>3, <1>4

(* Of two prefixes, the longer one stands for fewer addresses. *)
LEMMA SizeOrder ==
  ASSUME NEW small \in 0..W, NEW large \in 0..small
  PROVE  /\ Size[small] <= Size[large]
         /\ large # small => Size[small] < Size[large]
<1>0. W \in Nat
  BY WAssumption
<1>1. ASSUME NEW k \in 0..small PROVE Size[small] <= Size[k]
  <2>1. PICK q \in Nat \ {0} : Size[k] = q * Size[small]
    BY SizeDivides
  <2>2. Size[small] \in Nat \ {0}
    BY SizePositive
  <2>3. CASE q = 1
    BY <2>1, <2>2, <2>3
  <2>4. CASE 1 < q
    <3>1. 1 * Size[small] + Size[small] <= q * Size[small]
      BY <2>2, <2>4, Multiples
    <3> QED BY <2>1, <2>2, <3>1
  <2> QED BY <2>3, <2>4
<1>2. ASSUME large # small PROVE Size[small] < Size[large]
  <2>1. large + 1 \in 0..small /\ large \in 0..W /\ large # W
    BY <1>0, <1>2
  <2>2. Size[small] <= Size[large + 1]
    BY <1>1, <2>1
  <2>3. Size[large] = 2 * Size[large + 1]
    BY <2>1, SizeIs
  <2>4. Size[large + 1] \in Nat \ {0} /\ Size[small] \in Nat
    BY <1>0, <2>1, SizePositive
  <2> QED BY <2>2, <2>3, <2>4
<1> QED BY <1>1, <1>2
-----------------------------------------------------------------------------
(* A block of that prefix may begin at the address. *)
Aligned(x, len) == x % Size[len] = 0

LEMMA AlignedIs ==
  ASSUME NEW x \in Nat, NEW len \in 0..W
  PROVE  Aligned(x, len) <=> \E q \in Nat : x = q * Size[len]
<1>0. Size[len] \in Nat \ {0}
  BY SizePositive
<1> DEFINE n == Size[len]
<1>1. ASSUME x % n = 0 PROVE \E q \in Nat : x = q * n
  <2> HIDE DEF n
  <2>1. PICK q \in Nat : x = q * n + (x % n)
    BY <1>0, DivMod DEF n
  <2>2. q * n \in Nat
    BY <1>0 DEF n
  <2>3. x = q * n
    BY <1>1, <2>1, <2>2
  <2> QED BY <2>3
<1>2. ASSUME NEW q \in Nat, x = q * n PROVE x % n = 0
  <2>1. n \in Nat \ {0}
    BY <1>0
  <2> HIDE DEF n
  <2>2. q * n \in Nat /\ 0 \in 0..n - 1
    BY <2>1
  <2>3. (q * n + 0) % n = 0
    BY <2>1, <2>2, ModIs
  <2>4. q * n + 0 = x
    BY <1>2, <2>2
  <2> QED BY <2>3, <2>4
<1> QED BY <1>1, <1>2 DEF Aligned

(* Where a larger block may begin, a smaller one may. *)
LEMMA AlignedToo ==
  ASSUME NEW x \in Nat, NEW small \in 0..W, NEW large \in 0..small, Aligned(x, large)
  PROVE  Aligned(x, small)
<1>0. W \in Nat /\ large \in 0..W
  BY WAssumption
<1>1. PICK q \in Nat : x = q * Size[large]
  BY <1>0, AlignedIs
<1>2. PICK d \in Nat \ {0} : Size[large] = d * Size[small]
  BY SizeDivides
<1>3. x = (q * d) * Size[small] /\ q * d \in Nat
  <2>1. Size[small] \in Nat
    BY SizePositive
  <2> QED BY <1>1, <1>2, <2>1
<1> QED BY <1>3, AlignedIs

(* Between two addresses where it may begin lies a whole block. *)
LEMMA AlignedApart ==
  ASSUME NEW x \in Nat, NEW y \in Nat, NEW len \in 0..W,
         Aligned(x, len), Aligned(y, len), x < y
  PROVE  x + Size[len] <= y
<1> DEFINE n == Size[len]
<1>0. n \in Nat \ {0}
  BY SizePositive
<1>1. PICK p \in Nat : x = p * n
  BY AlignedIs
<1>2. PICK q \in Nat : y = q * n
  BY AlignedIs
<1> HIDE DEF n
<1>3. p < q
  <2>1. ASSUME q < p PROVE FALSE
    <3>1. q * n + n <= p * n
      BY <1>0, <2>1, Multiples
    <3> QED BY <1>0, <1>1, <1>2, <3>1
  <2> QED BY <1>1, <1>2, <2>1
<1>4. p * n + n <= q * n
  BY <1>0, <1>3, Multiples
<1>5. x + n <= y
  BY <1>1, <1>2, <1>4
<1> QED BY <1>5 DEF n

(* The next block, and the one before. *)
LEMMA AlignedNext ==
  ASSUME NEW x \in Nat, NEW len \in 0..W, Aligned(x, len)
  PROVE  Aligned(x + Size[len], len)
<1> DEFINE n == Size[len]
<1>0. n \in Nat \ {0}
  BY SizePositive
<1>1. PICK p \in Nat : x = p * n
  BY AlignedIs
<1> HIDE DEF n
<1>2. x + n = (p + 1) * n /\ p + 1 \in Nat /\ x + n \in Nat
  BY <1>0, <1>1
<1> QED BY <1>2, AlignedIs DEF n
-----------------------------------------------------------------------------
(* A CIDR as the program keeps it: parsed, its host bits cleared. *)
Net == {c \in Line : c.kind = "cidr" /\ Aligned(c.addr, c.len)}

LEMMA Everything == Size[0] \in Nat \ {0} /\ \A len \in 0..W : Aligned(Size[0], len)
<1>1. 0 \in 0..W
  BY WAssumption
<1>2. Size[0] \in Nat \ {0}
  BY <1>1, SizePositive
<1>3. ASSUME NEW len \in 0..W PROVE Aligned(Size[0], len)
  <2>1. 0 \in 0..len
    BY <1>3
  <2>2. PICK q \in Nat \ {0} : Size[0] = q * Size[len]
    BY <2>1, SizeDivides
  <2> QED BY <1>2, <2>2, AlignedIs
<1> QED BY <1>2, <1>3

LEMMA ParsedIs ==
  ASSUME NEW l \in Line
  PROVE  ParseIPv4CIDR(l) \in Net /\ ParseIPv4CIDR(l).len = l.len
<1> DEFINE n == Size[l.len]
           x == l.addr
<1>1. l.len \in 0..W /\ n \in Nat \ {0} /\ x \in Address /\ x \in Nat
  <2>1. l.len \in 0..W /\ x \in Address
    BY DEF Line
  <2> QED BY <2>1, SizePositive DEF Address
<1>2. ParseIPv4CIDR(l) = [kind |-> "cidr", addr |-> x - (x % n), len |-> l.len]
  BY DEF ParseIPv4CIDR, Cidr
<1> HIDE DEF n, x
<1>3. PICK q \in Nat : x = q * n + (x % n)
  BY <1>1, DivMod
<1>4. x % n \in 0..n - 1 /\ q * n \in Nat
  BY <1>1, DivMod
<1>5. x - (x % n) = q * n
  BY <1>3, <1>4
<1>6. q * n \in Address
  BY <1>1, <1>3, <1>4, Everything DEF Address
<1>7. Aligned(q * n, l.len)
  BY <1>1, <1>4, AlignedIs DEF n
<1> QED BY <1>1, <1>2, <1>5, <1>6, <1>7 DEF Net, Line

(* The range of such a CIDR does not run over the last address. *)
LEMMA RangeIs ==
  ASSUME NEW c \in Net
  PROVE  /\ RangeOf(c) = [start |-> c.addr, end |-> c.addr + (Size[c.len] - 1)]
         /\ c.addr \in Address /\ c.addr + (Size[c.len] - 1) \in Address
         /\ c.addr <= c.addr + (Size[c.len] - 1)
         /\ Addresses(c) = c.addr..c.addr + (Size[c.len] - 1)
<1> DEFINE x == c.addr
           n == Size[c.len]
           a == Size[0]
<1>1. c.len \in 0..W /\ x \in 0..a - 1 /\ a \in Nat \ {0} /\ Aligned(x, c.len)
  BY Everything DEF Net, Line, Address
<1>2. n \in Nat \ {0} /\ x < a /\ x \in Nat
  BY <1>1, SizePositive
<1>3. x + n <= a
  BY <1>1, <1>2, Everything, AlignedApart
<1>4. RangeOf(c) = [start |-> x, end |-> (x + (n - 1)) % a]
  BY DEF RangeOf
<1>5. Addresses(c) = x..x + n - 1
  BY DEF Addresses
<1>6. Address = 0..a - 1
  BY DEF Address
<1> HIDE DEF x, n, a
<1>7. x + (n - 1) \in 0..a - 1 /\ x <= x + (n - 1) /\ x + n - 1 = x + (n - 1)
  BY <1>1, <1>2, <1>3
<1>8. (x + (n - 1)) % a = x + (n - 1)
  BY <1>1, <1>7
<1>9. /\ RangeOf(c) = [start |-> x, end |-> x + (n - 1)]
      /\ Addresses(c) = x..x + (n - 1)
  BY <1>4, <1>5, <1>7, <1>8
<1> QED BY <1>1, <1>6, <1>7, <1>9 DEF x, n, a
-----------------------------------------------------------------------------
(* Prefix is the largest block that begins at the start and ends by the end. *)
LEMMA PrefixIs ==
  ASSUME NEW start \in Nat, NEW end \in Nat, start <= end
  PROVE  /\ Prefix(start, end) \in 0..W
         /\ Aligned(start, Prefix(start, end))
         /\ start + Size[Prefix(start, end)] <= end + 1
         /\ \A len \in 0..W : Aligned(start, len) /\ start + Size[len] <= end + 1 =>
              Prefix(start, end) <= len
<1> DEFINE Fits(len) == start % Size[len] = 0 /\ Size[len] <= end - start + 1
           Right(len) == Fits(len) /\ (len > 0 => ~Fits(len - 1))
           F == {len \in 0..W : Fits(len)}
<1>0. W \in Nat
  BY WAssumption
<1>1. ASSUME NEW len \in 0..W
      PROVE  Fits(len) <=> Aligned(start, len) /\ start + Size[len] <= end + 1
  <2>1. Size[len] \in Nat
    BY SizePositive
  <2>2. Size[len] <= end - start + 1 <=> start + Size[len] <= end + 1
    BY <2>1
  <2> QED BY <2>2 DEF Aligned
<1>2. ASSUME NEW small \in 0..W, NEW large \in 0..small, Fits(large) PROVE Fits(small)
  <2>1. large \in 0..W
    BY <1>0
  <2>2. Aligned(start, large) /\ start + Size[large] <= end + 1
    BY <1>1, <1>2, <2>1
  <2>3. Aligned(start, small)
    BY <2>2, AlignedToo
  <2>4. Size[small] <= Size[large] /\ Size[small] \in Nat /\ Size[large] \in Nat
    BY <2>1, SizeOrder, SizePositive
  <2>5. start + Size[small] <= end + 1
    BY <2>2, <2>4
  <2> QED BY <1>1, <2>3, <2>5
<1>3. W \in F
  <2>1. W \in 0..W /\ Size[W] = 1 /\ start = start * Size[W]
    BY <1>0, SizeIs
  <2>2. Aligned(start, W)
    BY <2>1, AlignedIs
  <2>3. start + Size[W] <= end + 1
    BY <2>1
  <2> QED BY <1>1, <2>1, <2>2, <2>3
<1>4. \E len \in 0..W : Right(len)
  <2>1. PICK x \in F : \A y \in F : x <= y
    <3>1. F \in SUBSET Nat /\ F # {}
      BY <1>0, <1>3
    <3> HIDE DEF F
    <3> QED BY <3>1, LeastOf
  <2>2. ASSUME x > 0, Fits(x - 1) PROVE FALSE
    <3>1. x \in 0..W /\ x - 1 \in 0..W
      BY <1>0, <2>2
    <3>2. x - 1 \in F
      BY <3>1, <2>2
    <3>3. x <= x - 1
      BY <3>2, <2>1
    <3> QED BY <3>1, <3>3
  <2> QED BY <2>1, <2>2
<1> DEFINE p == Prefix(start, end)
<1>5. p = CHOOSE len \in 0..W : Right(len)
  BY DEF Prefix
<1> HIDE DEF p
<1>6. p \in 0..W /\ Right(p)
  <2> HIDE DEF Right
  <2> QED BY <1>4, <1>5
<1> HIDE DEF Fits
<1>7. ASSUME NEW len \in 0..W, Fits(len) PROVE p <= len
  <2>1. CASE len < p
    <3>1. p - 1 \in 0..W /\ len \in 0..p - 1 /\ p > 0
      BY <1>0, <1>6, <2>1
    <3>2. Fits(p - 1)
      BY <1>2, <1>7, <3>1
    <3> QED BY <1>6, <3>1, <3>2
  <2> QED BY <1>0, <1>6, <2>1
<1>8. Aligned(start, p) /\ start + Size[p] <= end + 1
  BY <1>1, <1>6
<1> QED BY <1>1, <1>6, <1>7, <1>8 DEF p
-----------------------------------------------------------------------------
(* The recursive function inside Blocks: the blocks from an address to the end. *)
From(start, end) ==
  CHOOSE from : from = [s \in start..end |->
    LET size == Size[Prefix(s, end)]
    IN  {<<s, Prefix(s, end)>>} \cup (IF size >= end - s + 1 THEN {} ELSE from[s + size])]

(* The address after the first block. *)
After(s, end) == s + Size[Prefix(s, end)]
FirstBlock(s, end) == {<<s, Prefix(s, end)>>}

LEMMA AfterIs ==
  ASSUME NEW s \in Nat, NEW end \in Nat, s <= end
  PROVE  /\ After(s, end) \in Nat /\ s < After(s, end) /\ After(s, end) <= end + 1
         /\ Size[Prefix(s, end)] >= end - s + 1 <=> After(s, end) = end + 1
<1> DEFINE n == Size[Prefix(s, end)]
<1>1. n \in Nat \ {0} /\ s + n <= end + 1
  BY PrefixIs, SizePositive
<1>2. After(s, end) = s + n
  BY DEF After
<1> HIDE DEF n
<1>3. n >= end - s + 1 <=> s + n = end + 1
  BY <1>1
<1>4. s + n \in Nat /\ s < s + n
  BY <1>1
<1> QED BY <1>1, <1>2, <1>3, <1>4 DEF n

LEMMA FromIs ==
  ASSUME NEW start \in Nat, NEW end \in Nat, start <= end
  PROVE  /\ \A s \in start..end :
              From(start, end)[s] = FirstBlock(s, end)
                                      \cup (IF After(s, end) = end + 1 THEN {}
                                            ELSE From(start, end)[After(s, end)])
         /\ Blocks(start, end) = From(start, end)[start]
<1> DEFINE N == end - start
           Rest(g, s) == FirstBlock(s, end)
                           \cup (IF After(s, end) = end + 1 THEN {} ELSE g[After(s, end)])
           Is(g, m) == g = [s \in end - m..end |-> Rest(g, s)]
           S == {m \in 0..N : \E g : Is(g, m)}
<1>0. /\ N \in Nat
      /\ \A s \in start..end : /\ After(s, end) \in Nat
                               /\ s < After(s, end) /\ After(s, end) <= end + 1
  <2>1. ASSUME NEW s \in start..end
        PROVE  After(s, end) \in Nat /\ s < After(s, end) /\ After(s, end) <= end + 1
    <3>1. s \in Nat /\ s <= end
      BY <2>1
    <3> QED BY <3>1, AfterIs
  <2>2. N \in Nat
    OBVIOUS
  <2> QED BY <2>1, <2>2
<1>1. 0 \in S
  <2> DEFINE g == [s \in end - 0..end |-> FirstBlock(end, end)]
  <2>1. end \in start..end
    OBVIOUS
  <2>2. After(end, end) = end + 1
    BY <1>0, <2>1
  <2>3. \A s \in end - 0..end : s = end
    OBVIOUS
  <2>4. g = [s \in end - 0..end |-> Rest(g, s)]
    BY <2>2, <2>3
  <2> HIDE DEF g
  <2>5. Is(g, 0)
    BY <2>4
  <2> HIDE DEF Is
  <2>6. \E f : Is(f, 0)
    BY <2>5
  <2> QED BY <1>0, <2>6
<1>2. ASSUME NEW m \in 0..N, m \in S, m # N PROVE m + 1 \in S
  <2>1. PICK g : Is(g, m)
    BY <1>2
  <2> DEFINE k == end - (m + 1)
             h == [s \in k..end |-> IF s = k THEN Rest(g, s) ELSE g[s]]
  <2>2. k \in start..end /\ k + 1 = end - m /\ k + 1 <= end /\ m + 1 \in 0..N
    BY <1>0, <1>2
  <2>3. ASSUME NEW s \in k..end PROVE h[s] = Rest(h, s)
    <3>1. s \in start..end /\ After(s, end) \in k + 1..end + 1
      BY <1>0, <2>2, <2>3
    <3>2. After(s, end) # end + 1 => After(s, end) \in k + 1..end
      BY <3>1, <2>2
    <3>3. \A x \in k + 1..end : h[x] = g[x]
      BY <2>2
    <3>4. Rest(h, s) = Rest(g, s)
      <4> HIDE DEF h, k
      <4> QED BY <3>2, <3>3
    <3>5. h[s] = IF s = k THEN Rest(g, s) ELSE g[s]
      OBVIOUS
    <3>6. CASE s = k
      <4> HIDE DEF h, k, Rest
      <4> QED BY <3>4, <3>5, <3>6
    <3>7. CASE s \in end - m..end
      <4>1. g[s] = Rest(g, s)
        <5> HIDE DEF Rest
        <5> QED BY <2>1, <3>7
      <4>2. s # k
        BY <3>7, <2>2
      <4> HIDE DEF h, k, Rest
      <4> QED BY <3>4, <3>5, <4>1, <4>2
    <3>8. s = k \/ s \in end - m..end
      BY <2>2
    <3> QED BY <3>6, <3>7, <3>8
  <2>4. h = [s \in k..end |-> h[s]]
    OBVIOUS
  <2> HIDE DEF h, Rest
  <2>5. Is(h, m + 1)
    BY <2>3, <2>4
  <2> HIDE DEF Is, k
  <2>6. \E f : Is(f, m + 1)
    BY <2>5
  <2> QED BY <2>2, <2>6
<1>3. \A m \in 0..N : m \in S
  <2> HIDE DEF S, N
  <2> QED BY <1>0, <1>1, <1>2, UpTo
<1>4. PICK g : Is(g, N)
  <2>1. N \in 0..N
    BY <1>0
  <2> QED BY <1>3, <2>1
<1>5. \A s \in start..end : Size[Prefix(s, end)] >= end - s + 1 <=> After(s, end) = end + 1
  <2>1. \A s \in start..end : s \in Nat /\ s <= end
    OBVIOUS
  <2> QED BY <2>1, AfterIs
<1>6. ASSUME NEW f
      PROVE  Is(f, N) <=> f = [s \in start..end |->
               LET size == Size[Prefix(s, end)]
               IN  {<<s, Prefix(s, end)>>} \cup (IF size >= end - s + 1 THEN {} ELSE f[s + size])]
  <2>1. end - N = start
    OBVIOUS
  <2>2. \A s \in start..end : Rest(f, s) =
               LET size == Size[Prefix(s, end)]
               IN  {<<s, Prefix(s, end)>>} \cup (IF size >= end - s + 1 THEN {} ELSE f[s + size])
    BY <1>5 DEF FirstBlock, After
  <2> QED BY <2>1, <2>2
<1>7. Is(From(start, end), N)
  <2>1. \E f : f = [s \in start..end |->
               LET size == Size[Prefix(s, end)]
               IN  {<<s, Prefix(s, end)>>} \cup (IF size >= end - s + 1 THEN {} ELSE f[s + size])]
    <3> HIDE DEF Is
    <3> QED BY <1>4, <1>6
  <2>2. From(start, end) = [s \in start..end |->
               LET size == Size[Prefix(s, end)]
               IN  {<<s, Prefix(s, end)>>} \cup (IF size >= end - s + 1 THEN {}
                                                ELSE From(start, end)[s + size])]
    BY <2>1 DEF From
  <2> HIDE DEF Is
  <2> QED BY <2>2, <1>6
<1>8. Blocks(start, end) = From(start, end)[start]
  BY DEF Blocks, From
<1>9. \A s \in start..end : From(start, end)[s] = Rest(From(start, end), s)
  <2>1. end - N = start
    OBVIOUS
  <2> HIDE DEF Rest, N
  <2> QED BY <1>7, <2>1
<1> QED BY <1>8, <1>9
-----------------------------------------------------------------------------
(* What blocks from s to the end should be: blocks that may begin where they do,  *)
(* between the two; every address in one of them; no two of them with an address  *)
(* in common; and every block between the two within one of them.                 *)
Past(b) == b[1] + Size[b[2]]
Placed(B, s, end) ==
  \A b \in B : /\ b[1] \in Nat /\ b[2] \in 0..W /\ b = <<b[1], b[2]>>
               /\ s <= b[1] /\ Aligned(b[1], b[2]) /\ Past(b) <= end + 1
Filling(B, s, end) == \A x \in s..end : \E b \in B : b[1] <= x /\ x < Past(b)
Apart(B) == \A b, c \in B : b # c => Past(b) <= c[1] \/ Past(c) <= b[1]
Largest(B, s, end) ==
  \A v \in Nat, len \in 0..W : s <= v /\ Aligned(v, len) /\ v + Size[len] <= end + 1 =>
    \E b \in B : b[1] <= v /\ v + Size[len] <= Past(b)
Split(B, s, end) ==
  Placed(B, s, end) /\ Filling(B, s, end) /\ Apart(B) /\ Largest(B, s, end)

LEMMA NothingLeft ==
  ASSUME NEW end \in Nat
  PROVE  Split({}, end + 1, end)
<1>1. Filling({}, end + 1, end)
  BY DEF Filling
<1>2. Largest({}, end + 1, end)
  BY SizePositive DEF Largest
<1> QED BY <1>1, <1>2 DEF Split, Placed, Apart

(* A block before those of the rest. *)
LEMMA OneMoreBlock ==
  ASSUME NEW s \in Nat, NEW end \in Nat, s <= end, NEW B, Split(B, After(s, end), end)
  PROVE  Split(FirstBlock(s, end) \cup B, s, end)
<1> DEFINE p == Prefix(s, end)
           t == After(s, end)
           f == <<s, p>>
           C == FirstBlock(s, end) \cup B
<1>1. /\ p \in 0..W /\ Aligned(s, p)
      /\ \A len \in 0..W : Aligned(s, len) /\ s + Size[len] <= end + 1 => p <= len
  BY PrefixIs
<1>2. t \in Nat /\ s < t /\ t <= end + 1
  BY AfterIs
<1>3. t = s + Size[p] /\ Past(f) = t /\ f[1] = s /\ f[2] = p
  BY DEF After, Past
<1>4. \A b : b \in C <=> b = f \/ b \in B
  BY DEF FirstBlock
<1>5. Placed(B, t, end) /\ Filling(B, t, end) /\ Apart(B) /\ Largest(B, t, end)
  BY DEF Split
<1>0. f = <<f[1], f[2]>>
  OBVIOUS
<1> HIDE DEF p, t, f, C
<1>6. Placed(C, s, end)
  <2>1. ASSUME NEW b \in B
        PROVE  /\ b[1] \in Nat /\ b[2] \in 0..W /\ b = <<b[1], b[2]>>
               /\ s <= b[1] /\ Aligned(b[1], b[2]) /\ Past(b) <= end + 1
    BY <1>2, <1>5 DEF Placed
  <2>2. /\ f[1] \in Nat /\ f[2] \in 0..W /\ f = <<f[1], f[2]>>
        /\ s <= f[1] /\ Aligned(f[1], f[2]) /\ Past(f) <= end + 1
    BY <1>0, <1>1, <1>2, <1>3
  <2> QED BY <2>1, <2>2, <1>4 DEF Placed
<1>7. Filling(C, s, end)
  <2> SUFFICES ASSUME NEW x \in s..end PROVE \E b \in C : b[1] <= x /\ x < Past(b)
    BY DEF Filling
  <2>1. CASE x < t
    <3>1. f \in C /\ f[1] <= x /\ x < Past(f)
      BY <1>3, <1>4, <2>1
    <3> QED BY <3>1
  <2>2. CASE x \in t..end
    BY <1>4, <1>5, <2>2 DEF Filling
  <2> QED BY <1>2, <2>1, <2>2
<1>8. Apart(C)
  <2>1. ASSUME NEW b \in B PROVE Past(f) <= b[1]
    BY <1>3, <1>5, <2>1 DEF Placed
  <2>2. ASSUME NEW b \in C, NEW c \in C, b # c PROVE Past(b) <= c[1] \/ Past(c) <= b[1]
    BY <1>4, <1>5, <2>1, <2>2 DEF Apart
  <2> QED BY <2>2 DEF Apart
<1>9. Largest(C, s, end)
  <2> SUFFICES ASSUME NEW v \in Nat, NEW len \in 0..W,
                      s <= v, Aligned(v, len), v + Size[len] <= end + 1
               PROVE  \E b \in C : b[1] <= v /\ v + Size[len] <= Past(b)
    BY DEF Largest
  <2>0. Size[len] \in Nat \ {0} /\ Size[p] \in Nat \ {0}
    BY <1>1, SizePositive
  <2>1. ASSUME v + Size[len] <= t PROVE \E b \in C : b[1] <= v /\ v + Size[len] <= Past(b)
    BY <1>3, <1>4, <2>1
  <2>2. CASE t <= v
    BY <1>4, <1>5, <2>2 DEF Largest
  <2>3. CASE v = s
    <3>1. p <= len
      BY <1>1, <2>3
    <3>2. p \in 0..len
      BY <1>1, <3>1
    <3>3. Size[len] <= Size[p]
      BY <3>2, SizeOrder
    <3> QED BY <1>3, <2>0, <2>1, <2>3, <3>3
  <2>4. CASE s < v /\ v < t
    <3>1. Aligned(t, p)
      BY <1>1, <1>3, AlignedNext
    <3>2. CASE p \in 0..len
      <4>1. Aligned(t, len)
        BY <1>2, <3>1, <3>2, AlignedToo
      <4>2. v + Size[len] <= t
        BY <1>2, <2>4, <4>1, AlignedApart
      <4> QED BY <2>1, <4>2
    <3>3. CASE len \in 0..p
      <4>1. Aligned(v, p)
        BY <1>1, <3>3, AlignedToo
      <4>2. s + Size[p] <= v
        BY <1>1, <2>4, <4>1, AlignedApart
      <4> QED BY <1>2, <1>3, <2>0, <2>4, <4>2
    <3>4. p \in 0..len \/ len \in 0..p
      BY <1>1, WAssumption
    <3> QED BY <3>2, <3>3, <3>4
  <2> QED BY <1>2, <2>2, <2>3, <2>4
<1> QED BY <1>6, <1>7, <1>8, <1>9 DEF Split, C

(* Blocks splits a range into the largest blocks there are. *)
LEMMA BlocksAre ==
  ASSUME NEW start \in Nat, NEW end \in Nat, start <= end
  PROVE  Split(Blocks(start, end), start, end)
<1> DEFINE N == end - start
           F == From(start, end)
           S == {m \in 0..N : \A s \in start..end : end - m <= s => Split(F[s], s, end)}
<1>0. N \in Nat
  OBVIOUS
<1>1. ASSUME NEW s \in start..end,
             After(s, end) = end + 1 \/ Split(F[After(s, end)], After(s, end), end)
      PROVE  Split(F[s], s, end)
  <2> DEFINE t == After(s, end)
             B == IF t = end + 1 THEN {} ELSE F[t]
  <2>1. s \in Nat /\ s <= end
    OBVIOUS
  <2>2. F[s] = FirstBlock(s, end) \cup B
    BY FromIs
  <2>3. Split(B, t, end)
    <3>1. CASE t = end + 1
      BY <3>1, NothingLeft
    <3>2. CASE t # end + 1
      BY <1>1, <3>2
    <3> QED BY <3>1, <3>2
  <2> HIDE DEF B, F
  <2>4. Split(FirstBlock(s, end) \cup B, s, end)
    BY <2>1, <2>3, OneMoreBlock
  <2> QED BY <2>2, <2>4
<1> HIDE DEF F
<1>2. ASSUME NEW s \in start..end
      PROVE  After(s, end) \in Nat /\ s < After(s, end) /\ After(s, end) <= end + 1
  <2>1. s \in Nat /\ s <= end
    BY <1>2
  <2> QED BY <2>1, AfterIs
<1>3. 0 \in S
  <2>1. ASSUME NEW s \in start..end, end - 0 <= s PROVE Split(F[s], s, end)
    <3>1. After(s, end) = end + 1
      BY <1>2, <2>1
    <3> QED BY <1>1, <3>1
  <2> QED BY <1>0, <2>1
<1>4. ASSUME NEW m \in 0..N, m \in S, m # N PROVE m + 1 \in S
  <2>1. ASSUME NEW s \in start..end, end - (m + 1) <= s PROVE Split(F[s], s, end)
    <3>1. After(s, end) \in Nat /\ s < After(s, end) /\ After(s, end) <= end + 1
      BY <1>2
    <3>2. CASE After(s, end) = end + 1
      BY <1>1, <3>2
    <3>3. CASE After(s, end) # end + 1
      <4>1. After(s, end) \in start..end /\ end - m <= After(s, end)
        BY <2>1, <3>1, <3>3, <1>0
      <4>2. Split(F[After(s, end)], After(s, end), end)
        BY <1>4, <4>1
      <4> QED BY <1>1, <4>2
    <3> QED BY <3>2, <3>3
  <2>2. m + 1 \in 0..N
    BY <1>0, <1>4
  <2> QED BY <2>1, <2>2
<1>5. \A m \in 0..N : m \in S
  <2> HIDE DEF S, N
  <2> QED BY <1>0, <1>3, <1>4, UpTo
<1>6. N \in 0..N /\ start \in start..end /\ end - N <= start
  OBVIOUS
<1>7. Split(F[start], start, end)
  <2>1. N \in S
    BY <1>5, <1>6
  <2> QED BY <1>6, <2>1
<1> QED BY <1>7, FromIs DEF F
-----------------------------------------------------------------------------
(* The ranges of CIDRs.  Their order is that of a single number. *)
IPRange == [start : Address, end : Address]
Key(r) == r.start * Size[0] + r.end

LEMMA KeyIs ==
  ASSUME NEW r \in IPRange, NEW s \in IPRange
  PROVE  /\ Key(r) \in 0..Size[0] * Size[0]
         /\ Key(r) = Key(s) => r = s
         /\ Precedes(r, s) <=> Key(r) < Key(s)
<1> DEFINE n == Size[0]
           a == r.start
           b == r.end
           c == s.start
           d == s.end
<1>0. n \in Nat \ {0} /\ Address = 0..n - 1
  BY Everything DEF Address
<1>1. /\ a \in 0..n - 1 /\ b \in 0..n - 1 /\ c \in 0..n - 1 /\ d \in 0..n - 1
      /\ r = [start |-> a, end |-> b] /\ s = [start |-> c, end |-> d]
      /\ Key(r) = a * n + b /\ Key(s) = c * n + d
      /\ Precedes(r, s) <=> a < c \/ (a = c /\ b < d)
  BY <1>0 DEF IPRange, Key, Precedes
<1> HIDE DEF n, a, b, c, d
<1>2. /\ a \in Nat /\ b \in Nat /\ c \in Nat /\ d \in Nat /\ n \in Nat
      /\ a * n \in Nat /\ c * n \in Nat /\ n * n \in Nat
      /\ a < n /\ b < n /\ c < n /\ d < n
  BY <1>0, <1>1
<1>3. a * n + n <= n * n
  BY <1>2, Multiples
<1>4. a < c => a * n + n <= c * n
  BY <1>2, Multiples
<1>5. c < a => c * n + n <= a * n
  BY <1>2, Multiples
<1>6. a * n + b = c * n + d => a = c /\ b = d
  BY <1>0, <1>1, <1>2, Remainder
<1>7. (a < c \/ (a = c /\ b < d)) <=> a * n + b < c * n + d
  BY <1>2, <1>4, <1>5
<1>8. a * n + b \in 0..n * n
  BY <1>2, <1>3
<1> QED BY <1>1, <1>6, <1>7, <1>8 DEF n

LEMMA FiniteRanges ==
  ASSUME NEW S \in SUBSET IPRange
  PROVE  IsFiniteSet(S) /\ Cardinality(S) \in Nat
<1> DEFINE T == 0..Size[0] * Size[0]
           f == [r \in S |-> Key(r)]
<1>1. IsFiniteSet(T)
  <2>1. 0 \in Int /\ Size[0] * Size[0] \in Int
    BY Everything
  <2> QED BY <2>1, FS_Interval
<1>2. \A r \in S : Key(r) \in T
  BY KeyIs
<1>3. \A r, s \in S : Key(r) = Key(s) => r = s
  BY KeyIs
<1> HIDE DEF T
<1>4. f \in Injection(S, T)
  BY <1>2, <1>3 DEF Injection, IsInjective
<1>5. IsFiniteSet(S)
  <2> HIDE DEF f
  <2> QED BY <1>1, <1>4, FS_Injection
<1> QED BY <1>5, FS_CardinalityType

(* How many ranges come before one. *)
Rank(S, r) == Cardinality({s \in S : Precedes(s, r)})

LEMMA RankIs ==
  ASSUME NEW S \in SUBSET IPRange, NEW r \in S
  PROVE  /\ Rank(S, r) \in 0..Cardinality(S) - 1
         /\ \A q \in S : Precedes(r, q) => Rank(S, r) < Rank(S, q)
<1> DEFINE Before(q) == {s \in S : Precedes(s, q)}
<1>0. /\ \A q \in S : Key(q) \in Int
      /\ \A q, s \in S : Precedes(q, s) <=> Key(q) < Key(s)
  BY KeyIs
<1>1. \A q \in S : Rank(S, q) = Cardinality(Before(q))
  BY DEF Rank
<1>2. ASSUME NEW q \in S, NEW A, IsFiniteSet(A), q \in A, NEW B \in SUBSET A, q \notin B
      PROVE  Cardinality(B) < Cardinality(A)
  <2>1. IsFiniteSet(A \ {q}) /\ Cardinality(A \ {q}) = Cardinality(A) - 1
    BY <1>2, FS_RemoveElement
  <2>2. B \in SUBSET (A \ {q})
    BY <1>2
  <2>3. Cardinality(B) <= Cardinality(A \ {q}) /\ IsFiniteSet(B)
    BY <2>1, <2>2, FS_Subset
  <2>4. Cardinality(A) \in Nat /\ Cardinality(B) \in Nat
    BY <1>2, <2>3, FS_CardinalityType
  <2> QED BY <2>1, <2>3, <2>4
<1>3. IsFiniteSet(S) /\ Cardinality(S) \in Nat
  BY FiniteRanges
<1>4. ASSUME NEW q \in S
      PROVE  IsFiniteSet(Before(q)) /\ Cardinality(Before(q)) \in Nat /\ q \notin Before(q)
  <2>1. Before(q) \in SUBSET S
    OBVIOUS
  <2>2. IsFiniteSet(Before(q))
    BY <1>3, <2>1, FS_Subset
  <2> QED BY <1>0, <2>2, FS_CardinalityType
<1>5. Cardinality(Before(r)) < Cardinality(S)
  <2>1. Before(r) \in SUBSET S
    OBVIOUS
  <2> HIDE DEF Before
  <2> QED BY <1>2, <1>3, <1>4, <2>1
<1>6. ASSUME NEW q \in S, Precedes(r, q) PROVE Cardinality(Before(r)) < Cardinality(Before(q))
  <2>1. r \in Before(q)
    BY <1>6
  <2>2. Before(r) \in SUBSET Before(q)
    BY <1>0, <1>6
  <2> HIDE DEF Before
  <2> QED BY <1>2, <1>4, <2>1, <2>2
<1> HIDE DEF Before
<1> QED BY <1>1, <1>3, <1>4, <1>5, <1>6

(* Sorted is the list of all the ranges, in the order of where they begin. *)
LEMMA SortedIs ==
  ASSUME NEW S \in SUBSET IPRange
  PROVE  /\ Cardinality(S) \in Nat /\ Sorted(S) \in Seq(S) /\ Len(Sorted(S)) = Cardinality(S)
         /\ \A r \in S : \E k \in 1..Cardinality(S) : Sorted(S)[k] = r
         /\ \A i, j \in 1..Cardinality(S) : i < j => Sorted(S)[i].start <= Sorted(S)[j].start
<1> DEFINE n == Cardinality(S)
           f == [r \in S |-> Rank(S, r)]
           L == Sorted(S)
<1>0. n \in Nat /\ IsFiniteSet(S)
  BY FiniteRanges
<1>1. \A r \in S : Rank(S, r) \in 0..n - 1 /\ Rank(S, r) \in Nat
  BY RankIs, <1>0
<1>2. \A r, q \in S : Precedes(r, q) \/ Precedes(q, r) \/ r = q
  BY KeyIs
<1>3. \A r, q \in S : Precedes(r, q) => Rank(S, r) < Rank(S, q)
  BY RankIs
<1>4. f \in Injection(S, 0..n - 1)
  <2>1. \A r, q \in S : Rank(S, r) = Rank(S, q) => r = q
    BY <1>1, <1>2, <1>3
  <2> HIDE DEF n
  <2> QED BY <1>1, <2>1 DEF Injection, IsInjective
<1>5. IsFiniteSet(0..n - 1) /\ Cardinality(0..n - 1) = n
  <2>1. 0 \in Int /\ n - 1 \in Int
    BY <1>0
  <2> HIDE DEF n
  <2> QED BY <1>0, <2>1, FS_Interval
<1>6. f \in Surjection(S, 0..n - 1)
  <2> HIDE DEF f
  <2> QED BY <1>4, <1>5, FS_Injection
<1>7. \A m \in 0..n - 1 : \E r \in S : Rank(S, r) = m
  <2> HIDE DEF n
  <2> QED BY <1>6 DEF Surjection
<1>8. L = [k \in 1..n |-> CHOOSE r \in S : Rank(S, r) = k - 1]
  BY DEF Sorted, Rank
<1> HIDE DEF n, f, L
<1>9. ASSUME NEW k \in 1..n PROVE L[k] \in S /\ Rank(S, L[k]) = k - 1
  <2>1. k - 1 \in 0..n - 1
    BY <1>0
  <2>2. \E r \in S : Rank(S, r) = k - 1
    BY <1>7, <2>1
  <2>3. L[k] = CHOOSE r \in S : Rank(S, r) = k - 1
    BY <1>8
  <2> QED BY <2>2, <2>3
<1>10. L \in Seq(S) /\ Len(L) = n
  <2>1. L \in [1..n -> S]
    BY <1>8, <1>9
  <2> QED BY <1>0, <2>1
<1>11. ASSUME NEW r \in S PROVE \E k \in 1..n : L[k] = r
  <2>1. PICK k \in 1..n : k - 1 = Rank(S, r)
    <3>1. Rank(S, r) + 1 \in 1..n /\ (Rank(S, r) + 1) - 1 = Rank(S, r)
      BY <1>0, <1>1
    <3> QED BY <3>1
  <2>2. L[k] \in S /\ Rank(S, L[k]) = Rank(S, r)
    BY <1>9, <2>1
  <2>3. L[k] = r
    BY <1>1, <1>2, <1>3, <2>2
  <2> QED BY <2>3
<1>12. ASSUME NEW i \in 1..n, NEW j \in 1..n, i < j PROVE L[i].start <= L[j].start
  <2>1. L[i] \in S /\ L[j] \in S /\ Rank(S, L[i]) < Rank(S, L[j])
    BY <1>0, <1>9, <1>12
  <2>2. Precedes(L[i], L[j])
    BY <1>1, <1>2, <1>3, <2>1
  <2>3. L[i].start \in Int /\ L[j].start \in Int
    BY <2>1, Everything DEF IPRange, Address
  <2> QED BY <2>2, <2>3 DEF Precedes
<1> QED BY <1>0, <1>10, <1>11, <1>12 DEF n, L
-----------------------------------------------------------------------------
(* Ranges that are not empty; an address in one of a list; ranges in order, with *)
(* an address between any two of them.                                           *)
Ranges == {r \in IPRange : r.start <= r.end}
Within(x, r) == r.start <= x /\ x <= r.end
InOne(x, list, k) == \E i \in 1..k : Within(x, list[i])
Parted(list) == \A i, j \in 1..Len(list) : i < j => list[i].end + 1 < list[j].start

LEMMA RangesAre ==
  ASSUME NEW r \in Ranges
  PROVE  /\ r = [start |-> r.start, end |-> r.end]
         /\ r.start \in Address /\ r.end \in Address
         /\ r.start \in Nat /\ r.end \in Nat /\ r.start <= r.end
  BY Everything DEF Ranges, IPRange, Address

(* One more range, that begins no earlier than the last one. *)
LEMMA MergeIs ==
  ASSUME NEW m \in Seq(Ranges), Parted(m), NEW r \in Ranges,
         m # <<>> => m[Len(m)].start <= r.start
  PROVE  /\ Merge(m, r) \in Seq(Ranges) /\ Parted(Merge(m, r))
         /\ Merge(m, r) # <<>> /\ Merge(m, r)[Len(Merge(m, r))].start <= r.start
         /\ \A x \in Nat : InOne(x, Merge(m, r), Len(Merge(m, r)))
                             <=> InOne(x, m, Len(m)) \/ Within(x, r)
<1> DEFINE n == Merge(m, r)
           N == Len(m)
           l == m[N]
<1>0. /\ N \in Nat /\ r.start \in Nat /\ r.end \in Nat /\ r.start <= r.end
      /\ \A i \in 1..N : /\ m[i] \in Ranges /\ m[i].start \in Nat /\ m[i].end \in Nat
                         /\ m[i].start <= m[i].end
  BY RangesAre
<1>1. CASE m # <<>> /\ r.start <= l.end + 1
  <2> DEFINE e == IF r.end > l.end THEN r.end ELSE l.end
             q == [start |-> l.start, end |-> e]
  <2>1. N \in 1..N /\ l \in Ranges /\ l.start <= r.start
    BY <1>0, <1>1
  <2>2. l = [start |-> l.start, end |-> l.end]
    BY <2>1, RangesAre
  <2>3. n = [m EXCEPT ![N] = q]
    <3>1. n = [m EXCEPT ![N].end = IF r.end > @ THEN r.end ELSE @]
      BY <1>1 DEF Merge, Last
    <3>2. [l EXCEPT !.end = e] = q
      BY <2>2
    <3> QED BY <3>1, <3>2
  <2>4. q \in Ranges
    BY <1>0, <2>1, RangesAre DEF Ranges, IPRange
  <2>5. /\ n \in Seq(Ranges) /\ Len(n) = N /\ n[N] = q
        /\ \A i \in 1..N : i # N => n[i] = m[i]
    <3> HIDE DEF q
    <3> QED BY <2>1, <2>3, <2>4, ExceptSeq
  <2>6. q.start = l.start /\ q.end = e
    OBVIOUS
  <2>7. e \in Nat /\ l.end <= e /\ r.end <= e /\ (e = l.end \/ e = r.end)
    BY <1>0, <2>1
  <2> HIDE DEF q, e, n
  <2>8. ASSUME NEW i \in 1..N, NEW j \in 1..N, i < j PROVE n[i].end + 1 < n[j].start
    <3>1. i # N /\ n[i] = m[i] /\ m[i].end + 1 < m[j].start
      BY <1>0, <2>5, <2>8 DEF Parted
    <3>2. n[j].start = m[j].start
      BY <2>5, <2>6
    <3> QED BY <3>1, <3>2
  <2>9. ASSUME NEW x \in Nat PROVE Within(x, q) <=> Within(x, l) \/ Within(x, r)
    <3>1. l.start \in Nat /\ l.end \in Nat /\ r.start <= l.end + 1 /\ l.start <= r.start
      BY <1>0, <1>1, <2>1
    <3> QED BY <1>0, <3>1, <2>6, <2>7 DEF Within
  <2>10. ASSUME NEW x \in Nat
         PROVE  InOne(x, n, N) <=> InOne(x, m, N) \/ Within(x, r)
    <3>1. ASSUME InOne(x, n, N) PROVE InOne(x, m, N) \/ Within(x, r)
      <4>1. PICK i \in 1..N : Within(x, n[i])
        BY <3>1 DEF InOne
      <4>2. CASE i = N
        BY <2>1, <2>5, <2>9, <4>1, <4>2 DEF InOne
      <4>3. CASE i # N
        BY <2>5, <4>1, <4>3 DEF InOne
      <4> QED BY <4>2, <4>3
    <3>2. ASSUME InOne(x, m, N) PROVE InOne(x, n, N)
      <4>1. PICK i \in 1..N : Within(x, m[i])
        BY <3>2 DEF InOne
      <4>2. CASE i = N
        BY <2>1, <2>5, <2>9, <4>1, <4>2 DEF InOne
      <4>3. CASE i # N
        BY <2>5, <4>1, <4>3 DEF InOne
      <4> QED BY <4>2, <4>3
    <3>3. ASSUME Within(x, r) PROVE InOne(x, n, N)
      BY <2>1, <2>5, <2>9, <3>3 DEF InOne
    <3> QED BY <3>1, <3>2, <3>3
  <2>11. Parted(n)
    BY <2>5, <2>8 DEF Parted
  <2>12. n # <<>> /\ n[Len(n)].start <= r.start
    BY <2>1, <2>5, <2>6
  <2> QED BY <2>5, <2>10, <2>11, <2>12 DEF n
<1>2. CASE ~(m # <<>> /\ r.start <= l.end + 1)
  <2>1. n = Append(m, r)
    BY <1>2 DEF Merge, Last
  <2>2. /\ n \in Seq(Ranges) /\ Len(n) = N + 1 /\ n[N + 1] = r
        /\ \A i \in 1..N : n[i] = m[i]
    BY <2>1, AppendProperties
  <2>3. ASSUME NEW i \in 1..N PROVE m[i].end + 1 < r.start
    <3>1. N \in 1..N /\ m # <<>> /\ l.end + 1 < r.start
      BY <1>0, <1>2, <2>3
    <3>2. CASE i = N
      BY <3>1, <3>2
    <3>3. CASE i # N
      <4>1. m[i].end + 1 < l.start
        BY <1>0, <2>3, <3>1, <3>3 DEF Parted
      <4>2. l.start \in Nat /\ l.end \in Nat /\ l.start <= l.end /\ m[i].end \in Nat
        BY <1>0, <3>1
      <4> QED BY <1>0, <3>1, <4>1, <4>2
    <3> QED BY <3>2, <3>3
  <2> HIDE DEF n
  <2>4. ASSUME NEW i \in 1..N + 1, NEW j \in 1..N + 1, i < j PROVE n[i].end + 1 < n[j].start
    <3>1. i \in 1..N /\ n[i] = m[i]
      BY <1>0, <2>2, <2>4
    <3>2. CASE j = N + 1
      BY <2>2, <2>3, <3>1, <3>2
    <3>3. CASE j \in 1..N
      BY <2>2, <2>4, <3>1, <3>3 DEF Parted
    <3> QED BY <1>0, <3>2, <3>3
  <2>5. ASSUME NEW x \in Nat
        PROVE  InOne(x, n, N + 1) <=> InOne(x, m, N) \/ Within(x, r)
    <3>1. N + 1 \in 1..N + 1 /\ 1..N + 1 = 1..N \cup {N + 1}
      BY <1>0
    <3> QED BY <2>2, <3>1 DEF InOne
  <2>6. Parted(n)
    BY <2>2, <2>4 DEF Parted
  <2>7. n # <<>> /\ n[Len(n)].start <= r.start
    BY <1>0, <2>2
  <2> QED BY <2>2, <2>5, <2>6, <2>7 DEF n
<1> QED BY <1>1, <1>2
-----------------------------------------------------------------------------
(* The recursive function inside Merged: the ranges merged as far as k. *)
MergedSoFar(list) ==
  CHOOSE merged : merged = [k \in 0..Len(list) |->
    IF k = 0 THEN <<>> ELSE Merge(merged[k - 1], list[k])]

LEMMA MergedExists ==
  ASSUME NEW list, Len(list) \in Nat
  PROVE  /\ MergedSoFar(list)[0] = <<>>
         /\ \A k \in 0..Len(list) : k # Len(list) =>
              MergedSoFar(list)[k + 1] = Merge(MergedSoFar(list)[k], list[k + 1])
<1> DEFINE N == Len(list)
           Is(g, m) == g = [k \in 0..m |-> IF k = 0 THEN <<>> ELSE Merge(g[k - 1], list[k])]
           S == {m \in 0..N : \E g : Is(g, m)}
<1>1. 0 \in S
  <2>1. Is([k \in 0..0 |-> <<>>], 0)
    OBVIOUS
  <2> HIDE DEF Is
  <2>2. \E g : Is(g, 0)
    BY <2>1
  <2> QED BY <2>2
<1>2. ASSUME NEW m \in 0..N, m \in S, m # N PROVE m + 1 \in S
  <2>1. PICK g : Is(g, m)
    BY <1>2
  <2> DEFINE h == [k \in 0..m + 1 |-> IF k = m + 1 THEN Merge(g[m], list[m + 1]) ELSE g[k]]
  <2>2. ASSUME NEW k \in 0..m + 1
        PROVE  h[k] = IF k = 0 THEN <<>> ELSE Merge(h[k - 1], list[k])
    <3>1. CASE k = m + 1
      <4>1. h[k] = Merge(g[m], list[m + 1])
        BY <3>1
      <4>2. k # 0 /\ k - 1 = m /\ h[k - 1] = g[m]
        BY <3>1
      <4> QED BY <4>1, <4>2, <3>1
    <3>2. CASE k \in 0..m
      <4>1. g[k] = IF k = 0 THEN <<>> ELSE Merge(g[k - 1], list[k])
        BY <2>1, <3>2
      <4>2. h[k] = g[k] /\ (k # 0 => h[k - 1] = g[k - 1])
        BY <3>2
      <4> QED BY <4>1, <4>2
    <3> QED BY <3>1, <3>2
  <2>3. h = [k \in 0..m + 1 |-> h[k]]
    OBVIOUS
  <2> HIDE DEF h
  <2>4. Is(h, m + 1)
    BY <2>2, <2>3
  <2> HIDE DEF Is
  <2>5. \E f : Is(f, m + 1)
    BY <2>4
  <2> QED BY <2>5, <1>2
<1>3. \A m \in 0..N : m \in S
  <2> HIDE DEF S
  <2> QED BY <1>1, <1>2, UpTo
<1>4. PICK g : Is(g, N)
  <2>1. N \in 0..N
    OBVIOUS
  <2> QED BY <1>3, <2>1
<1>5. Is(MergedSoFar(list), N)
  BY <1>4 DEF MergedSoFar
<1> DEFINE M == MergedSoFar(list)
<1>6. \A k \in 0..N : M[k] = IF k = 0 THEN <<>> ELSE Merge(M[k - 1], list[k])
  BY <1>5
<1> HIDE DEF M
<1>7. M[0] = <<>>
  BY <1>6
<1>8. ASSUME NEW k \in 0..N, k # N PROVE M[k + 1] = Merge(M[k], list[k + 1])
  <2>1. k + 1 \in 0..N /\ k + 1 # 0 /\ (k + 1) - 1 = k
    BY <1>8
  <2>2. M[k + 1] = IF k + 1 = 0 THEN <<>> ELSE Merge(M[(k + 1) - 1], list[k + 1])
    BY <2>1, <1>6
  <2> QED BY <2>1, <2>2
<1> QED BY <1>7, <1>8 DEF M

(* Merged is ranges in order, an address between any two, for the same addresses. *)
LEMMA MergedIs ==
  ASSUME NEW S \in SUBSET Ranges
  PROVE  /\ Merged(S) \in Seq(Ranges) /\ Parted(Merged(S))
         /\ \A x \in Nat : InOne(x, Merged(S), Len(Merged(S))) <=> \E r \in S : Within(x, r)
<1> DEFINE L == Sorted(S)
           N == Len(L)
           M == MergedSoFar(L)
           Right(m, k) == /\ m \in Seq(Ranges) /\ Parted(m)
                          /\ k > 0 => m # <<>> /\ m[Len(m)].start <= L[k].start
                          /\ k = 0 => m = <<>>
                          /\ \A x \in Nat : InOne(x, m, Len(m)) <=> InOne(x, L, k)
           T == {k \in 0..N : Right(M[k], k)}
<1>0. /\ N \in Nat /\ L \in Seq(S)
      /\ \A r \in S : \E k \in 1..N : L[k] = r
      /\ \A i, j \in 1..N : i < j => L[i].start <= L[j].start
  <2>1. S \in SUBSET IPRange
    BY DEF Ranges
  <2> QED BY <2>1, SortedIs
<1>1. \A k \in 1..N : L[k] \in S /\ L[k] \in Ranges /\ L[k].start \in Nat
  <2>1. \A k \in 1..N : L[k] \in S
    BY <1>0
  <2> QED BY <2>1, RangesAre
<1>2. Merged(S) = M[N]
  BY DEF Merged, MergedSoFar
<1>3. M[0] = <<>> /\ \A k \in 0..N : k # N => M[k + 1] = Merge(M[k], L[k + 1])
  BY <1>0, MergedExists
<1> HIDE DEF M, L
<1>4. 0 \in T
  <2>1. Right(<<>>, 0)
    <3>1. <<>> \in Seq(Ranges) /\ Parted(<<>>)
      BY DEF Parted
    <3>2. ASSUME NEW x \in Nat PROVE ~InOne(x, <<>>, Len(<<>>)) /\ ~InOne(x, L, 0)
      BY DEF InOne
    <3> QED BY <3>1, <3>2
  <2> HIDE DEF Right
  <2> QED BY <1>0, <1>3, <2>1
<1>5. ASSUME NEW k \in 0..N, k \in T, k # N PROVE k + 1 \in T
  <2> DEFINE m == M[k]
             r == L[k + 1]
             n == Merge(m, r)
  <2>1. k + 1 \in 1..N /\ Right(m, k) /\ M[k + 1] = n
    BY <1>0, <1>3, <1>5
  <2>2. r \in Ranges /\ r.start \in Nat
    BY <1>1, <2>1
  <2>3. ASSUME m # <<>> PROVE m[Len(m)].start <= r.start
    <3>1. k # 0 /\ k \in 1..N
      BY <1>0, <1>5, <2>1, <2>3
    <3>2. m[Len(m)].start <= L[k].start
      BY <2>1, <2>3, <3>1
    <3>3. L[k].start <= r.start
      <4>1. k \in 1..N /\ k + 1 \in 1..N /\ k < k + 1
        BY <1>0, <2>1, <3>1
      <4> HIDE DEF N
      <4> QED BY <1>0, <4>1
    <3>4. Len(m) \in 1..Len(m) /\ m[Len(m)] \in Ranges
      BY <2>1, <2>3
    <3>5. m[Len(m)].start \in Nat
      BY <3>4, RangesAre
    <3> QED BY <1>1, <2>2, <3>1, <3>2, <3>3, <3>5
  <2>4. m \in Seq(Ranges) /\ Parted(m)
    BY <2>1
  <2> HIDE DEF m, r
  <2>5. /\ n \in Seq(Ranges) /\ Parted(n) /\ n # <<>> /\ n[Len(n)].start <= r.start
        /\ \A x \in Nat : InOne(x, n, Len(n)) <=> InOne(x, m, Len(m)) \/ Within(x, r)
    BY <2>2, <2>3, <2>4, MergeIs
  <2> HIDE DEF n
  <2>6. ASSUME NEW x \in Nat
        PROVE  InOne(x, L, k + 1) <=> InOne(x, L, k) \/ Within(x, r)
    <3>0. k \in Nat
      BY <1>0, <1>5
    <3>1. 1..k + 1 = 1..k \cup {k + 1}
      BY <3>0
    <3> QED BY <3>1 DEF InOne, r
  <2>7. \A x \in Nat : InOne(x, m, Len(m)) <=> InOne(x, L, k)
    BY <2>1 DEF m
  <2>8. Right(n, k + 1)
    <3>1. k + 1 > 0 /\ k + 1 # 0
      BY <1>0, <1>5
    <3> QED BY <3>1, <2>5, <2>6, <2>7 DEF r
  <2> HIDE DEF Right
  <2> QED BY <2>1, <2>8
<1>6. \A k \in 0..N : k \in T
  <2> HIDE DEF T, N
  <2> QED BY <1>0, <1>4, <1>5, UpTo
<1>7. Right(M[N], N)
  <2>1. N \in T
    BY <1>0, <1>6
  <2> QED BY <2>1
<1>8. ASSUME NEW x \in Nat PROVE InOne(x, L, N) <=> \E r \in S : Within(x, r)
  BY <1>0, <1>1 DEF InOne
<1> QED BY <1>2, <1>7, <1>8
-----------------------------------------------------------------------------
(* Where one of the ranges begins and ends, there is an address in none of them. *)
LEMMA RangeEnds ==
  ASSUME NEW m \in Seq(Ranges), Parted(m), NEW i \in 1..Len(m), NEW x \in Nat,
         x + 1 = m[i].start \/ x = m[i].end + 1
  PROVE  ~InOne(x, m, Len(m))
<1> SUFFICES ASSUME NEW j \in 1..Len(m), Within(x, m[j]) PROVE FALSE
  BY DEF InOne
<1>1. \A k \in 1..Len(m) : /\ m[k] \in Ranges /\ m[k].start \in Nat /\ m[k].end \in Nat
                           /\ m[k].start <= m[k].end
  BY RangesAre
<1>2. m[j].start <= x /\ x <= m[j].end
  BY DEF Within
<1>3. CASE i = j
  BY <1>1, <1>2, <1>3
<1>4. CASE i < j
  <2>1. m[i].end + 1 < m[j].start
    BY <1>4 DEF Parted
  <2> QED BY <1>1, <1>2, <2>1
<1>5. CASE j < i
  <2>1. m[j].end + 1 < m[i].start
    BY <1>5 DEF Parted
  <2> QED BY <1>1, <1>2, <2>1
<1> QED BY <1>3, <1>4, <1>5

(* A CIDR as a block, and made of one of the blocks of a range. *)
Block(c) == <<c.addr, c.len>>
MadeOf(c, r) == c = Cidr(c.addr, c.len) /\ Block(c) \in Blocks(r.start, r.end)

LEMMA MadeIs ==
  ASSUME NEW r \in Ranges, NEW c, MadeOf(c, r)
  PROVE  /\ c \in Net /\ c.addr \in Nat /\ Size[c.len] \in Nat \ {0}
         /\ Past(Block(c)) = c.addr + Size[c.len]
         /\ r.start <= c.addr /\ Past(Block(c)) <= r.end + 1
<1> DEFINE b == Block(c)
<1>1. Split(Blocks(r.start, r.end), r.start, r.end) /\ r.end \in Address /\ r.end \in Nat
  BY RangesAre, BlocksAre
<1>2. /\ b[1] \in Nat /\ b[2] \in 0..W
      /\ r.start <= b[1] /\ Aligned(b[1], b[2]) /\ Past(b) <= r.end + 1
  BY <1>1 DEF MadeOf, Split, Placed
<1>3. b[1] = c.addr /\ b[2] = c.len
  BY DEF Block
<1> HIDE DEF b
<1>4. Size[c.len] \in Nat \ {0} /\ Past(b) = c.addr + Size[c.len]
  BY <1>2, <1>3, SizePositive DEF Past
<1>5. c.addr <= r.end
  BY <1>1, <1>2, <1>3, <1>4
<1>6. c.addr \in Address
  BY <1>1, <1>2, <1>3, <1>5, Everything DEF Address
<1>7. c = [kind |-> "cidr", addr |-> c.addr, len |-> c.len]
  BY DEF MadeOf, Cidr
<1>8. c \in Net
  BY <1>2, <1>3, <1>6, <1>7 DEF Net, Line
<1> QED BY <1>2, <1>3, <1>4, <1>8 DEF b

LEMMA RangeToCIDRsIs ==
  ASSUME NEW r \in Ranges, NEW c
  PROVE  c \in RangeToCIDRs(r.start, r.end) <=> MadeOf(c, r)
<1> DEFINE B == Blocks(r.start, r.end)
<1>1. Placed(B, r.start, r.end)
  BY RangesAre, BlocksAre DEF Split
<1>2. RangeToCIDRs(r.start, r.end) = {Cidr(b[1], b[2]) : b \in B}
  BY DEF RangeToCIDRs
<1> HIDE DEF B
<1>3. ASSUME NEW b \in B, c = Cidr(b[1], b[2]) PROVE c = Cidr(c.addr, c.len) /\ Block(c) \in B
  <2>1. b = <<b[1], b[2]>>
    BY <1>1 DEF Placed
  <2>2. c.addr = b[1] /\ c.len = b[2]
    BY <1>3 DEF Cidr
  <2> QED BY <1>3, <2>1, <2>2 DEF Block
<1>4. ASSUME c = Cidr(c.addr, c.len), Block(c) \in B
      PROVE  \E b \in B : c = Cidr(b[1], b[2])
  <2>1. Block(c)[1] = c.addr /\ Block(c)[2] = c.len
    BY DEF Block
  <2> QED BY <1>4, <2>1
<1> QED BY <1>2, <1>3, <1>4 DEF MadeOf, B

(* What normalising returns is made of the blocks of the merged ranges. *)
MergedOf(cidrs) == Merged({RangeOf(c) : c \in cidrs})

LEMMA OutIs ==
  ASSUME NEW cidrs \in SUBSET Net
  PROVE  /\ MergedOf(cidrs) \in Seq(Ranges) /\ Parted(MergedOf(cidrs))
         /\ \A x \in Nat : InOne(x, MergedOf(cidrs), Len(MergedOf(cidrs))) <=> x \in Covered(cidrs)
         /\ \A c : c \in NormalizeIPv4CIDRs(cidrs) <=>
                     \E i \in 1..Len(MergedOf(cidrs)) : MadeOf(c, MergedOf(cidrs)[i])
<1> DEFINE S == {RangeOf(c) : c \in cidrs}
           m == MergedOf(cidrs)
<1>1. ASSUME NEW c \in Net
      PROVE  /\ RangeOf(c) \in Ranges
             /\ \A x \in Nat : Within(x, RangeOf(c)) <=> x \in Addresses(c)
  <2> DEFINE e == c.addr + (Size[c.len] - 1)
  <2>1. /\ RangeOf(c) = [start |-> c.addr, end |-> e]
        /\ c.addr \in Address /\ e \in Address /\ c.addr <= e /\ Addresses(c) = c.addr..e
    BY RangeIs
  <2> HIDE DEF e
  <2>2. c.addr \in Nat /\ e \in Nat
    BY <2>1, Everything DEF Address
  <2>3. RangeOf(c).start = c.addr /\ RangeOf(c).end = e
    BY <2>1
  <2> QED BY <2>1, <2>2, <2>3 DEF Ranges, IPRange, Within
<1>2. S \in SUBSET Ranges /\ m = Merged(S)
  BY <1>1 DEF MergedOf
<1>3. /\ m \in Seq(Ranges) /\ Parted(m)
      /\ \A x \in Nat : InOne(x, m, Len(m)) <=> \E r \in S : Within(x, r)
  <2> HIDE DEF S, m
  <2> QED BY <1>2, MergedIs
<1>4. ASSUME NEW x \in Nat PROVE (\E r \in S : Within(x, r)) <=> x \in Covered(cidrs)
  BY <1>1 DEF Covered
<1>5. NormalizeIPv4CIDRs(cidrs) = UNION {RangeToCIDRs(r.start, r.end) : r \in Range(m)}
  BY DEF NormalizeIPv4CIDRs, MergedOf
<1>6. \A r : r \in Range(m) <=> \E i \in 1..Len(m) : r = m[i]
  <2>1. DOMAIN m = 1..Len(m)
    BY <1>3
  <2> HIDE DEF m
  <2> QED BY <2>1 DEF Range
<1>7. ASSUME NEW c
      PROVE  c \in NormalizeIPv4CIDRs(cidrs) <=> \E i \in 1..Len(m) : MadeOf(c, m[i])
  <2>1. \A i \in 1..Len(m) : m[i] \in Ranges
    BY <1>3
  <2> HIDE DEF m
  <2>2. c \in NormalizeIPv4CIDRs(cidrs)
          <=> \E i \in 1..Len(m) : c \in RangeToCIDRs(m[i].start, m[i].end)
    BY <1>5, <1>6
  <2> QED BY <2>1, <2>2, RangeToCIDRsIs
<1> QED BY <1>3, <1>4, <1>7

(* A CIDR of the program is left as it is when it is parsed again; with a prefix *)
(* one bit shorter it is a block twice as large, around it.                      *)
LEMMA Reparsed ==
  ASSUME NEW c \in Net
  PROVE  ParseIPv4CIDR(c) = c
<1>1. c.len \in 0..W /\ c.addr \in Nat /\ c = [kind |-> "cidr", addr |-> c.addr, len |-> c.len]
  BY Everything DEF Net, Line, Address
<1>2. c.addr % Size[c.len] = 0
  BY DEF Net, Aligned
<1>3. c.addr - (c.addr % Size[c.len]) = c.addr
  BY <1>1, <1>2
<1> QED BY <1>1, <1>3 DEF ParseIPv4CIDR, Cidr

Wider(c) == ParseIPv4CIDR([c EXCEPT !.len = @ - 1])

LEMMA WiderIs ==
  ASSUME NEW c \in Net, c.len > 0
  PROVE  /\ Wider(c) \in Net /\ Wider(c).len = c.len - 1 /\ c.len - 1 \in 0..W
         /\ Wider(c).addr \in Nat /\ Size[c.len - 1] \in Nat \ {0}
         /\ Aligned(Wider(c).addr, c.len - 1)
         /\ Wider(c).addr <= c.addr /\ c.addr < Wider(c).addr + Size[c.len - 1]
         /\ \A x \in Nat : Wider(c).addr <= x /\ x < Wider(c).addr + Size[c.len - 1] =>
              x \in Addresses(Wider(c))
<1> DEFINE l == [kind |-> "cidr", addr |-> c.addr, len |-> c.len - 1]
           n == Size[c.len - 1]
           w == Wider(c)
<1>1. /\ c.len \in 0..W /\ c.addr \in Address /\ c.addr \in Nat
      /\ c = [kind |-> "cidr", addr |-> c.addr, len |-> c.len]
  BY Everything DEF Net, Line, Address
<1>2. c.len - 1 \in 0..W /\ [c EXCEPT !.len = @ - 1] = l
  BY <1>1, WAssumption
<1>3. l \in Line /\ l.addr = c.addr /\ l.len = c.len - 1
  BY <1>1, <1>2 DEF Line
<1>4. w = ParseIPv4CIDR(l)
  BY <1>2 DEF Wider
<1> HIDE DEF l
<1>5. w \in Net /\ w.len = c.len - 1 /\ w.addr = c.addr - (c.addr % n)
  BY <1>3, <1>4, ParsedIs DEF ParseIPv4CIDR, Cidr
<1>6. n \in Nat \ {0}
  BY <1>2, SizePositive
<1>7. Aligned(w.addr, c.len - 1) /\ w.addr \in Nat
  BY <1>5, Everything DEF Net, Line, Address
<1>8. Addresses(w) = w.addr..w.addr + n - 1
  BY <1>5 DEF Addresses
<1> HIDE DEF w, n
<1>9. c.addr % n \in 0..n - 1
  BY <1>1, <1>6, DivMod
<1>10. w.addr <= c.addr /\ c.addr < w.addr + n
  BY <1>1, <1>5, <1>6, <1>9
<1>11. \A x \in Nat : w.addr <= x /\ x < w.addr + n => x \in Addresses(w)
  BY <1>6, <1>7, <1>8
<1> QED BY <1>2, <1>5, <1>6, <1>7, <1>10, <1>11 DEF w, n
-----------------------------------------------------------------------------
(* The canonical form of a set of CIDRs: the same addresses, in disjoint blocks as *)
(* they are parsed, none of which could be part of a larger one.                   *)
Canonical(out, cidrs) ==
  /\ Covered(out) = Covered(cidrs)
  /\ \A c, d \in out : c # d => Addresses(c) \cap Addresses(d) = {}
  /\ \A c \in out :
       /\ ParseIPv4CIDR(c) = c
       /\ c.len > 0 => ~(Addresses(ParseIPv4CIDR([c EXCEPT !.len = @ - 1]))
                           \subseteq Covered(cidrs))

(* Normalising gives the canonical form, for every set of CIDRs. *)
THEOREM Normalizes ==
  ASSUME NEW cidrs \in SUBSET Net
  PROVE  /\ NormalizeIPv4CIDRs(cidrs) \in SUBSET Net
         /\ Canonical(NormalizeIPv4CIDRs(cidrs), cidrs)
<1> DEFINE out == NormalizeIPv4CIDRs(cidrs)
           m == MergedOf(cidrs)
           Start(i) == m[i].start
           End(i) == m[i].end
<1>1. /\ m \in Seq(Ranges) /\ Parted(m)
      /\ \A x \in Nat : InOne(x, m, Len(m)) <=> x \in Covered(cidrs)
      /\ \A c : c \in out <=> \E i \in 1..Len(m) : MadeOf(c, m[i])
  BY OutIs
<1> HIDE DEF out, m
<1>2. ASSUME NEW i \in 1..Len(m)
      PROVE  /\ m[i] \in Ranges /\ Start(i) \in Nat /\ End(i) \in Nat /\ Start(i) <= End(i)
             /\ Split(Blocks(Start(i), End(i)), Start(i), End(i))
  <2>1. m[i] \in Ranges
    BY <1>1
  <2>2. Start(i) \in Nat /\ End(i) \in Nat /\ Start(i) <= End(i)
    BY <2>1, RangesAre
  <2> HIDE DEF Start, End
  <2>3. Split(Blocks(Start(i), End(i)), Start(i), End(i))
    BY <2>2, BlocksAre
  <2> QED BY <2>1, <2>2, <2>3
<1>3. ASSUME NEW c \in out
      PROVE  \E i \in 1..Len(m) :
               /\ Block(c) \in Blocks(Start(i), End(i)) /\ Block(c)[1] = c.addr
               /\ c \in Net /\ c.addr \in Nat /\ Size[c.len] \in Nat \ {0}
               /\ Past(Block(c)) = c.addr + Size[c.len] /\ Past(Block(c)) \in Nat
               /\ Start(i) <= c.addr /\ Past(Block(c)) <= End(i) + 1
               /\ Addresses(c) = c.addr..Past(Block(c)) - 1
  <2>1. PICK i \in 1..Len(m) : MadeOf(c, m[i])
    BY <1>1
  <2>2. m[i] \in Ranges
    BY <1>2
  <2>3. /\ c \in Net /\ c.addr \in Nat /\ Size[c.len] \in Nat \ {0}
        /\ Past(Block(c)) = c.addr + Size[c.len]
        /\ Start(i) <= c.addr /\ Past(Block(c)) <= End(i) + 1
    BY <2>1, <2>2, MadeIs
  <2>4. Block(c) \in Blocks(Start(i), End(i)) /\ Block(c)[1] = c.addr
    BY <2>1 DEF MadeOf, Block
  <2>5. Addresses(c) = c.addr..Past(Block(c)) - 1 /\ Past(Block(c)) \in Nat
    BY <2>3 DEF Addresses
  <2> HIDE DEF Start, End
  <2> QED BY <2>3, <2>4, <2>5
<1>4. out \in SUBSET Net
  BY <1>3
<1>5. Covered(out) = Covered(cidrs)
  <2>1. ASSUME NEW x \in Covered(out) PROVE x \in Covered(cidrs)
    <3>1. PICK c \in out : x \in Addresses(c)
      BY <2>1 DEF Covered
    <3>2. PICK i \in 1..Len(m) :
            /\ c.addr \in Nat /\ Past(Block(c)) \in Nat
            /\ Start(i) <= c.addr /\ Past(Block(c)) <= End(i) + 1
            /\ Addresses(c) = c.addr..Past(Block(c)) - 1
      BY <1>3
    <3>3. x \in Nat /\ Start(i) <= x /\ x <= End(i)
      BY <3>1, <3>2, <1>2
    <3>4. InOne(x, m, Len(m))
      BY <3>3 DEF InOne, Within
    <3> QED BY <1>1, <3>3, <3>4
  <2>2. ASSUME NEW x \in Covered(cidrs) PROVE x \in Covered(out)
    <3>0. x \in Nat
      <4>1. PICK c \in cidrs : x \in Addresses(c)
        BY <2>2 DEF Covered
      <4>2. x \in c.addr..c.addr + (Size[c.len] - 1) /\ c.addr \in Nat
        BY <4>1, RangeIs, Everything DEF Address
      <4> QED BY <4>2
    <3>1. PICK i \in 1..Len(m) : Start(i) <= x /\ x <= End(i)
      BY <1>1, <3>0 DEF InOne, Within
    <3>2. PICK b \in Blocks(Start(i), End(i)) : b[1] <= x /\ x < Past(b)
      <4>1. x \in Start(i)..End(i)
        BY <1>2, <3>0, <3>1
      <4> HIDE DEF Start, End
      <4> QED BY <1>2, <4>1 DEF Split, Filling
    <3> DEFINE c == Cidr(b[1], b[2])
    <3>3. c = [kind |-> "cidr", addr |-> b[1], len |-> b[2]]
      BY DEF Cidr
    <3> HIDE DEF c
    <3>4. c.addr = b[1] /\ c.len = b[2] /\ c = Cidr(c.addr, c.len)
      BY <3>3 DEF Cidr
    <3>5. Block(c) = b
      <4>1. b = <<b[1], b[2]>>
        BY <1>2 DEF Split, Placed
      <4> QED BY <3>4, <4>1 DEF Block
    <3>6. MadeOf(c, m[i])
      BY <3>4, <3>5 DEF MadeOf
    <3>7. c \in out
      BY <1>1, <3>6
    <3>8. c.addr \in Nat /\ Size[c.len] \in Nat \ {0} /\ Past(b) = c.addr + Size[c.len]
      BY <1>2, <3>5, <3>6, MadeIs
    <3>9. x \in Addresses(c)
      BY <3>0, <3>2, <3>4, <3>8 DEF Addresses
    <3> QED BY <3>7, <3>9 DEF Covered
  <2> QED BY <2>1, <2>2
<1>6. ASSUME NEW c \in out, NEW d \in out, NEW x, x \in Addresses(c), x \in Addresses(d)
      PROVE  c = d
  <2> DEFINE b == Block(c)
             e == Block(d)
  <2>1. PICK i \in 1..Len(m) :
          /\ b \in Blocks(Start(i), End(i)) /\ b[1] = c.addr /\ c \in Net
          /\ c.addr \in Nat /\ Past(b) \in Nat /\ Start(i) <= c.addr /\ Past(b) <= End(i) + 1
          /\ Addresses(c) = c.addr..Past(b) - 1
    BY <1>3
  <2>2. PICK j \in 1..Len(m) :
          /\ e \in Blocks(Start(j), End(j)) /\ e[1] = d.addr /\ d \in Net
          /\ d.addr \in Nat /\ Past(e) \in Nat /\ Start(j) <= d.addr /\ Past(e) <= End(j) + 1
          /\ Addresses(d) = d.addr..Past(e) - 1
    BY <1>3
  <2> HIDE DEF b, e
  <2>3. /\ x \in Nat /\ b[1] <= x /\ x < Past(b) /\ e[1] <= x /\ x < Past(e)
    BY <1>6, <2>1, <2>2
  <2>4. /\ Start(i) <= x /\ x <= End(i) /\ Start(j) <= x /\ x <= End(j)
        /\ End(i) \in Nat /\ End(j) \in Nat /\ Start(i) \in Nat /\ Start(j) \in Nat
    <3>1. /\ End(i) \in Nat /\ End(j) \in Nat /\ Start(i) \in Nat /\ Start(j) \in Nat
      BY <1>2
    <3>2. /\ c.addr \in Nat /\ Past(b) \in Nat /\ d.addr \in Nat /\ Past(e) \in Nat
          /\ Start(i) <= c.addr /\ Past(b) <= End(i) + 1 /\ b[1] = c.addr
          /\ Start(j) <= d.addr /\ Past(e) <= End(j) + 1 /\ e[1] = d.addr
      BY <2>1, <2>2
    <3> HIDE DEF Start, End
    <3> QED BY <2>3, <3>1, <3>2
  <2>5. i = j
    <3>1. ASSUME i < j PROVE FALSE
      <4>1. End(i) + 1 < Start(j)
        BY <1>1, <3>1 DEF Parted
      <4> HIDE DEF Start, End
      <4> QED BY <2>3, <2>4, <4>1
    <3>2. ASSUME j < i PROVE FALSE
      <4>1. End(j) + 1 < Start(i)
        BY <1>1, <3>2 DEF Parted
      <4> HIDE DEF Start, End
      <4> QED BY <2>3, <2>4, <4>1
    <3> QED BY <3>1, <3>2
  <2> HIDE DEF Start, End
  <2>6. b = e
    <3>1. Apart(Blocks(Start(i), End(i)))
      BY <1>2 DEF Split
    <3>2. b # e => Past(b) <= e[1] \/ Past(e) <= b[1]
      BY <3>1, <2>1, <2>2, <2>5 DEF Apart
    <3> QED BY <2>1, <2>2, <2>3, <3>2
  <2>7. c.addr = d.addr /\ c.len = d.len
    BY <2>6 DEF b, e, Block
  <2> QED BY <2>1, <2>2, <2>7 DEF Net, Line
<1>7. ASSUME NEW c \in out, c.len > 0, Addresses(Wider(c)) \subseteq Covered(cidrs) PROVE FALSE
  <2> DEFINE b == Block(c)
  <2>1. PICK i \in 1..Len(m) :
          /\ b \in Blocks(Start(i), End(i)) /\ b[1] = c.addr /\ c \in Net
          /\ c.addr \in Nat /\ Size[c.len] \in Nat \ {0}
          /\ Past(b) = c.addr + Size[c.len] /\ Start(i) <= c.addr /\ Past(b) <= End(i) + 1
    BY <1>3
  <2> HIDE DEF b
  <2> DEFINE v == Wider(c).addr
             k == c.len - 1
             n == Size[c.len - 1]
  <2>2. /\ k \in 0..W /\ v \in Nat /\ n \in Nat \ {0} /\ Aligned(v, k)
        /\ v <= c.addr /\ c.addr < v + n
        /\ \A x \in Nat : v <= x /\ x < v + n => x \in Covered(cidrs)
    BY <1>7, <2>1, WiderIs
  <2>3. n = Size[k] /\ Size[c.len] < n
    <3>1. c.len \in 0..W /\ k \in 0..c.len /\ k # c.len
      BY <1>7, <2>1, WAssumption DEF Net, Line
    <3> QED BY <3>1, SizeOrder
  <2> HIDE DEF v, k, n
  <2>4. Start(i) <= v
    <3>1. ASSUME v < Start(i) PROVE FALSE
      <4> DEFINE x == Start(i) - 1
      <4>1. Start(i) \in Nat
        BY <1>2
      <4>2. x \in Nat /\ x + 1 = Start(i) /\ v <= x /\ x < v + n
        <5>1. c.addr \in Nat /\ Start(i) <= c.addr /\ v \in Nat /\ n \in Nat /\ c.addr < v + n
          BY <2>1, <2>2
        <5> HIDE DEF Start
        <5> QED BY <3>1, <4>1, <5>1
      <4> HIDE DEF x
      <4>3. InOne(x, m, Len(m))
        BY <1>1, <2>2, <4>2
      <4> QED BY <1>1, <4>2, <4>3, RangeEnds
    <3> QED BY <3>1, <1>2, <2>2
  <2>5. v + n <= End(i) + 1
    <3>1. ASSUME End(i) + 1 < v + n PROVE FALSE
      <4> DEFINE x == End(i) + 1
      <4>1. End(i) \in Nat
        BY <1>2
      <4>2. x \in Nat /\ v <= x /\ x < v + n
        <5>1. /\ c.addr \in Nat /\ Size[c.len] \in Nat /\ c.addr + Size[c.len] <= End(i) + 1
              /\ v \in Nat /\ v <= c.addr
          BY <2>1, <2>2
        <5> HIDE DEF End
        <5> QED BY <3>1, <4>1, <5>1
      <4>3. InOne(x, m, Len(m))
        BY <1>1, <2>2, <4>2
      <4>4. x = m[i].end + 1
        OBVIOUS
      <4> HIDE DEF x
      <4> QED BY <1>1, <4>2, <4>3, <4>4, RangeEnds
    <3> QED BY <3>1, <1>2, <2>2
  <2> HIDE DEF Start, End
  <2>6. PICK e \in Blocks(Start(i), End(i)) : e[1] <= v /\ v + n <= Past(e)
    BY <1>2, <2>2, <2>3, <2>4, <2>5 DEF Split, Largest
  <2>7. e[1] \in Nat /\ Past(e) \in Nat
    <3>1. e[1] \in Nat /\ e[2] \in 0..W
      BY <1>2, <2>6 DEF Split, Placed
    <3> QED BY <3>1, SizePositive DEF Past
  <2>8. e = b
    <3>1. Apart(Blocks(Start(i), End(i)))
      BY <1>2 DEF Split
    <3>2. e # b => Past(e) <= b[1] \/ Past(b) <= e[1]
      BY <3>1, <2>1, <2>6 DEF Apart
    <3> QED BY <2>1, <2>2, <2>6, <2>7, <3>2
  <2> QED BY <2>1, <2>2, <2>3, <2>6, <2>8
<1>8. \A c \in out : ParseIPv4CIDR(c) = c
  BY <1>4, Reparsed
<1>9. Canonical(out, cidrs)
  BY <1>5, <1>6, <1>7, <1>8 DEF Canonical, Wider
<1> QED BY <1>4, <1>9 DEF out
=============================================================================
