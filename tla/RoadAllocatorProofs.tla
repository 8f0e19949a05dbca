-------------------------- MODULE RoadAllocatorProofs --------------------------
(***************************************************************************)
(* What allocateRoadFleet keeps, for any packs, seeds, fleets and          *)
(* checkpoints.                                                            *)
(*                                                                         *)
(* First what the helpers give: a stride coprime to the capacity visits    *)
(* every slot of a route, so takeRouteSlot finds a free one as long as the *)
(* route is not full (FreeSlot, SlotFound); as long as there is capacity,  *)
(* some region and some route of it have room, and the heaps have a least  *)
(* element (UnionsCompare, LeastIs, RoomFound).  Then PlacementInv, the    *)
(* inductive invariant, one lemma for each action, and the theorem.        *)
(*                                                                         *)
(* Then what a start may rely on.  PromiseInv adds that the checkpoint     *)
(* suits the fleet that started last, and that an arrangement without a    *)
(* restored stationary vehicle is the one a coverage check made: both are  *)
(* the same sequence of choices (Leads), so one that went further had room *)
(* where the other ended (RoomWasLeft).                                    *)
(***************************************************************************)
EXTENDS RoadAllocator, FiniteSetTheorems, FunctionTheorems, SequenceTheorems,
        WellFoundedInduction, TLAPS

-----------------------------------------------------------------------------
(* Numbers                                                                 *)

\* A set of natural numbers has a least element: the form of induction that can
\* be used here, the library's induction theorems having an operator as parameter.
LEMMA LeastNumber ==
    ASSUME NEW T, T \subseteq Nat, T # {}
    PROVE  \E x \in T : \A y \in T : x <= y
<1> DEFINE R == OpToRel(<, Nat)
<1>1. IsWellFoundedOn(R, Nat)
  BY NatLessThanWellFounded
<1>2. \A x, y \in Nat : <<y, x>> \in R <=> y < x
  BY DEF OpToRel
<1> HIDE DEF R
<1>3. PICK x \in T : \A y \in T : ~(<<y, x>> \in R)
  BY <1>1, WFMin
<1>4. ASSUME NEW y \in T PROVE x <= y
  <2>1. x \in Nat /\ y \in Nat
    OBVIOUS
  <2>2. ~(y < x)
    BY <1>2, <1>3, <2>1
  <2> QED
    BY <2>1, <2>2
<1> QED
  BY <1>4

\* Multiplication by a positive number keeps the order, in both directions.
LEMMA Scaled ==
    ASSUME NEW a \in Int, NEW b \in Int, NEW c \in Int, c > 0
    PROVE  /\ a < b <=> a * c < b * c
           /\ a <= b <=> a * c <= b * c
           /\ a = b <=> a * c = b * c
  OBVIOUS

\* Products of natural numbers.
LEMMA ProductIs == ASSUME NEW a \in Nat, NEW b \in Nat PROVE a * b \in Nat
  OBVIOUS

\* Shares compared by cross-multiplication are ordered as fractions are.
LEMMA Fractions ==
    ASSUME NEW a \in Int, NEW b \in Int, NEW c \in Int,
           NEW u \in Nat \ {0}, NEW v \in Nat \ {0}, NEW w \in Nat \ {0},
           a * v <= b * u, b * w <= c * v
    PROVE  /\ a * w <= c * u
           /\ a * v < b * u \/ b * w < c * v => a * w < c * u
<1>1. a * v * w <= b * u * w /\ (a * v < b * u => a * v * w < b * u * w)
  BY Scaled
<1>2. b * w * u <= c * v * u /\ (b * w < c * v => b * w * u < c * v * u)
  BY Scaled
<1>3. b * u * w = b * w * u /\ a * v * w = (a * w) * v /\ c * v * u = (c * u) * v
  OBVIOUS
<1>4. (a * w) * v <= (c * u) * v /\ (a * v < b * u \/ b * w < c * v => (a * w) * v < (c * u) * v)
  BY <1>1, <1>2, <1>3
<1>5. a * w \in Int /\ c * u \in Int /\ v \in Int /\ v > 0
  OBVIOUS
<1> QED
  BY <1>4, <1>5, Scaled

\* Division with a remainder.
LEMMA Division ==
    ASSUME NEW a \in Nat, NEW b \in Nat \ {0}
    PROVE  /\ a \div b \in Nat /\ a % b \in 0 .. b - 1
           /\ a = b * (a \div b) + (a % b)
<1> b \in Int /\ b > 0
  OBVIOUS
<1>1. a \div b \in Int /\ a % b \in 0 .. b - 1
  OBVIOUS
<1>2. a = b * (a \div b) + (a % b)
  OBVIOUS
<1>3. a \div b >= 0
  <2> SUFFICES ASSUME a \div b <= -1 PROVE FALSE
    BY <1>1
  <2>1. (a \div b) * b <= (-1) * b
    BY <1>1, Scaled
  <2> QED BY <1>1, <1>2, <2>1
<1> QED BY <1>1, <1>2, <1>3

\* What is a multiple of a number leaves no remainder, and conversely.
LEMMA Multiples ==
    ASSUME NEW a \in Nat, NEW b \in Nat \ {0}
    PROVE  a % b = 0 <=> \E q \in Nat : a = b * q
<1>1. a % b = 0 => a = b * (a \div b) /\ a \div b \in Nat
  BY Division
<1>2. ASSUME NEW q \in Nat, a = b * q PROVE a % b = 0
  <2>1. a \div b \in Nat /\ a % b \in 0 .. b - 1 /\ a = b * (a \div b) + (a % b)
    BY Division
  <2> DEFINE p == a \div b
             r == a % b
  <2> HIDE DEF p, r
  <2>2. p \in Nat /\ r \in 0 .. b - 1 /\ b * q = b * p + r
    BY <1>2, <2>1 DEF p, r
  <2>3. CASE q <= p
    <3>1. q * b <= p * b
      BY <2>2, <2>3, Scaled
    <3>2. r = 0
      BY <2>2, <3>1
    <3> QED BY <3>2 DEF r
  <2>4. CASE q >= p + 1
    <3>1. (p + 1) * b <= q * b
      BY <2>2, <2>4, Scaled
    <3>2. (p + 1) * b = b * p + b /\ q * b = b * q
      BY <2>2
    <3>3. FALSE
      BY <2>2, <3>1, <3>2
    <3> QED BY <3>3
  <2> QED BY <2>2, <2>3, <2>4
<1> QED BY <1>1, <1>2

\* The stride exists, so that it is coprime to the capacity.
LEMMA StrideIs ==
    ASSUME NEW c \in Nat, c > 1
    PROVE  CoprimeStride(c) \in Nat /\ Coprime(CoprimeStride(c), c)
<1> DEFINE T == {s \in c \div 2 + 1 .. c + 1 : Coprime(s, c)}
<1>1. c \div 2 \in Nat /\ c \div 2 <= c
  <2>1. c \div 2 \in Nat /\ c % 2 \in 0 .. 1 /\ c = 2 * (c \div 2) + (c % 2)
    BY Division
  <2> QED BY <2>1
<1>2. Coprime(c + 1, c)
  <2> SUFFICES ASSUME NEW d \in 2 .. c, (c + 1) % d = 0, c % d = 0 PROVE FALSE
    BY DEF Coprime
  <2>1. PICK p \in Nat : c = d * p
    BY Multiples
  <2>2. PICK q \in Nat : c + 1 = d * q
    BY Multiples
  <2>3. q * d = p * d + 1
    BY <2>1, <2>2
  <2>4. p * d < q * d
    BY <2>3
  <2>5. p + 1 <= q
    BY <2>4, Scaled
  <2>6. (p + 1) * d <= q * d
    BY <2>5, Scaled
  <2>7. (p + 1) * d = p * d + d /\ p * d \in Nat /\ d >= 2
    OBVIOUS
  <2> QED BY <2>3, <2>6, <2>7
<1>3. c + 1 \in T /\ T \subseteq Nat
  BY <1>1, <1>2
<1> HIDE DEF T
<1>4. PICK s \in T : \A t \in T : s <= t
  BY <1>3, LeastNumber
<1>5. /\ s \in c \div 2 + 1 .. c + 1 /\ Coprime(s, c)
      /\ \A t \in c \div 2 + 1 .. s - 1 : ~Coprime(t, c)
  <2>1. s \in c \div 2 + 1 .. c + 1 /\ Coprime(s, c)
    BY <1>4 DEF T
  <2>2. ASSUME NEW t \in c \div 2 + 1 .. s - 1, Coprime(t, c) PROVE FALSE
    <3>1. t \in c \div 2 + 1 .. c + 1 /\ t \in Int /\ t < s /\ s \in Int
      BY <1>1, <2>1
    <3>2. t \in T
      BY <2>2, <3>1 DEF T
    <3> QED BY <1>4, <3>1, <3>2
  <2> QED BY <2>1, <2>2
<1>6. CoprimeStride(c) \in c \div 2 + 1 .. c + 1 /\ Coprime(CoprimeStride(c), c)
  BY <1>5 DEF CoprimeStride
<1> QED BY <1>1, <1>6

\* Steps of a stride that is coprime to the capacity come back to a slot only
\* after as many steps as there are slots: the smallest number of steps that
\* does divides the capacity, and the quotient divides the stride as well.
LEMMA NoEarlyReturn ==
    ASSUME NEW c \in Nat, c > 1, NEW s \in Nat, Coprime(s, c), NEW n \in 1 .. c - 1
    PROVE  (s * n) % c # 0
<1> SUFFICES ASSUME (s * n) % c = 0 PROVE FALSE
  OBVIOUS
<1> DEFINE K == {k \in Nat \ {0} : \E q \in Nat : s * k = c * q}
<1>1. n \in K
  <2>1. s * n \in Nat /\ n \in Nat \ {0} /\ c \in Nat \ {0}
    BY ProductIs
  <2>2. PICK q \in Nat : s * n = c * q
    BY <2>1, Multiples
  <2> QED BY <2>1, <2>2
<1>2. c \in K
  OBVIOUS
<1>3. K \subseteq Nat
  OBVIOUS
<1>4. PICK k \in K : \A j \in K : k <= j
  BY <1>1, <1>3, LeastNumber
<1>5. PICK q \in Nat : s * k = c * q
  OBVIOUS
<1>6. k \in Nat \ {0} /\ k <= n
  BY <1>1, <1>4
<1>7. PICK d \in Nat : c = k * d
  <2>1. c \div k \in Nat /\ c % k \in 0 .. k - 1 /\ c = k * (c \div k) + (c % k)
    BY <1>6, Division
  <2>2. c % k = 0
    <3> SUFFICES ASSUME c % k # 0 PROVE FALSE
      OBVIOUS
    <3> DEFINE e == c \div k
               r == c % k
    <3> HIDE DEF e, r, K
    <3>1. e \in Nat /\ r \in 1 .. k - 1 /\ c = k * e + r
      BY <1>6, <2>1 DEF e, r
    <3>2. r = c - k * e /\ r \in Nat
      BY <1>6, <3>1
    <3>3. s * r = s * c - s * (k * e)
      BY <1>6, <3>1, <3>2
    <3>4. s * (k * e) = (c * q) * e
      BY <1>5, <1>6, <3>1
    <3>5. s * r = c * (s - q * e)
      BY <1>5, <3>1, <3>3, <3>4
    <3>6. s - q * e >= 0
      <4> DEFINE f == s - q * e
      <4>1. f \in Int /\ s * r = c * f /\ s * r \in Nat
        BY <1>5, <3>1, <3>2, <3>5
      <4> HIDE DEF f
      <4>2. ASSUME f < 0 PROVE FALSE
        <5>1. f * c < 0 * c
          BY <4>1, <4>2, Scaled
        <5> QED BY <4>1, <5>1
      <4> QED BY <4>1, <4>2 DEF f
    <3>7. r \in K
      <4>1. r \in Nat \ {0} /\ s - q * e \in Nat
        BY <1>5, <3>1, <3>6
      <4> QED BY <3>5, <4>1 DEF K
    <3> QED BY <1>4, <1>6, <3>1, <3>7
  <2> QED BY <2>1, <2>2
<1> HIDE DEF K
<1>8. d >= 2 /\ d <= c
  <2>1. k < c /\ k \in Int
    BY <1>6
  <2>2. d # 0 /\ d # 1
    BY <1>6, <1>7, <2>1
  <2>3. 1 * d <= k * d
    BY <1>6, Scaled, <2>2
  <2> QED BY <1>6, <1>7, <2>2, <2>3
<1>9. s = d * q
  <2>1. s * k = (d * q) * k
    BY <1>5, <1>6, <1>7
  <2> QED BY <1>6, <2>1, Scaled
<1>10. s % d = 0 /\ c % d = 0
  <2>1. c = d * k /\ k \in Nat /\ d \in Nat \ {0}
    BY <1>6, <1>7, <1>8
  <2>2. c % d = 0
    BY <2>1, Multiples
  <2>3. s % d = 0
    BY <1>5, <1>9, <2>1, Multiples
  <2> QED BY <2>2, <2>3
<1>11. d \in 2 .. c
  BY <1>7, <1>8
<1>12. s % d # 0 \/ c % d # 0
  BY <1>11 DEF Coprime
<1> QED BY <1>10, <1>12

\* The slots tried from two ordinals less than the capacity apart are different.
LEMMA SlotsDiffer ==
    ASSUME NEW c \in Nat, c > 0, NEW b \in Nat, NEW m \in Nat, NEW n \in Nat, m < n, n < m + c
    PROVE  (b + CoprimeStride(c) * m) % c # (b + CoprimeStride(c) * n) % c
<1> DEFINE s == CoprimeStride(c)
<1>1. c > 1
  OBVIOUS
<1>2. s \in Nat /\ Coprime(s, c)
  BY <1>1, StrideIs
<1> HIDE DEF s
<1> SUFFICES ASSUME (b + s * m) % c = (b + s * n) % c PROVE FALSE
  BY DEF s
<1>3. s * m \in Nat /\ s * n \in Nat /\ s * (n - m) \in Nat /\ n - m \in 1 .. c - 1
  <2>1. n - m \in Nat /\ n - m \in 1 .. c - 1
    OBVIOUS
  <2> QED BY <1>2, <2>1, ProductIs
<1> DEFINE x == b + s * m
           y == b + s * n
           p == x \div c
           q == y \div c
           r == x % c
<1>4. x \in Nat /\ y \in Nat /\ y = x + s * (n - m)
  BY <1>2, <1>3
<1> HIDE DEF x, y
<1>0. c \in Nat \ {0} /\ x % c = y % c
  BY DEF x, y
<1>5. p \in Nat /\ x = c * p + r /\ r \in 0 .. c - 1
  BY <1>4, <1>0, Division
<1>6. q \in Nat /\ y = c * q + r
  BY <1>4, <1>0, Division
<1> HIDE DEF p, q, r
<1>7. s * (n - m) = c * (q - p)
  BY <1>2, <1>3, <1>4, <1>5, <1>6
<1>8. q - p \in Nat
  <2> DEFINE e == q - p
  <2>1. e \in Int /\ c * e \in Nat
    BY <1>3, <1>5, <1>6, <1>7
  <2> HIDE DEF e
  <2>2. ASSUME e < 0 PROVE FALSE
    <3>1. e * c < 0 * c
      BY <2>1, <2>2, Scaled
    <3> QED BY <2>1, <3>1
  <2>3. e \in Nat
    BY <2>1, <2>2
  <2> QED BY <2>3 DEF e
<1>9. (s * (n - m)) % c = 0
  <2> DEFINE k == s * (n - m)
             e == q - p
  <2>1. k \in Nat /\ e \in Nat /\ k = c * e
    BY <1>3, <1>7, <1>8
  <2> HIDE DEF k, e
  <2>2. k % c = 0
    BY <1>0, <2>1, Multiples
  <2> QED BY <2>2 DEF k
<1> QED BY <1>1, <1>2, <1>3, <1>9, NoEarlyReturn

\* As long as fewer slots are used than there are, one of the attempts is free.
LEMMA FreeSlot ==
    ASSUME NEW c \in Nat, c > 0, NEW b \in Nat, NEW o \in Nat,
           NEW U, IsFiniteSet(U), Cardinality(U) < c
    PROVE  \E n \in o .. o + c - 1 : (b + CoprimeStride(c) * n) % c \notin U
<1> SUFFICES ASSUME \A n \in o .. o + c - 1 : (b + CoprimeStride(c) * n) % c \in U
             PROVE  FALSE
  OBVIOUS
<1> DEFINE W == o .. o + c - 1
           f == [n \in W |-> (b + CoprimeStride(c) * n) % c]
<1>1. f \in [W -> U]
  OBVIOUS
<1>2. ASSUME NEW m \in W, NEW n \in W, f[m] = f[n] PROVE m = n
  <2>1. m \in Nat /\ n \in Nat /\ m < n + c /\ n < m + c
    OBVIOUS
  <2>2. (b + CoprimeStride(c) * m) % c = (b + CoprimeStride(c) * n) % c
    BY <1>2
  <2>3. ~(m < n) /\ ~(n < m)
    BY <2>1, <2>2, SlotsDiffer
  <2> QED BY <2>1, <2>3
<1>3. IsFiniteSet(W) /\ Cardinality(W) = c
  BY FS_Interval
<1> HIDE DEF f
<1>4. f \in Injection(W, U)
  BY <1>1, <1>2, Fun_IsInj
<1>5. Cardinality(W) <= Cardinality(U)
  BY <1>4, FS_Injection
<1>6. Cardinality(U) \in Nat
  BY FS_CardinalityType
<1> QED BY <1>3, <1>5, <1>6

-----------------------------------------------------------------------------
(* Counting                                                                *)

\* A finite set that is no larger fits into another.
LEMMA FitsInto ==
    ASSUME NEW S, NEW T, IsFiniteSet(S), IsFiniteSet(T), Cardinality(S) <= Cardinality(T)
    PROVE  \E f : f \in Injection(S, T)
<1>1. ExistsInjection(S, 1 .. Cardinality(S)) /\ Cardinality(S) \in Nat
  BY FS_CardinalityType, Fun_ExistsBijEquiv
<1>2. ExistsInjection(1 .. Cardinality(T), T) /\ Cardinality(T) \in Nat
  BY FS_CardinalityType, Fun_ExistsBijEquiv
<1>3. ExistsInjection(1 .. Cardinality(S), 1 .. Cardinality(T))
  BY <1>1, <1>2, Fun_NatInjLeq
<1>4. ExistsInjection(S, T)
  BY <1>1, <1>2, <1>3, Fun_ExistsInjTransitive
<1> QED BY <1>4, Fun_ExistsInj

\* The sets of one family are no larger than those of another, whose sets are
\* disjoint: what the first covers is no larger than what contains the second.
LEMMA UnionsCompare ==
    ASSUME NEW I, NEW A, NEW B, NEW S, NEW T, IsFiniteSet(T),
           \A x \in S : \E i \in I : x \in A[i],
           \A i \in I : /\ IsFiniteSet(A[i]) /\ Cardinality(A[i]) <= Cardinality(B[i])
                       /\ B[i] \in SUBSET T,
           \A i, j \in I : i # j => B[i] \cap B[j] = {}
    PROVE  IsFiniteSet(S) /\ Cardinality(S) <= Cardinality(T)
<1> DEFINE In(i) == CHOOSE f : f \in Injection(A[i], B[i])
           Home(x) == CHOOSE i \in I : x \in A[i]
           f == [x \in S |-> In(Home(x))[x]]
<1>1. ASSUME NEW i \in I PROVE In(i) \in Injection(A[i], B[i])
  <2>1. IsFiniteSet(B[i])
    <3> QED BY FS_Subset
  <2>2. \E g : g \in Injection(A[i], B[i])
    BY <2>1, FitsInto
  <2> QED BY <2>2
<1>2. ASSUME NEW x \in S PROVE Home(x) \in I /\ x \in A[Home(x)]
  OBVIOUS
<1> HIDE DEF In, Home
<1>3. ASSUME NEW x \in S PROVE f[x] \in B[Home(x)] /\ f[x] = In(Home(x))[x]
  <2>1. In(Home(x)) \in [A[Home(x)] -> B[Home(x)]]
    BY <1>1, <1>2, Fun_InjectionProperties
  <2> QED BY <1>2, <2>1
<1>4. f \in [S -> T]
  <2>1. ASSUME NEW x \in S PROVE In(Home(x))[x] \in T
    <3>1. Home(x) \in I
      BY <1>2
    <3>2. In(Home(x))[x] \in B[Home(x)]
      BY <1>3
    <3> HIDE DEF f
    <3> QED BY <3>1, <3>2
  <2> QED BY <2>1
<1> HIDE DEF f
<1>5. ASSUME NEW x \in S, NEW y \in S, f[x] = f[y] PROVE x = y
  <2>1. Home(x) = Home(y)
    <3>1. f[x] \in B[Home(x)] /\ f[x] \in B[Home(y)]
      BY <1>3, <1>5
    <3> QED BY <1>2, <3>1
  <2>2. In(Home(x)) \in Injection(A[Home(x)], B[Home(x)])
    BY <1>1, <1>2
  <2>3. In(Home(x))[x] = In(Home(x))[y] /\ x \in A[Home(x)] /\ y \in A[Home(x)]
    BY <1>2, <1>3, <1>5, <2>1
  <2> QED BY <2>2, <2>3, Fun_InjectionProperties
<1>6. f \in Injection(S, T)
  BY <1>4, <1>5, Fun_IsInj
<1> QED BY <1>6, FS_Injection

\* The heaps compare shares as fractions and break ties by an order, so that one
\* of finitely many comes before all the others.
LEMMA LeastIs ==
    ASSUME NEW share, NEW weight, NEW order \in {1, -1},
           IsFiniteSet(DOMAIN share), DOMAIN share # {}, DOMAIN share \subseteq Nat,
           \A x \in DOMAIN share : share[x] \in Nat /\ weight[x] \in Nat \ {0}
    PROVE  Least(share, weight, order) \in DOMAIN share
<1> DEFINE D == DOMAIN share
           Before(x, y) == \/ share[x] * weight[y] < share[y] * weight[x]
                           \/ /\ share[x] * weight[y] = share[y] * weight[x]
                              /\ order * x < order * y
           Earlier(x) == {y \in D : Before(y, x)}
           Sizes == {Cardinality(Earlier(x)) : x \in D}
<1>1. ASSUME NEW x \in D PROVE ~Before(x, x)
  <2>1. share[x] \in Nat /\ weight[x] \in Nat /\ x \in Nat /\ order \in Int
    OBVIOUS
  <2> QED BY <2>1
<1>2. ASSUME NEW x \in D, NEW y \in D, NEW z \in D, Before(x, y), Before(y, z)
      PROVE  Before(x, z)
  <2> DEFINE a == share[x]
             b == share[y]
             c == share[z]
             u == weight[x]
             v == weight[y]
             w == weight[z]
  <2>1. /\ a \in Int /\ b \in Int /\ c \in Int /\ x \in Int /\ y \in Int /\ z \in Int
        /\ u \in Nat \ {0} /\ v \in Nat \ {0} /\ w \in Nat \ {0}
    OBVIOUS
  <2>2. a * v < b * u \/ (a * v = b * u /\ order * x < order * y)
    BY <1>2
  <2>3. b * w < c * v \/ (b * w = c * v /\ order * y < order * z)
    BY <1>2
  <2> HIDE DEF a, b, c, u, v, w, D, Before
  <2>4. /\ a * v \in Int /\ b * u \in Int /\ b * w \in Int /\ c * v \in Int
        /\ a * w \in Int /\ c * u \in Int
    BY <2>1
  <2>5. a * w <= c * u /\ (a * v < b * u \/ b * w < c * v => a * w < c * u)
    BY <2>1, <2>2, <2>3, <2>4, Fractions
  <2>6. order * x < order * y /\ order * y < order * z => order * x < order * z
    BY <2>1
  <2>7. a * w < c * u \/ (a * w = c * u /\ order * x < order * z)
    BY <2>2, <2>3, <2>4, <2>5, <2>6
  <2> QED BY <2>7 DEF a, c, u, w, Before
<1>3. ASSUME NEW x \in D, NEW y \in D, x # y PROVE Before(x, y) \/ Before(y, x)
  <2>1. /\ share[x] * weight[y] \in Int /\ share[y] * weight[x] \in Int
        /\ x \in Int /\ y \in Int
    OBVIOUS
  <2>2. order * x < order * y \/ order * y < order * x
    BY <1>3, <2>1
  <2> QED BY <2>1, <2>2
<1>4. \A x \in D : IsFiniteSet(Earlier(x)) /\ Cardinality(Earlier(x)) \in Nat
  <2> TAKE x \in D
  <2>1. Earlier(x) \in SUBSET D
    OBVIOUS
  <2> HIDE DEF Earlier
  <2> QED BY <2>1, FS_Subset, FS_CardinalityType
<1> HIDE DEF Before
<1>5. PICK x \in D : \A y \in D : Cardinality(Earlier(x)) <= Cardinality(Earlier(y))
  <2>1. Sizes \subseteq Nat /\ Sizes # {}
    BY <1>4
  <2>2. PICK n \in Sizes : \A m \in Sizes : n <= m
    BY <2>1, LeastNumber
  <2> QED BY <2>2
<1>6. ASSUME NEW y \in D, Before(y, x) PROVE FALSE
  <2>1. Earlier(y) \subseteq Earlier(x)
    BY <1>2, <1>6
  <2>2. y \in Earlier(x) /\ y \notin Earlier(y)
    BY <1>1, <1>6
  <2>3. /\ IsFiniteSet(Earlier(x)) /\ Cardinality(Earlier(x)) \in Nat
        /\ Cardinality(Earlier(y)) \in Nat
        /\ Cardinality(Earlier(x)) <= Cardinality(Earlier(y))
    BY <1>4, <1>5
  <2> HIDE DEF Earlier
  <2>4. Earlier(y) = Earlier(x)
    BY <2>1, <2>3, FS_Subset
  <2> QED BY <2>2, <2>4
<1>7. \A y \in D \ {x} : Before(x, y)
  BY <1>3, <1>6
<1>8. Least(share, weight, order) = CHOOSE e \in D : \A y \in D \ {e} : Before(e, y)
  BY DEF Least, Before
<1> QED BY <1>7, <1>8

-----------------------------------------------------------------------------
(* The inductive invariant                                                 *)

Running == pc \notin {"idle", "failed"}

\* What a call is asked, and what it restores.
CallInv ==
    /\ fleet.vehicles \in Vehicles /\ fleet.moving \in Nat /\ fleet.moving <= fleet.vehicles
    /\ fleet.continuous \in BOOLEAN
    /\ mode = "preflight" => /\ fleet = Stationary(fleet.vehicles)
                             /\ restored = Nobody /\ ~retried
    /\ mode = "start" /\ pc # "idle" =>
        /\ fleet \in Fleets
        /\ ~retried => restored = saved
        /\ retried => restored = [v \in Vehicles |-> IF v <= fleet.moving THEN saved[v] ELSE None]
    /\ retried => \A v \in 1 .. fleet.vehicles :
                    saved[v] # None => saved[v].moving = (v <= fleet.moving)
    /\ pc = "idle" => ~retried

\* Vehicles the loop over the restored ones has passed.
Passed(v) == v <= fleet.vehicles /\ (pc = "restore" => v < next)

\* A vehicle that is restored in its role stays where it was, unless its place
\* was taken.
RestoreInv ==
    /\ \A v \in Vehicles :
        /\ assignment[v] # None => v <= fleet.vehicles /\ assignment[v].moving = (v <= fleet.moving)
        /\ Passed(v) /\ restored[v] # None =>
            /\ restored[v].moving = (v <= fleet.moving)
            /\ v \notin moved => assignment[v] = restored[v]
        /\ pc = "restore" /\ v >= next => assignment[v] = None
        /\ pc \in {"restore", "relocate", "check"} /\ restored[v] = None => assignment[v] = None
        /\ pc = "moving" /\ v > fleet.moving /\ restored[v] = None => assignment[v] = None
    /\ \A v \in moved : Passed(v) /\ restored[v] # None /\ ~restored[v].moving
    /\ pc \in {"restore", "relocate"} => \A v \in colliding : assignment[v] = None

\* No two stationary vehicles are near, and new moving ones have a slot of their own.
SpaceInv ==
    /\ StandApart
    /\ \A v \in Vehicles :
        assignment[v] # None /\ assignment[v].moving => Capacity(assignment[v].route) > 0
    /\ pc \in {"moving", "parked", "placed"} => WithinCapacity
    /\ \A r \in Routes : \A v, w \in MoversOn(r) :
        v # w /\ restored[v] = None => assignment[v].slot # assignment[w].slot

\* How far the placement has come, and that there is room for the rest.
ProgressInv ==
    /\ pc = "moving" => MissingMoving <= AvailableCapacity
    /\ pc = "moving" =>
        /\ next <= fleet.moving + 1
        /\ \A v \in 1 .. fleet.moving : v < next => assignment[v] # None
    /\ pc = "parked" =>
        /\ next > fleet.moving
        /\ \A v \in 1 .. fleet.vehicles : v < next => assignment[v] # None
    /\ pc = "placed" => \A v \in 1 .. fleet.vehicles : assignment[v] # None

\* The moving vehicles of a checkpoint fit onto their routes.
SavedMovers(r) == {v \in Vehicles : saved[v] # None /\ saved[v].moving /\ saved[v].route = r}
SavedInv == \A r \in Routes : Cardinality(SavedMovers(r)) <= pack.routes[r].slots

Failures == {"none", "role", "continuous", "capacity", "region", "anchors", "parked"}

PlacementInv ==
    /\ TypeOK /\ CallInv /\ SavedInv /\ failure \in Failures
    /\ Running => RestoreInv /\ SpaceInv /\ ProgressInv

-----------------------------------------------------------------------------
(* Packs and assignments                                                   *)

\* What the parts of a pack are.
LEMMA PackIs ==
    ASSUME pack \in Packs
    PROVE  /\ Regions \subseteq Nat /\ IsFiniteSet(Regions)
           /\ Routes \subseteq Nat /\ IsFiniteSet(Routes)
           /\ Anchors \subseteq Nat /\ IsFiniteSet(Anchors)
           /\ \A g \in Regions : pack.weight[g] \in Nat \ {0}
           /\ \A r \in Routes : /\ RegionOf(r) \in Regions /\ pack.routes[r].slots \in Nat
                                /\ pack.routes[r].closed \in BOOLEAN
           /\ \A a \in Anchors :
                /\ pack.anchors[a].route \in Routes /\ AnchorRegion(a) \in Regions
                /\ DOMAIN pack.anchors[a].places \subseteq Nat
                /\ \A i \in DOMAIN pack.anchors[a].places : pack.anchors[a].places[i] \in Nat
<1>1. /\ pack.weight \in Seq(Nat \ {0})
      /\ pack.routes \in Seq([region : Regions, slots : Nat, closed : BOOLEAN])
      /\ pack.anchors \in Seq([route : Routes, places : Seq(Nat)])
  BY PackAssumption DEF Regions, Routes
<1>2. \A S : \A s \in Seq(S) :
        DOMAIN s \subseteq Nat /\ IsFiniteSet(DOMAIN s) /\ \A i \in DOMAIN s : s[i] \in S
  <2> TAKE S
  <2> TAKE s \in Seq(S)
  <2>1. Len(s) \in Nat /\ DOMAIN s = 1 .. Len(s)
    BY LenProperties
  <2>2. \A i \in 1 .. Len(s) : s[i] \in S
    BY ElementOfSeq
  <2>3. IsFiniteSet(1 .. Len(s))
    BY <2>1, FS_Interval
  <2> QED BY <2>1, <2>2, <2>3
<1>3. /\ Regions \subseteq Nat /\ IsFiniteSet(Regions)
      /\ \A g \in Regions : pack.weight[g] \in Nat \ {0}
  BY <1>1, <1>2 DEF Regions
<1>4. /\ Routes \subseteq Nat /\ IsFiniteSet(Routes)
      /\ \A r \in Routes : pack.routes[r] \in [region : Regions, slots : Nat, closed : BOOLEAN]
  BY <1>1, <1>2 DEF Routes
<1>5. /\ Anchors \subseteq Nat /\ IsFiniteSet(Anchors)
      /\ \A a \in Anchors : pack.anchors[a] \in [route : Routes, places : Seq(Nat)]
  BY <1>1, <1>2 DEF Anchors
<1>6. \A r \in Routes : /\ RegionOf(r) \in Regions /\ pack.routes[r].slots \in Nat
                        /\ pack.routes[r].closed \in BOOLEAN
  BY <1>4 DEF RegionOf
<1>7. ASSUME NEW a \in Anchors
      PROVE  /\ pack.anchors[a].route \in Routes /\ AnchorRegion(a) \in Regions
             /\ DOMAIN pack.anchors[a].places \subseteq Nat
             /\ \A i \in DOMAIN pack.anchors[a].places : pack.anchors[a].places[i] \in Nat
  <2>1. pack.anchors[a].route \in Routes /\ pack.anchors[a].places \in Seq(Nat)
    BY <1>5
  <2> QED BY <1>2, <1>6, <2>1 DEF AnchorRegion
<1> QED BY <1>3, <1>4, <1>5, <1>6, <1>7

Assigned == Movers \cup ParkedOnes

\* What an assignment of a pack is.
LEMMA AssignedIs ==
    ASSUME pack \in Packs, NEW x \in Assigned
    PROVE  /\ x # None /\ x.moving \in BOOLEAN
           /\ x.moving => x \in Movers /\ x.route \in Routes
                          /\ x.slot \in 0 .. pack.routes[x.route].slots - 1
           /\ ~x.moving => /\ x \in ParkedOnes /\ x.anchor \in Anchors
                           /\ x.place \in PlacesOf(x.anchor) /\ x.place \in Nat /\ x.exact \in BOOLEAN
<1>1. CASE x \in Movers
  <2>0. PICK r \in Routes : x \in {Mover(r, s) : s \in 0 .. pack.routes[r].slots - 1}
    BY <1>1 DEF Movers
  <2>1. PICK s \in 0 .. pack.routes[r].slots - 1 : x = Mover(r, s)
    BY <2>0
  <2>2. x \in [moving : BOOLEAN, route : Nat, slot : Nat]
    <3>1. r \in Nat /\ s \in Nat
      BY PackIs
    <3> QED BY <2>1, <3>1 DEF Mover
  <2>3. x # None
    BY <2>2, NoneAssumption
  <2> QED BY <1>1, <2>1, <2>3 DEF Mover
<1>2. CASE x \in ParkedOnes
  <2>0. PICK a \in Anchors : x \in {Parked(a, p, e) : p \in PlacesOf(a), e \in BOOLEAN}
    BY <1>2 DEF ParkedOnes
  <2>1. PICK p \in PlacesOf(a), e \in BOOLEAN : x = Parked(a, p, e)
    BY <2>0
  <2>2. a \in Nat /\ p \in Nat
    BY PackIs DEF PlacesOf
  <2>3. x \in [moving : BOOLEAN, anchor : Nat, place : Nat, exact : BOOLEAN]
    BY <2>1, <2>2 DEF Parked
  <2>4. x # None
    BY <2>3, NoneAssumption
  <2> QED BY <1>2, <2>1, <2>2, <2>4 DEF Parked
<1> QED BY <1>1, <1>2 DEF Assigned

\* New assignments are of the pack.
LEMMA NewMover ==
    ASSUME NEW r \in Routes, NEW s \in 0 .. pack.routes[r].slots - 1
    PROVE  /\ Mover(r, s) \in Assigned /\ Mover(r, s).moving
           /\ Mover(r, s).route = r /\ Mover(r, s).slot = s
<1>1. Mover(r, s) \in {Mover(r, t) : t \in 0 .. pack.routes[r].slots - 1}
  OBVIOUS
<1>2. Mover(r, s) \in Movers
  BY <1>1 DEF Movers
<1> QED BY <1>2 DEF Assigned, Mover

\* A stationary vehicle is put onto a place of an anchor.
LEMMA NewParked ==
    ASSUME NEW a \in Anchors, NEW p \in PlacesOf(a)
    PROVE  /\ Parked(a, p, TRUE) \in Assigned /\ Parked(a, p, TRUE).moving = FALSE
           /\ ~Parked(a, p, TRUE).moving
           /\ Parked(a, p, TRUE).anchor = a /\ Parked(a, p, TRUE).place = p
<1>1. \A e \in BOOLEAN : Parked(a, p, e) \in {Parked(a, q, x) : q \in PlacesOf(a), x \in BOOLEAN}
  OBVIOUS
<1>2. \A e \in BOOLEAN : Parked(a, p, e) \in ParkedOnes
  <2> TAKE e \in BOOLEAN
  <2>1. Parked(a, p, e) \in {Parked(a, q, x) : q \in PlacesOf(a), x \in BOOLEAN}
    BY <1>1
  <2> QED BY <2>1 DEF ParkedOnes
<1>3. Parked(a, p, TRUE) \in ParkedOnes
  BY <1>2, Zenon
<1> QED BY <1>3 DEF Assigned, Parked

\* The vehicles of a call, and the capacity of a route for it.
LEMMA VehiclesAre ==
    /\ Vehicles \subseteq Nat /\ IsFiniteSet(Vehicles) /\ MaxVehicles \in Nat /\ 1 \in Vehicles
    /\ \A v \in Vehicles : v >= 1 /\ v <= MaxVehicles
    /\ \A S \in SUBSET Vehicles : IsFiniteSet(S) /\ Cardinality(S) \in Nat
<1>1. MaxVehicles \in Nat /\ MaxVehicles >= 1
  BY FleetAssumption
<1>2. Vehicles \subseteq Nat /\ 1 \in Vehicles /\ \A v \in Vehicles : v >= 1 /\ v <= MaxVehicles
  BY <1>1 DEF Vehicles
<1>3. IsFiniteSet(Vehicles)
  BY <1>1, FS_Interval DEF Vehicles
<1>4. \A S \in SUBSET Vehicles : IsFiniteSet(S) /\ Cardinality(S) \in Nat
  BY <1>3, FS_Subset, FS_CardinalityType
<1> QED BY <1>1, <1>2, <1>3, <1>4

\* A route has its slots as capacity, or none.
LEMMA CapacityIs ==
    ASSUME pack \in Packs, NEW r \in Routes
    PROVE  /\ Capacity(r) \in Nat /\ Capacity(r) <= pack.routes[r].slots
           /\ Capacity(r) # 0 => Capacity(r) = pack.routes[r].slots
  BY PackIs DEF Capacity

-----------------------------------------------------------------------------
(* What the heaps give                                                     *)

Typed ==
    /\ pack \in Packs /\ seed \in Seeds
    /\ assignment \in [Vehicles -> Assigned \cup {None}]
    /\ ordinal \in [Routes -> Nat]

\* The vehicles on a route are moving vehicles with slots of it.
LEMMA MoversAre ==
    ASSUME Typed, NEW r \in Routes
    PROVE  /\ MoversOn(r) \in SUBSET Vehicles /\ IsFiniteSet(MoversOn(r))
           /\ Occupancy(r) \in Nat
           /\ IsFiniteSet(UsedSlots(r)) /\ Cardinality(UsedSlots(r)) <= Occupancy(r)
<1>1. MoversOn(r) \in SUBSET Vehicles
  BY DEF MoversOn
<1>2. IsFiniteSet(MoversOn(r)) /\ Occupancy(r) \in Nat
  BY <1>1, VehiclesAre DEF Occupancy
<1> DEFINE M == MoversOn(r)
           f == [v \in M |-> assignment[v].slot]
<1>3. f \in Surjection(M, UsedSlots(r))
  <2>1. f \in [M -> UsedSlots(r)]
    BY DEF UsedSlots
  <2>2. \A s \in UsedSlots(r) : \E v \in M : f[v] = s
    BY DEF UsedSlots
  <2> HIDE DEF f, M
  <2> QED BY <2>1, <2>2, Fun_IsSurj
<1>4. IsFiniteSet(UsedSlots(r)) /\ Cardinality(UsedSlots(r)) <= Cardinality(M)
  BY <1>2, <1>3, FS_Surjection
<1> QED BY <1>1, <1>2, <1>4 DEF Occupancy

\* takeRouteSlot finds a slot on a route that is not full.
LEMMA SlotFound ==
    ASSUME Typed, NEW r \in Routes, Occupancy(r) < Capacity(r)
    PROVE  LET n == FirstAttempt(r)
           IN  /\ Attempts(r) # {} /\ n \in Nat
               /\ SlotAt(r, n) \in 0 .. pack.routes[r].slots - 1
               /\ SlotAt(r, n) \notin UsedSlots(r)
<1> DEFINE c == Capacity(r)
           b == IF seed = 1 THEN 0 ELSE 1
           o == ordinal[r]
<1>1. c \in Nat /\ c > 0 /\ c = pack.routes[r].slots
  BY CapacityIs, MoversAre DEF Typed
<1>2. o \in Nat /\ b \in Nat
  BY DEF Typed
<1>3. IsFiniteSet(UsedSlots(r)) /\ Cardinality(UsedSlots(r)) < c
  <2>1. Cardinality(UsedSlots(r)) \in Nat
    BY MoversAre, FS_CardinalityType
  <2> QED BY <1>1, <2>1, MoversAre
<1>4. \A n : SlotAt(r, n) = (b + CoprimeStride(c) * n) % c
  BY DEF SlotAt
<1>5. Attempts(r) = {n \in o .. o + c - 1 : SlotAt(r, n) \notin UsedSlots(r)}
  BY DEF Attempts
<1> HIDE DEF b, c, o
<1>6. PICK k \in o .. o + c - 1 : (b + CoprimeStride(c) * k) % c \notin UsedSlots(r)
  BY <1>1, <1>2, <1>3, FreeSlot
<1>7. k \in Attempts(r) /\ Attempts(r) \subseteq Nat
  BY <1>1, <1>2, <1>4, <1>5, <1>6
<1>8. PICK n \in Attempts(r) : \A m \in Attempts(r) : n <= m
  BY <1>7, LeastNumber
<1>9. FirstAttempt(r) \in Attempts(r)
  BY <1>8 DEF FirstAttempt
<1> DEFINE m == FirstAttempt(r)
<1> HIDE DEF m
<1>10. m \in Nat /\ SlotAt(r, m) \notin UsedSlots(r)
  BY <1>5, <1>7, <1>9 DEF m
<1>11. SlotAt(r, m) \in 0 .. c - 1
  <2>1. CoprimeStride(c) \in Nat
    <3>1. CASE c > 1
      BY <1>1, <3>1, StrideIs
    <3>2. CASE ~(c > 1)
      BY <1>1, <3>2 DEF CoprimeStride
    <3> QED BY <3>1, <3>2
  <2>2. CoprimeStride(c) * m \in Nat
    BY <1>10, <2>1, ProductIs
  <2> DEFINE x == b + CoprimeStride(c) * m
  <2>3. x \in Nat
    BY <1>2, <2>2
  <2> HIDE DEF x
  <2>4. x % c \in 0 .. c - 1
    BY <1>1, <2>3, Division
  <2> QED BY <1>4, <2>4 DEF x
<1> QED BY <1>1, <1>7, <1>10, <1>11 DEF m

SlotsOf(r) == {r} \X (1 .. Capacity(r))
RoutesIn(g) == {r \in Routes : RegionOf(r) = g}

\* A route adds its capacity to the slots of a region.
LEMMA SlotsAre ==
    ASSUME Typed, NEW r \in Routes
    PROVE  IsFiniteSet(SlotsOf(r)) /\ Cardinality(SlotsOf(r)) = Capacity(r)
<1>1. Capacity(r) \in Nat
  BY CapacityIs DEF Typed
<1>2. IsFiniteSet({r}) /\ Cardinality({r}) = 1
  BY FS_Singleton
<1>3. IsFiniteSet(1 .. Capacity(r)) /\ Cardinality(1 .. Capacity(r)) = Capacity(r)
  BY <1>1, FS_Interval
<1> DEFINE N == 1 .. Capacity(r)
<1> HIDE DEF N
<1>4. /\ IsFiniteSet({r} \X N)
      /\ Cardinality({r} \X N) = Cardinality({r}) * Cardinality(N)
  BY <1>2, <1>3, FS_Product DEF N
<1> QED BY <1>1, <1>2, <1>3, <1>4 DEF SlotsOf, N

\* The slots of any routes are finitely many, and so are the vehicles on them;
\* when no route has room, no more slots than vehicles; in a region likewise.
LEMMA NoRoom ==
    ASSUME Typed, NEW R \in SUBSET Routes
    PROVE  /\ IsFiniteSet(UNION {MoversOn(r) : r \in R})
           /\ UNION {MoversOn(r) : r \in R} \in SUBSET Vehicles
           /\ SlotsIn(R) \in Nat /\ IsFiniteSet(UNION {SlotsOf(r) : r \in R})
           /\ (\A r \in R : Capacity(r) <= Occupancy(r)) =>
                SlotsIn(R) <= Cardinality(UNION {MoversOn(r) : r \in R})
           /\ (\A r \in R : Occupancy(r) <= Capacity(r)) =>
                Cardinality(UNION {MoversOn(r) : r \in R}) <= SlotsIn(R)
<1> DEFINE A == [r \in R |-> SlotsOf(r)]
           B == [r \in R |-> MoversOn(r)]
           S == UNION {SlotsOf(r) : r \in R}
           M == UNION {MoversOn(r) : r \in R}
<1>1. M \in SUBSET Vehicles
  BY MoversAre
<1>2. IsFiniteSet(M)
  BY <1>1, VehiclesAre
<1>3. /\ \A x \in S : \E r \in R : x \in A[r]
      /\ \A x \in M : \E r \in R : x \in B[r]
      /\ \A r \in R : A[r] \in SUBSET S /\ B[r] \in SUBSET M
  OBVIOUS
<1>4. \A r \in R : /\ IsFiniteSet(A[r]) /\ Cardinality(A[r]) = Capacity(r)
                   /\ IsFiniteSet(B[r]) /\ Cardinality(B[r]) = Occupancy(r)
  BY SlotsAre, MoversAre DEF Occupancy
<1>5. \A r, q \in R : r # q => A[r] \cap A[q] = {}
  BY DEF SlotsOf
<1>6. \A r, q \in R : r # q => B[r] \cap B[q] = {}
  BY DEF MoversOn
<1>7. IsFiniteSet(S)
  <2> DEFINE T == {SlotsOf(r) : r \in R}
  <2>1. A \in Surjection(R, T)
    <3>1. A \in [R -> T] /\ \A t \in T : \E r \in R : A[r] = t
      OBVIOUS
    <3> QED BY <3>1, Fun_IsSurj
  <2>2. IsFiniteSet(R)
    BY PackIs, FS_Subset DEF Typed
  <2>3. IsFiniteSet(T)
    BY <2>1, <2>2, FS_Surjection
  <2>4. \A t \in T : IsFiniteSet(t)
    BY SlotsAre
  <2> QED BY <2>3, <2>4, FS_UNION
<1>8. SlotsIn(R) = Cardinality(S)
  BY DEF SlotsIn, SlotsOf
<1>9. SlotsIn(R) \in Nat
  BY <1>7, <1>8, FS_CardinalityType
<1> HIDE DEF A, B, S, M
<1>10. ASSUME \A r \in R : Capacity(r) <= Occupancy(r) PROVE Cardinality(S) <= Cardinality(M)
  BY <1>2, <1>3, <1>4, <1>6, <1>10, UnionsCompare
<1>11. ASSUME \A r \in R : Occupancy(r) <= Capacity(r) PROVE Cardinality(M) <= Cardinality(S)
  <2>1. \A r \in R : /\ IsFiniteSet(B[r]) /\ Cardinality(B[r]) <= Cardinality(A[r])
                     /\ A[r] \in SUBSET S
    BY <1>3, <1>4, <1>11
  <2>2. \A x \in M : \E r \in R : x \in B[r]
    BY <1>3
  <2> QED BY <1>5, <1>7, <2>1, <2>2, UnionsCompare
<1> QED BY <1>1, <1>2, <1>7, <1>8, <1>9, <1>10, <1>11 DEF S, M

\* As long as there is capacity, a region is below its own and has a route with room.
LEMMA RoomFound ==
    ASSUME Typed, AvailableCapacity > 0
    PROVE  /\ MovingRegions # {} /\ RoomIn(NextMovingRegion) # {}
           /\ NextRoute(NextMovingRegion) \in Routes
           /\ Occupancy(NextRoute(NextMovingRegion)) < Capacity(NextRoute(NextMovingRegion))
<1> DEFINE A == [g \in Regions |-> UNION {SlotsOf(r) : r \in RoutesIn(g)}]
           B == [g \in Regions |-> UNION {MoversOn(r) : r \in RoutesIn(g)}]
           S == UNION {SlotsOf(r) : r \in Routes}
           M == UNION {MoversOn(r) : r \in Routes}
<1>1. \A g \in Regions : RoutesIn(g) \in SUBSET Routes
  BY DEF RoutesIn
<1>2. /\ IsFiniteSet(M) /\ IsFiniteSet(S) /\ SlotsIn(Routes) = Cardinality(S)
      /\ Cardinality(S) \in Nat /\ Cardinality(M) \in Nat
      /\ AvailableCapacity = Cardinality(S) - Cardinality(M)
  <2>1. IsFiniteSet(M) /\ IsFiniteSet(S)
    BY NoRoom
  <2> QED BY <2>1, FS_CardinalityType DEF AvailableCapacity, SlotsIn, SlotsOf
<1>3. ASSUME NEW g \in Regions
      PROVE  /\ IsFiniteSet(A[g]) /\ Cardinality(A[g]) = RegionCapacity(g)
             /\ RegionCapacity(g) = SlotsIn(RoutesIn(g))
             /\ IsFiniteSet(B[g]) /\ Cardinality(B[g]) = MovingAssigned(g)
             /\ RegionCapacity(g) \in Nat /\ MovingAssigned(g) \in Nat
             /\ A[g] \in SUBSET S /\ B[g] \in SUBSET M
  <2>1. IsFiniteSet(A[g]) /\ IsFiniteSet(B[g])
    BY <1>1, NoRoom
  <2>2. Cardinality(A[g]) = RegionCapacity(g) /\ RegionCapacity(g) = SlotsIn(RoutesIn(g))
    BY DEF RegionCapacity, SlotsIn, SlotsOf, RoutesIn
  <2>3. Cardinality(B[g]) = MovingAssigned(g)
    BY DEF MovingAssigned, RoutesIn
  <2>4. A[g] \in SUBSET S /\ B[g] \in SUBSET M
    BY <1>1
  <2> QED BY <2>1, <2>2, <2>3, <2>4, FS_CardinalityType
<1>4. MovingRegions # {}
  <2> SUFFICES ASSUME MovingRegions = {} PROVE FALSE
    OBVIOUS
  <2>1. \A x \in S : \E g \in Regions : x \in A[g]
    <3> SUFFICES ASSUME NEW r \in Routes, NEW x \in SlotsOf(r)
                 PROVE  \E g \in Regions : x \in A[g]
      OBVIOUS
    <3>1. RegionOf(r) \in Regions /\ r \in RoutesIn(RegionOf(r))
      BY PackIs DEF Typed, RoutesIn
    <3>2. x \in A[RegionOf(r)]
      BY <3>1
    <3> QED BY <3>1, <3>2
  <2>2. ASSUME NEW g \in Regions PROVE RegionCapacity(g) <= MovingAssigned(g)
    <3>1. RegionCapacity(g) \in Nat /\ MovingAssigned(g) \in Nat
      BY <1>3
    <3>2. ~(MovingAssigned(g) < RegionCapacity(g))
      BY DEF MovingRegions
    <3> QED BY <3>1, <3>2
  <2>3. ASSUME NEW g \in Regions, NEW h \in Regions, g # h PROVE B[g] \cap B[h] = {}
    BY <2>3 DEF RoutesIn, MoversOn
  <2>4. \A g \in Regions : /\ IsFiniteSet(A[g]) /\ Cardinality(A[g]) <= Cardinality(B[g])
                           /\ B[g] \in SUBSET M
    BY <1>3, <2>2
  <2> HIDE DEF A, B, S, M
  <2>5. Cardinality(S) <= Cardinality(M)
    BY <1>2, <2>1, <2>3, <2>4, UnionsCompare
  <2> QED BY <1>2, <2>5
<1> HIDE DEF A, B, S, M
<1> DEFINE g == NextMovingRegion
<1>5. g \in MovingRegions
  <2> DEFINE share == [h \in MovingRegions |-> Twice(MovingAssigned(h))]
  <2>1. MovingRegions \subseteq Regions /\ DOMAIN share = MovingRegions
    BY DEF MovingRegions
  <2>2. IsFiniteSet(MovingRegions) /\ MovingRegions \subseteq Nat
    BY <2>1, PackIs, FS_Subset DEF Typed
  <2>3. ASSUME NEW h \in MovingRegions
        PROVE  share[h] \in Nat /\ pack.weight[h] \in Nat \ {0}
    <3>1. MovingAssigned(h) \in Nat /\ pack.weight[h] \in Nat \ {0}
      BY <1>3, <2>1, PackIs DEF Typed
    <3> QED BY <3>1 DEF Twice
  <2>4. g = Least(share, pack.weight, 1)
    BY DEF NextMovingRegion
  <2> HIDE DEF share
  <2> QED BY <1>4, <2>1, <2>2, <2>3, <2>4, LeastIs
<1>6. g \in Regions /\ MovingAssigned(g) < RegionCapacity(g)
  BY <1>5 DEF MovingRegions
<1> HIDE DEF g
<1>7. RoomIn(g) # {}
  <2> SUFFICES ASSUME RoomIn(g) = {} PROVE FALSE
    OBVIOUS
  <2>1. \A r \in RoutesIn(g) : Capacity(r) <= Occupancy(r)
    <3> TAKE r \in RoutesIn(g)
    <3>1. r \in Routes /\ RegionOf(r) = g
      BY DEF RoutesIn
    <3>2. Capacity(r) \in Nat /\ Occupancy(r) \in Nat
      BY <3>1, CapacityIs, MoversAre DEF Typed
    <3> QED BY <3>1, <3>2 DEF RoomIn
  <2>2. SlotsIn(RoutesIn(g)) <= Cardinality(UNION {MoversOn(r) : r \in RoutesIn(g)})
    BY <1>1, <1>6, <2>1, NoRoom
  <2>3. RegionCapacity(g) <= MovingAssigned(g)
    BY <1>3, <1>6, <2>2 DEF MovingAssigned, RoutesIn
  <2> QED BY <1>3, <1>6, <2>3
<1>8. NextRoute(g) \in RoomIn(g)
  <2> DEFINE share == [r \in RoomIn(g) |-> Twice(Occupancy(r))]
             weight == [r \in Routes |-> Capacity(r)]
  <2>1. RoomIn(g) \subseteq Routes /\ DOMAIN share = RoomIn(g)
    BY DEF RoomIn
  <2>2. IsFiniteSet(RoomIn(g)) /\ RoomIn(g) \subseteq Nat
    BY <2>1, PackIs, FS_Subset DEF Typed
  <2>3. ASSUME NEW r \in RoomIn(g) PROVE share[r] \in Nat /\ weight[r] \in Nat \ {0}
    <3>1. Occupancy(r) \in Nat /\ Capacity(r) \in Nat /\ Occupancy(r) < Capacity(r) /\ r \in Routes
      BY <2>1, CapacityIs, MoversAre DEF Typed, RoomIn
    <3> QED BY <3>1 DEF Twice
  <2>4. NextRoute(g) = Least(share, weight, seed)
    BY DEF NextRoute
  <2>5. seed \in {1, -1}
    BY SeedAssumption DEF Typed
  <2> HIDE DEF share, weight
  <2> QED BY <1>7, <2>1, <2>2, <2>3, <2>4, <2>5, LeastIs
<1> QED BY <1>4, <1>7, <1>8 DEF g, RoomIn

\* takeParkedPosition finds a place that is far enough from the others.
LEMMA PlaceFound ==
    ASSUME Typed, NEW a \in Anchors, FreePlaces(a) # {}
    PROVE  TakeParkedPosition(a) \in PlacesOf(a) /\ Fits(TakeParkedPosition(a))
<1>1. FreePlaces(a) \subseteq Nat
  BY PackIs DEF Typed, FreePlaces
<1>2. \E i \in FreePlaces(a) : \A j \in FreePlaces(a) : i <= j
  BY <1>1, LeastNumber
<1> DEFINE k == CHOOSE i \in FreePlaces(a) : \A j \in FreePlaces(a) : i <= j
<1>3. k \in FreePlaces(a)
  BY <1>2
<1>4. TakeParkedPosition(a) = pack.anchors[a].places[k]
  BY DEF TakeParkedPosition
<1> HIDE DEF k
<1> QED BY <1>3, <1>4 DEF FreePlaces, PlacesOf

\* The vehicles that stand in a region are counted.
LEMMA ParkedAre ==
    ASSUME Typed
    PROVE  /\ \A a \in Anchors : /\ ParkedAt(a) \in SUBSET Vehicles /\ IsFiniteSet(ParkedAt(a))
                                 /\ Cardinality(ParkedAt(a)) \in Nat
           /\ \A g \in Regions : ParkedAssigned(g) \in Nat
<1>1. \A a \in Anchors : ParkedAt(a) \in SUBSET Vehicles
  BY DEF ParkedAt
<1>2. \A g \in Regions :
        UNION {ParkedAt(a) : a \in {a \in Anchors : AnchorRegion(a) = g}} \in SUBSET Vehicles
  BY <1>1
<1> QED BY <1>1, <1>2, VehiclesAre DEF ParkedAssigned

\* As long as an anchor has a place left, the heaps give one.
LEMMA AnchorFound ==
    ASSUME Typed, ParkedRegions # {}
    PROVE  LET a == NextAnchor(NextParkedRegion)
           IN  a \in Anchors /\ FreePlaces(a) # {} /\ NextParkedRegion \in Regions
<1> DEFINE g == NextParkedRegion
<1>1. g \in ParkedRegions
  <2> DEFINE share == [h \in ParkedRegions |-> Twice(ParkedAssigned(h))]
  <2>1. ParkedRegions \subseteq Regions /\ DOMAIN share = ParkedRegions
    BY DEF ParkedRegions
  <2>2. IsFiniteSet(ParkedRegions) /\ ParkedRegions \subseteq Nat
    BY <2>1, PackIs, FS_Subset DEF Typed
  <2>3. ASSUME NEW h \in ParkedRegions
        PROVE  share[h] \in Nat /\ pack.weight[h] \in Nat \ {0}
    <3>1. ParkedAssigned(h) \in Nat /\ pack.weight[h] \in Nat \ {0}
      BY <2>1, ParkedAre, PackIs DEF Typed
    <3> QED BY <3>1 DEF Twice
  <2>4. g = Least(share, pack.weight, 1)
    BY DEF NextParkedRegion
  <2> HIDE DEF share
  <2> QED BY <2>1, <2>2, <2>3, <2>4, LeastIs
<1>2. g \in Regions /\ OpenAnchors(g) # {}
  BY <1>1 DEF ParkedRegions
<1> HIDE DEF g
<1>3. NextAnchor(g) \in OpenAnchors(g)
  <2> DEFINE share == [a \in OpenAnchors(g) |-> Cardinality(ParkedAt(a))]
             weight == [a \in Anchors |-> 1]
  <2>1. OpenAnchors(g) \subseteq Anchors /\ DOMAIN share = OpenAnchors(g)
    BY DEF OpenAnchors
  <2>2. IsFiniteSet(OpenAnchors(g)) /\ OpenAnchors(g) \subseteq Nat
    BY <2>1, PackIs, FS_Subset DEF Typed
  <2>3. \A a \in OpenAnchors(g) : share[a] \in Nat /\ weight[a] \in Nat \ {0}
    BY <2>1, ParkedAre
  <2>4. NextAnchor(g) = Least(share, weight, seed)
    BY DEF NextAnchor
  <2>5. seed \in {1, -1}
    BY SeedAssumption DEF Typed
  <2> HIDE DEF share, weight
  <2> QED BY <1>2, <2>1, <2>2, <2>3, <2>4, <2>5, LeastIs
<1> QED BY <1>2, <1>3 DEF g, OpenAnchors

-----------------------------------------------------------------------------
(* What an assignment changes                                              *)

\* What a pack determines stays as it is.
LEMMA SamePack ==
    ASSUME pack' = pack
    PROVE  /\ Regions' = Regions /\ Routes' = Routes /\ Anchors' = Anchors
           /\ \A r : RegionOf(r)' = RegionOf(r)
           /\ \A a : AnchorRegion(a)' = AnchorRegion(a) /\ PlacesOf(a)' = PlacesOf(a)
           /\ \A p, q : Near(p, q)' = Near(p, q)
           /\ Movers' = Movers /\ ParkedOnes' = ParkedOnes /\ Assigned' = Assigned
  BY DEF Regions, Routes, Anchors, RegionOf, AnchorRegion, PlacesOf, Near, Movers, ParkedOnes, Assigned

\* What the type invariant says, in the words of the lemmas.
LEMMA Types ==
    ASSUME TypeOK
    PROVE  /\ Typed
           /\ saved \in [Vehicles -> Assigned \cup {None}]
           /\ restored \in [Vehicles -> Assigned \cup {None}]
           /\ next \in Nat /\ next >= 1 /\ next <= MaxVehicles + 1
           /\ colliding \subseteq moved /\ moved \subseteq Vehicles
  BY VehiclesAre DEF TypeOK, Typed, Assigned

\* Everything the properties speak of, when no vehicle is assigned.
LEMMA SameAssignment ==
    ASSUME pack' = pack, fleet' = fleet, assignment' = assignment
    PROVE  /\ \A r : /\ Capacity(r)' = Capacity(r) /\ MoversOn(r)' = MoversOn(r)
                     /\ Occupancy(r)' = Occupancy(r)
           /\ \A a : ParkedAt(a)' = ParkedAt(a)
           /\ StandApart' = StandApart /\ WithinCapacity' = WithinCapacity
           /\ MissingMoving' = MissingMoving /\ AvailableCapacity' = AvailableCapacity
<1>1. /\ Routes' = Routes /\ Anchors' = Anchors
      /\ \A p, q : Near(p, q)' = Near(p, q)
  BY SamePack
<1>2. \A r : Capacity(r)' = Capacity(r) /\ MoversOn(r)' = MoversOn(r)
  BY DEF Capacity, MoversOn
<1>3. \A r : Occupancy(r)' = Occupancy(r)
  BY <1>2 DEF Occupancy
<1>4. \A a : ParkedAt(a)' = ParkedAt(a)
  BY DEF ParkedAt
<1>5. StandApart' = StandApart
  BY <1>1, <1>4 DEF StandApart
<1>6. WithinCapacity' = WithinCapacity
  BY <1>1, <1>2, <1>3 DEF WithinCapacity
<1>7. MissingMoving' = MissingMoving
  BY DEF MissingMoving
<1>8. AvailableCapacity' = AvailableCapacity
  BY DEF AvailableCapacity, SlotsIn, Capacity, MoversOn, Routes
<1> QED BY <1>2, <1>3, <1>4, <1>5, <1>6, <1>7, <1>8

Parks(v) == assignment[v] # None /\ ~assignment[v].moving

\* The reserved places are those of the stationary vehicles.
LEMMA ReservedIs ==
    ASSUME Typed
    PROVE  /\ \A v \in Vehicles : Parks(v) => assignment[v].place \in Reserved
           /\ \A p \in Reserved : \E v \in Vehicles : Parks(v) /\ assignment[v].place = p
           /\ StandApart <=> \A v, w \in Vehicles :
                Parks(v) /\ Parks(w) /\ v # w => ~Near(assignment[v].place, assignment[w].place)
<1>1. \A v \in Vehicles : Parks(v) =>
        assignment[v].anchor \in Anchors /\ v \in ParkedAt(assignment[v].anchor)
  BY AssignedIs DEF Typed, Parks, ParkedAt
<1>2. \A a : \A v \in ParkedAt(a) : v \in Vehicles /\ Parks(v)
  BY DEF ParkedAt, Parks
<1>3. \A v \in Vehicles : Parks(v) => assignment[v].place \in Reserved
  BY <1>1 DEF Reserved
<1>4. \A p \in Reserved : \E v \in Vehicles : Parks(v) /\ assignment[v].place = p
  BY <1>2 DEF Reserved
<1>5. StandApart <=> \A v, w \in Vehicles :
        Parks(v) /\ Parks(w) /\ v # w => ~Near(assignment[v].place, assignment[w].place)
  BY <1>1, <1>2 DEF StandApart
<1> QED BY <1>3, <1>4, <1>5

\* What changes when a vehicle is assigned.
LEMMA Placing ==
    ASSUME Typed, pack' = pack, fleet' = fleet, NEW v \in Vehicles, assignment[v] = None,
           NEW x \in Assigned, assignment' = [assignment EXCEPT ![v] = x]
    PROVE  /\ assignment' \in [Vehicles -> Assigned \cup {None}]
           /\ \A w \in Vehicles : assignment'[w] = IF w = v THEN x ELSE assignment[w]
           /\ \A r : MoversOn(r)' = MoversOn(r) \cup (IF x.moving /\ x.route = r THEN {v} ELSE {})
           /\ \A r : v \notin MoversOn(r)
           /\ \A r : Capacity(r)' = Capacity(r)
           /\ StandApart /\ (~x.moving => Fits(x.place)) => StandApart'
<1>1. assignment' \in [Vehicles -> Assigned \cup {None}]
  BY DEF Typed
<1>2. \A w \in Vehicles : assignment'[w] = IF w = v THEN x ELSE assignment[w]
  BY DEF Typed
<1>3. x # None
  BY AssignedIs DEF Typed
<1>4. ASSUME NEW r
      PROVE MoversOn(r)' = MoversOn(r) \cup (IF x.moving /\ x.route = r THEN {v} ELSE {})
  BY <1>2, <1>3 DEF MoversOn
<1>5. \A r : v \notin MoversOn(r)
  BY DEF MoversOn
<1>6. \A r : Capacity(r)' = Capacity(r)
  BY DEF Capacity
<1>7. ASSUME StandApart, ~x.moving => Fits(x.place) PROVE StandApart'
  <2>1. \A u, w \in Vehicles :
          Parks(u) /\ Parks(w) /\ u # w => ~Near(assignment[u].place, assignment[w].place)
    BY <1>7, ReservedIs
  <2>2. ~x.moving => \A u \in Vehicles :
          Parks(u) => ~Near(assignment[u].place, x.place) /\ ~Near(x.place, assignment[u].place)
    <3> SUFFICES ASSUME ~x.moving, NEW u \in Vehicles, Parks(u)
                 PROVE  ~Near(assignment[u].place, x.place) /\ ~Near(x.place, assignment[u].place)
      OBVIOUS
    <3>1. ~Near(assignment[u].place, x.place)
      BY <1>7, ReservedIs DEF Fits
    <3>2. {assignment[u].place, x.place} = {x.place, assignment[u].place}
      OBVIOUS
    <3> QED BY <3>1, <3>2 DEF Near
  <2>3. \A a, b : Near(a, b)' = Near(a, b)
    BY SamePack
  <2>4. Parks(v)' <=> ~x.moving
    BY <1>2, <1>3 DEF Parks
  <2>5. \A u \in Vehicles : u # v => (Parks(u)' <=> Parks(u)) /\ assignment'[u] = assignment[u]
    BY <1>2 DEF Parks
  <2>6. assignment'[v] = x
    BY <1>2
  <2>7. ASSUME NEW a, NEW b, NEW u \in ParkedAt(a)', NEW w \in ParkedAt(b)', u # w
        PROVE  ~Near(assignment'[u].place, assignment'[w].place)
    <3>1. u \in Vehicles /\ w \in Vehicles /\ Parks(u)' /\ Parks(w)'
      BY DEF ParkedAt, Parks
    <3>2. CASE u = v
      <4>1. w # v /\ Parks(w) /\ ~x.moving
        BY <2>4, <2>5, <2>7, <3>1, <3>2
      <4> QED BY <2>2, <2>5, <2>6, <3>1, <3>2, <4>1
    <3>3. CASE w = v
      <4>1. u # v /\ Parks(u) /\ ~x.moving
        BY <2>4, <2>5, <2>7, <3>1, <3>3
      <4> QED BY <2>2, <2>5, <2>6, <3>1, <3>3, <4>1
    <3>4. CASE u # v /\ w # v
      BY <2>1, <2>5, <2>7, <3>1, <3>4
    <3> QED BY <3>2, <3>3, <3>4
  <2> QED BY <2>3, <2>7 DEF StandApart
<1> QED BY <1>1, <1>2, <1>4, <1>5, <1>6, <1>7

-----------------------------------------------------------------------------
(* The steps of a call                                                     *)

Phases == {"restore", "relocate", "check", "moving", "parked", "placed"}

\* What no step of a call changes but its end.
Stays == UNCHANGED <<pack, seed, saved, fleet, mode, restored, retried, launched, promised>>

\* Vehicles and the routes under them, in the words of the invariant.
LEMMA PhasesAre ==
    ASSUME TypeOK
    PROVE  /\ Running <=> pc \in Phases
           /\ pc' \in Phases \cup {"idle", "failed"} => (Running' <=> pc' \in Phases)
  BY DEF TypeOK, Running, Phases

\* Within a call only the placement has to be looked at.
LEMMA StaysInv ==
    ASSUME PlacementInv, Stays, pc # "idle", pc' \in Phases \cup {"failed"}, failure' \in Failures,
           assignment' \in [Vehicles -> Assigned \cup {None}], ordinal' \in [Routes -> Nat],
           next' \in 1 .. MaxVehicles + 1, colliding' \subseteq moved', moved' \subseteq Vehicles,
           pc' \in Phases => RestoreInv' /\ SpaceInv' /\ ProgressInv'
    PROVE  PlacementInv'
<1>1. /\ Routes' = Routes /\ Movers' = Movers /\ ParkedOnes' = ParkedOnes
      /\ \A r \in Routes : pack'.routes[r] = pack.routes[r]
  BY SamePack DEF Stays
<1>2. TypeOK'
  <2>1. TypeOK
    BY DEF PlacementInv
  <2>2. pc' \in {"idle", "restore", "relocate", "check", "moving", "parked", "placed", "failed"}
    BY DEF Phases
  <2>3. assignment' \in [Vehicles -> Movers \cup ParkedOnes \cup {None}]
    BY DEF Assigned
  <2> QED BY <1>1, <2>1, <2>2, <2>3 DEF TypeOK, Stays
<1>3. CallInv'
  <2>1. pc' # "idle"
    BY DEF Phases
  <2>2. CallInv
    BY DEF PlacementInv
  <2> QED BY <2>1, <2>2 DEF CallInv, Stays, Nobody, Stationary
<1>4. SavedInv'
  <2>1. \A r : SavedMovers(r)' = SavedMovers(r)
    BY DEF SavedMovers, Stays
  <2> QED BY <1>1, <2>1 DEF PlacementInv, SavedInv
<1>5. Running' => pc' \in Phases
  BY DEF Running, Phases
<1> QED BY <1>2, <1>3, <1>4, <1>5 DEF PlacementInv

\* A call that throws says why.
LEMMA ThrowStep ==
    ASSUME PlacementInv, pc # "idle", NEW why \in Failures, Throw(why)
    PROVE  PlacementInv'
<1>1. /\ Stays /\ pc' = "failed" /\ failure' \in Failures /\ assignment' = assignment
      /\ ordinal' = ordinal /\ next' = next /\ colliding' = colliding /\ moved' = moved
  BY DEF Throw, Stays
<1>2. /\ assignment \in [Vehicles -> Assigned \cup {None}] /\ ordinal \in [Routes -> Nat]
      /\ next \in 1 .. MaxVehicles + 1 /\ colliding \subseteq moved /\ moved \subseteq Vehicles
  BY DEF PlacementInv, TypeOK, Assigned
<1>3. pc' \in Phases \cup {"failed"} /\ pc' \notin Phases
  BY <1>1 DEF Phases
<1> QED BY <1>1, <1>2, <1>3, StaysInv

\* A step that only goes on keeps the assignments.
LEMMA GoToStep ==
    ASSUME PlacementInv, pc # "idle", NEW phase \in Phases, NEW first \in 1 .. MaxVehicles + 1,
           GoTo(phase, first), RestoreInv', ProgressInv',
           Running, phase \in {"moving", "parked", "placed"} => WithinCapacity
    PROVE  PlacementInv'
<1>1. /\ Stays /\ pc' \in Phases /\ failure' = failure /\ assignment' = assignment
      /\ ordinal' = ordinal /\ next' = first /\ colliding' = colliding /\ moved' = moved
      /\ pc' = phase
  BY DEF GoTo, Stays
<1>2. /\ assignment \in [Vehicles -> Assigned \cup {None}] /\ ordinal \in [Routes -> Nat]
      /\ colliding \subseteq moved /\ moved \subseteq Vehicles /\ failure \in Failures
  BY DEF PlacementInv, TypeOK, Assigned
<1>3. SpaceInv'
  <2>1. /\ \A r : Capacity(r)' = Capacity(r) /\ MoversOn(r)' = MoversOn(r)
        /\ StandApart' = StandApart /\ WithinCapacity' = WithinCapacity /\ Routes' = Routes
    BY <1>1, SameAssignment, SamePack DEF Stays
  <2>2. SpaceInv
    BY DEF PlacementInv
  <2> QED BY <1>1, <2>1, <2>2 DEF SpaceInv, Stays
<1> QED BY <1>1, <1>2, <1>3, StaysInv

\* A call begins with nothing assigned.
LEMMA CallMade ==
    ASSUME TypeOK, NEW f \in Fleets \cup {Stationary(n) : n \in Vehicles},
           NEW m \in {"start", "preflight"}, NEW source \in [Vehicles -> Assigned \cup {None}],
           NEW again \in BOOLEAN, Call(f, m, source, again)
    PROVE  TypeOK' /\ Running' /\ RestoreInv' /\ SpaceInv' /\ ProgressInv' /\ pc' = "restore"
<1>1. /\ Routes' = Routes /\ Movers' = Movers /\ ParkedOnes' = ParkedOnes
  BY SamePack DEF Call
<1>2. Nobody \in [Vehicles -> Assigned \cup {None}] /\ \A v \in Vehicles : Nobody[v] = None
  BY DEF Nobody
<1>3. /\ fleet' = f /\ mode' = m /\ restored' = source /\ retried' = again
      /\ pc' = "restore" /\ next' = 1 /\ colliding' = {} /\ moved' = {} /\ assignment' = Nobody
      /\ ordinal' = [r \in Routes |-> 0]
      /\ UNCHANGED <<pack, seed, saved, failure, launched, promised>>
  BY DEF Call
<1>4. TypeOK'
  <2>1. /\ ordinal' \in [Routes -> Nat] /\ 1 \in 1 .. MaxVehicles + 1
    BY <1>3, VehiclesAre
  <2> QED BY <1>1, <1>2, <1>3, <2>1 DEF TypeOK, Assigned
<1>5. \A v \in Vehicles : assignment'[v] = None
  BY <1>2, <1>3
<1>6. RestoreInv'
  <2>1. ASSUME NEW v \in Vehicles PROVE ~Passed(v)'
    <3>1. v \in Nat /\ v >= 1
      BY VehiclesAre
    <3> QED BY <1>3, <3>1 DEF Passed
  <2> QED BY <1>3, <1>5, <2>1 DEF RestoreInv
<1>7. \A r : MoversOn(r)' = {}
  BY <1>5 DEF MoversOn
<1>8. \A a : ParkedAt(a)' = {}
  BY <1>5 DEF ParkedAt
<1>9. SpaceInv'
  BY <1>3, <1>5, <1>7, <1>8 DEF SpaceInv, StandApart
<1>10. ProgressInv' /\ Running'
  BY <1>3 DEF ProgressInv, Running
<1> QED BY <1>3, <1>4, <1>6, <1>9, <1>10

\* The loop over the restored vehicles.
LEMMA RestoreStep == ASSUME PlacementInv, Restore PROVE PlacementInv'
<1> DEFINE v == next
           x == restored[next]
<1>1. /\ pc = "restore" /\ v \in Vehicles /\ v <= fleet.vehicles /\ x # None
      /\ v \in Nat /\ fleet.vehicles \in Nat /\ fleet.moving \in Nat
      /\ v + 1 \in 1 .. MaxVehicles + 1
  <2>1. /\ pc = "restore" /\ v <= fleet.vehicles /\ x # None /\ v \in Nat /\ v >= 1
        /\ fleet.vehicles \in Vehicles /\ fleet.moving \in Nat
    BY Types DEF PlacementInv, CallInv, Restore
  <2> QED BY <2>1, VehiclesAre DEF Vehicles
<1>2. /\ Typed /\ x \in Assigned /\ assignment[v] = None /\ Running
      /\ RestoreInv /\ SpaceInv
  <2>1. Typed /\ restored \in [Vehicles -> Assigned \cup {None}]
    BY Types DEF PlacementInv
  <2>2. Running
    BY <1>1 DEF Running
  <2>3. RestoreInv /\ SpaceInv
    BY <2>2 DEF PlacementInv
  <2> QED BY <1>1, <2>1, <2>2, <2>3 DEF RestoreInv
<1>3. /\ x.moving \in BOOLEAN
      /\ x.moving => x.route \in Routes
      /\ ~x.moving => x.anchor \in Anchors
  BY <1>2, AssignedIs DEF Typed
<1>4. /\ failure \in Failures /\ ordinal \in [Routes -> Nat]
      /\ colliding \subseteq moved /\ moved \subseteq Vehicles
      /\ assignment \in [Vehicles -> Assigned \cup {None}]
  BY Types DEF PlacementInv, Typed
<1>5. CASE RoleChanged(next)
  <2>1. Throw("role")
    BY <1>5 DEF Restore
  <2> QED BY <1>1, <2>1, ThrowStep DEF Failures
<1>6. CASE ~RoleChanged(next) /\ x.moving /\ Capacity(x.route) = 0
  <2>1. Throw("continuous")
    BY <1>6 DEF Restore
  <2> QED BY <1>1, <2>1, ThrowStep DEF Failures
<1>7. CASE ~RoleChanged(next) /\ ~x.moving /\ Collides(next)
  <2>1. /\ colliding' = colliding \cup {v} /\ moved' = moved \cup {v} /\ next' = v + 1
        /\ Stays /\ pc' = pc /\ assignment' = assignment /\ ordinal' = ordinal
        /\ failure' = failure
    BY <1>7 DEF Restore, Stays
  <2>2. x.moving = (v <= fleet.moving)
    BY <1>1, <1>3, <1>7 DEF RoleChanged
  <2>3. RestoreInv'
    <3>1. \A u \in Vehicles : Passed(u)' <=> Passed(u) \/ u = v
      BY <1>1, <2>1, VehiclesAre DEF Passed, Stays
    <3>2. ~Passed(v)
      BY <1>1 DEF Passed
    <3>3. \A u \in Vehicles : (u >= next')  => u >= next
      BY <1>1, <2>1, VehiclesAre
    <3>4. \A u \in moved' : Passed(u)' /\ restored'[u] # None /\ ~restored'[u].moving
      BY <1>1, <1>2, <1>4, <1>7, <2>1, <3>1 DEF RestoreInv, Stays
    <3>5. \A u \in colliding' : assignment'[u] = None
      BY <1>1, <1>2, <2>1 DEF RestoreInv
    <3>6. ASSUME NEW u \in Vehicles
          PROVE  /\ assignment'[u] # None =>
                      u <= fleet'.vehicles /\ assignment'[u].moving = (u <= fleet'.moving)
                 /\ Passed(u)' /\ restored'[u] # None =>
                      /\ restored'[u].moving = (u <= fleet'.moving)
                      /\ u \notin moved' => assignment'[u] = restored'[u]
                 /\ u >= next' => assignment'[u] = None
                 /\ restored'[u] = None => assignment'[u] = None
      BY <1>1, <1>2, <2>1, <2>2, <3>1, <3>3 DEF RestoreInv, Stays
    <3> QED BY <1>1, <2>1, <3>4, <3>5, <3>6 DEF RestoreInv
  <2>4. SpaceInv'
    <3>1. /\ \A r : Capacity(r)' = Capacity(r) /\ MoversOn(r)' = MoversOn(r)
          /\ StandApart' = StandApart /\ Routes' = Routes
      BY <2>1, SameAssignment, SamePack DEF Stays
    <3> QED BY <1>1, <1>2, <2>1, <3>1 DEF SpaceInv, Stays
  <2>5. ProgressInv'
    BY <1>1, <2>1 DEF ProgressInv
  <2>6. pc' \in Phases
    BY <1>1, <2>1 DEF Phases
  <2> QED BY <1>1, <1>4, <2>1, <2>3, <2>4, <2>5, <2>6, StaysInv
<1>8. CASE ~RoleChanged(next) /\ ~(x.moving /\ Capacity(x.route) = 0) /\ ~(~x.moving /\ Collides(next))
  <2>1. /\ assignment' = [assignment EXCEPT ![v] = x] /\ next' = v + 1
        /\ Stays /\ pc' = pc /\ ordinal' = ordinal /\ failure' = failure
        /\ colliding' = colliding /\ moved' = moved
    BY <1>8 DEF Restore, Stays, Assign
  <2>2. x.moving = (v <= fleet.moving)
    BY <1>1, <1>3, <1>8 DEF RoleChanged
  <2>3. /\ assignment' \in [Vehicles -> Assigned \cup {None}]
        /\ \A w \in Vehicles : assignment'[w] = IF w = v THEN x ELSE assignment[w]
        /\ \A r : MoversOn(r)' = MoversOn(r) \cup (IF x.moving /\ x.route = r THEN {v} ELSE {})
        /\ \A r : Capacity(r)' = Capacity(r)
        /\ StandApart /\ (~x.moving => Fits(x.place)) => StandApart'
    BY <1>1, <1>2, <2>1, Placing DEF Stays
  <2>4. RestoreInv'
    <3>1. \A u \in Vehicles : Passed(u)' <=> Passed(u) \/ u = v
      BY <1>1, <2>1, VehiclesAre DEF Passed, Stays
    <3>3. \A u \in Vehicles : (u >= next')  => u >= next /\ u # v
      BY <1>1, <2>1, VehiclesAre
    <3>4. v \notin moved
      BY <1>1, <1>2 DEF RestoreInv, Passed
    <3>5. \A u \in moved' : Passed(u)' /\ restored'[u] # None /\ ~restored'[u].moving
      BY <1>1, <1>2, <1>4, <2>1, <3>1 DEF RestoreInv, Stays
    <3>6. \A u \in colliding' : assignment'[u] = None
      BY <1>1, <1>2, <1>4, <2>1, <2>3, <3>4 DEF RestoreInv
    <3>7. ASSUME NEW u \in Vehicles
          PROVE  /\ assignment'[u] # None =>
                      u <= fleet'.vehicles /\ assignment'[u].moving = (u <= fleet'.moving)
                 /\ Passed(u)' /\ restored'[u] # None =>
                      /\ restored'[u].moving = (u <= fleet'.moving)
                      /\ u \notin moved' => assignment'[u] = restored'[u]
                 /\ u >= next' => assignment'[u] = None
                 /\ restored'[u] = None => assignment'[u] = None
      BY <1>1, <1>2, <2>1, <2>2, <2>3, <3>1, <3>3 DEF RestoreInv, Stays
    <3> QED BY <1>1, <2>1, <3>5, <3>6, <3>7 DEF RestoreInv
  <2>5. SpaceInv'
    <3>1. StandApart'
      BY <1>2, <1>3, <1>8, <2>3 DEF SpaceInv, Collides
    <3>2. ASSUME NEW u \in Vehicles, assignment'[u] # None, assignment'[u].moving
          PROVE  Capacity(assignment[u].route)' > 0
      <4>1. CASE u = v
        <5>1. assignment'[u] = x /\ x.moving
          BY <2>3, <3>2, <4>1
        <5>2. Capacity(x.route) \in Nat /\ Capacity(x.route) # 0
          BY <1>2, <1>3, <1>8, <5>1, CapacityIs DEF Typed
        <5>3. Capacity(assignment[u].route)' = Capacity(x.route)
          BY <2>3, <5>1
        <5> QED BY <5>2, <5>3
      <4>2. CASE u # v
        <5>1. assignment'[u] = assignment[u]
          BY <2>3, <4>2
        <5>2. Capacity(assignment[u].route)' = Capacity(assignment[u].route)
          BY <2>3, <5>1
        <5> QED BY <1>2, <3>2, <5>1, <5>2 DEF SpaceInv
      <4> QED BY <4>1, <4>2
    <3>3. ASSUME NEW r, NEW u \in MoversOn(r)' PROVE restored'[u] # None
      <4>1. CASE u = v
        BY <1>1, <2>1, <4>1 DEF Stays
      <4>2. CASE u # v
        <5>1. u \in MoversOn(r)
          BY <2>3, <3>3, <4>2
        <5> QED BY <1>1, <1>2, <2>1, <5>1 DEF MoversOn, RestoreInv, Stays
      <4> QED BY <4>1, <4>2
    <3>4. pc' \notin {"moving", "parked", "placed"}
      BY <1>1, <2>1
    <3> QED BY <3>1, <3>2, <3>3, <3>4 DEF SpaceInv
  <2>6. ProgressInv' /\ pc' \in Phases
    BY <1>1, <2>1 DEF ProgressInv, Phases
  <2> QED BY <1>1, <1>4, <2>1, <2>3, <2>4, <2>5, <2>6, StaysInv
<1> QED BY <1>3, <1>5, <1>6, <1>7, <1>8

\* What holds in a call that has not thrown.
LEMMA RunningIs ==
    ASSUME PlacementInv, pc \in Phases
    PROVE  /\ Running /\ RestoreInv /\ SpaceInv /\ ProgressInv /\ Typed /\ TypeOK /\ CallInv
           /\ pc # "idle"
           /\ failure \in Failures /\ ordinal \in [Routes -> Nat]
           /\ colliding \subseteq moved /\ moved \subseteq Vehicles
           /\ assignment \in [Vehicles -> Assigned \cup {None}]
           /\ restored \in [Vehicles -> Assigned \cup {None}]
           /\ fleet.vehicles \in Vehicles /\ fleet.vehicles \in Nat /\ fleet.moving \in Nat
           /\ fleet.moving <= fleet.vehicles
           /\ next \in 1 .. MaxVehicles + 1 /\ next \in Nat
           /\ next <= fleet.vehicles => next \in Vehicles /\ next + 1 \in 1 .. MaxVehicles + 1
<1>1. Running /\ pc # "idle"
  BY DEF Phases, Running
<1>2. /\ fleet.vehicles \in Vehicles /\ fleet.moving \in Nat /\ fleet.moving <= fleet.vehicles
      /\ TypeOK /\ CallInv
  BY DEF PlacementInv, CallInv
<1>3. fleet.vehicles \in Nat /\ fleet.vehicles <= MaxVehicles
  BY <1>2, VehiclesAre
<1>4. /\ next \in Nat /\ next >= 1 /\ next <= MaxVehicles + 1 /\ MaxVehicles \in Nat
  BY <1>2, Types, VehiclesAre
<1>5. /\ next \in 1 .. MaxVehicles + 1
      /\ next <= fleet.vehicles => next \in Vehicles /\ next + 1 \in 1 .. MaxVehicles + 1
  BY <1>3, <1>4 DEF Vehicles
<1> QED BY <1>1, <1>2, <1>3, <1>4, <1>5, Types DEF PlacementInv, Typed

\* A newcomer keeps its distance.
LEMMA PlacedSpace ==
    ASSUME Typed, SpaceInv, Stays, NEW v \in Vehicles, assignment[v] = None,
           NEW x \in Assigned, assignment' = [assignment EXCEPT ![v] = x],
           x.moving => Capacity(x.route) > 0 /\ x.slot \notin UsedSlots(x.route),
           ~x.moving => Fits(x.place),
           pc' \in {"moving", "parked", "placed"} => WithinCapacity'
    PROVE  SpaceInv'
<1>1. /\ \A w \in Vehicles : assignment'[w] = IF w = v THEN x ELSE assignment[w]
      /\ \A r : MoversOn(r)' = MoversOn(r) \cup (IF x.moving /\ x.route = r THEN {v} ELSE {})
      /\ \A r : v \notin MoversOn(r)
      /\ \A r : Capacity(r)' = Capacity(r)
      /\ StandApart /\ (~x.moving => Fits(x.place)) => StandApart'
  BY Placing DEF Stays
<1>2. StandApart'
  BY <1>1 DEF SpaceInv
<1>3. ASSUME NEW u \in Vehicles, assignment'[u] # None, assignment'[u].moving
      PROVE  Capacity(assignment[u].route)' > 0
  <2>1. CASE u = v
    <3>1. assignment'[u] = x /\ x.moving
      BY <1>1, <1>3, <2>1
    <3>2. Capacity(assignment[u].route)' = Capacity(x.route)
      BY <1>1, <3>1
    <3> QED BY <3>1, <3>2
  <2>2. CASE u # v
    <3>1. assignment'[u] = assignment[u]
      BY <1>1, <2>2
    <3>2. Capacity(assignment[u].route)' = Capacity(assignment[u].route)
      BY <1>1, <3>1
    <3> QED BY <1>3, <3>1, <3>2 DEF SpaceInv
  <2> QED BY <2>1, <2>2
<1>4. ASSUME NEW r \in Routes', NEW u \in MoversOn(r)', NEW w \in MoversOn(r)',
             u # w, restored'[u] = None
      PROVE  assignment'[u].slot # assignment'[w].slot
  <2>1. r \in Routes /\ restored'[u] = restored[u]
    BY SamePack DEF Stays
  <2>2. u \in Vehicles /\ w \in Vehicles
    BY DEF MoversOn
  <2>3. \A y \in MoversOn(r) : assignment[y].slot \in UsedSlots(r) /\ y # v
    BY <1>1 DEF UsedSlots
  <2>4. CASE u = v
    <3>1. x.moving /\ x.route = r /\ w \in MoversOn(r)
      BY <1>1, <1>4, <2>4
    <3> QED BY <1>1, <2>2, <2>3, <2>4, <3>1
  <2>5. CASE w = v
    <3>1. x.moving /\ x.route = r /\ u \in MoversOn(r)
      BY <1>1, <1>4, <2>5
    <3> QED BY <1>1, <2>2, <2>3, <2>5, <3>1
  <2>6. CASE u # v /\ w # v
    <3>1. u \in MoversOn(r) /\ w \in MoversOn(r)
      BY <1>1, <1>4, <2>6
    <3> QED BY <1>1, <1>4, <2>1, <2>2, <2>6, <3>1 DEF SpaceInv
  <2> QED BY <2>4, <2>5, <2>6
<1> QED BY <1>2, <1>3, <1>4 DEF SpaceInv

\* A vehicle without a checkpoint is passed over.
LEMMA NothingSavedStep == ASSUME PlacementInv, NothingSaved PROVE PlacementInv'
<1>1. /\ pc = "restore" /\ next <= fleet.vehicles /\ restored[next] = None
      /\ GoTo("restore", next + 1)
  BY DEF NothingSaved
<1>2. pc \in Phases /\ "restore" \in Phases
  BY <1>1 DEF Phases
<1>3. /\ next \in Vehicles /\ next + 1 \in 1 .. MaxVehicles + 1 /\ next \in Nat
      /\ RestoreInv /\ Running /\ pc # "idle"
  BY <1>1, <1>2, RunningIs
<1>4. /\ pc' = "restore" /\ next' = next + 1
      /\ UNCHANGED <<fleet, restored, moved, colliding, assignment>>
  BY <1>1 DEF GoTo
<1>5. RestoreInv'
  <2>1. \A u \in Vehicles : (Passed(u)' => Passed(u) \/ u = next) /\ (Passed(u) => Passed(u)')
    BY <1>1, <1>3, <1>4, VehiclesAre DEF Passed
  <2>2. \A u \in Vehicles : u >= next' => u >= next
    BY <1>3, <1>4, VehiclesAre
  <2>3. moved \subseteq Vehicles
    BY <1>2, RunningIs
  <2> QED BY <1>1, <1>3, <1>4, <2>1, <2>2, <2>3 DEF RestoreInv
<1>6. ProgressInv'
  BY <1>4 DEF ProgressInv
<1> QED BY <1>1, <1>2, <1>3, <1>5, <1>6, GoToStep

\* From restoring to relocating.
LEMMA AllRestoredStep == ASSUME PlacementInv, AllRestored PROVE PlacementInv'
<1>1. pc = "restore" /\ next > fleet.vehicles /\ GoTo("relocate", next)
  BY DEF AllRestored
<1>2. pc \in Phases /\ "relocate" \in Phases
  BY <1>1 DEF Phases
<1>3. /\ next \in 1 .. MaxVehicles + 1 /\ next \in Nat /\ fleet.vehicles \in Nat
      /\ RestoreInv /\ Running /\ pc # "idle" /\ moved \subseteq Vehicles
  BY <1>1, <1>2, RunningIs
<1>4. /\ pc' = "relocate" /\ UNCHANGED <<fleet, restored, moved, colliding, assignment>>
  BY <1>1 DEF GoTo
<1>5. RestoreInv'
  <2>1. \A u \in Vehicles : Passed(u)' <=> Passed(u)
    BY <1>1, <1>3, <1>4, VehiclesAre DEF Passed
  <2> QED BY <1>1, <1>3, <1>4, <2>1 DEF RestoreInv
<1>6. ProgressInv'
  BY <1>4 DEF ProgressInv
<1> QED BY <1>1, <1>2, <1>3, <1>5, <1>6, GoToStep

\* A vehicle that was too close to another stays apart where it is put.
LEMMA RelocateStep == ASSUME PlacementInv, Relocate PROVE PlacementInv'
<1> DEFINE v == CHOOSE y \in colliding : \A z \in colliding : y <= z
           a == restored[v].anchor
           x == Parked(a, TakeParkedPosition(a), TRUE)
<1>1. /\ pc = "relocate" /\ colliding # {} /\ colliding' = colliding \ {v}
      /\ IF FreePlaces(a) = {} THEN assignment' = assignment
         ELSE assignment' = [assignment EXCEPT ![v] = x]
      /\ Stays /\ pc' = pc /\ next' = next /\ moved' = moved /\ ordinal' = ordinal
      /\ failure' = failure
  BY DEF Relocate, Stays
<1>2. pc \in Phases
  BY <1>1 DEF Phases
<1>3. /\ RestoreInv /\ SpaceInv /\ Running /\ pc # "idle" /\ Typed /\ colliding \subseteq moved
      /\ moved \subseteq Vehicles /\ failure \in Failures /\ ordinal \in [Routes -> Nat]
      /\ next \in 1 .. MaxVehicles + 1 /\ restored \in [Vehicles -> Assigned \cup {None}]
      /\ assignment \in [Vehicles -> Assigned \cup {None}]
  BY <1>2, RunningIs
<1>4. v \in colliding
  <2>1. colliding \subseteq Nat
    BY <1>3, VehiclesAre
  <2> QED BY <1>1, <2>1, LeastNumber
<1> HIDE DEF v
<1>5. /\ v \in Vehicles /\ v \in moved /\ assignment[v] = None /\ restored[v] # None
      /\ restored[v] \in Assigned /\ ~restored[v].moving
      /\ Passed(v) /\ FALSE = (v <= fleet.moving)
  <2>1. /\ v \in Vehicles /\ v \in moved /\ assignment[v] = None /\ restored[v] # None
        /\ restored[v] \in Assigned /\ ~restored[v].moving /\ Passed(v)
    BY <1>1, <1>3, <1>4 DEF RestoreInv
  <2>2. restored[v].moving = (v <= fleet.moving)
    BY <1>3, <2>1 DEF RestoreInv
  <2>3. restored[v].moving \in BOOLEAN
    BY <1>3, <2>1, AssignedIs DEF Typed
  <2> QED BY <2>1, <2>2, <2>3
<1>6. a \in Anchors
  BY <1>3, <1>5, AssignedIs DEF Typed
<1>7. ProgressInv' /\ pc' \in Phases /\ pc' # "restore" /\ pc' \notin {"moving", "parked", "placed"}
  BY <1>1, <1>2 DEF ProgressInv
<1>8. \A u \in Vehicles : Passed(u)' <=> Passed(u)
  BY <1>1 DEF Passed, Stays
<1>9. CASE FreePlaces(a) = {}
  <2>1. assignment' = assignment
    BY <1>1, <1>9
  <2>2. RestoreInv'
    BY <1>1, <1>3, <1>8, <2>1 DEF RestoreInv, Stays
  <2>3. SpaceInv'
    <3>1. /\ \A r : Capacity(r)' = Capacity(r) /\ MoversOn(r)' = MoversOn(r)
          /\ StandApart' = StandApart /\ Routes' = Routes
      BY <1>1, <2>1, SameAssignment, SamePack DEF Stays
    <3> QED BY <1>1, <1>3, <2>1, <3>1 DEF SpaceInv, Stays
  <2> QED BY <1>1, <1>3, <1>7, <2>1, <2>2, <2>3, StaysInv
<1>10. CASE FreePlaces(a) # {}
  <2> DEFINE p == TakeParkedPosition(a)
  <2>1. p \in PlacesOf(a) /\ Fits(p)
    BY <1>3, <1>6, <1>10, PlaceFound
  <2>2. x \in Assigned /\ ~x.moving /\ x.place = p
    <3>1. \A q \in PlacesOf(a) :
            Parked(a, q, TRUE) \in Assigned /\ ~Parked(a, q, TRUE).moving /\ Parked(a, q, TRUE).place = q
      BY <1>6, NewParked
    <3> HIDE DEF p
    <3>2. Parked(a, p, TRUE) \in Assigned /\ ~Parked(a, p, TRUE).moving /\ Parked(a, p, TRUE).place = p
      BY <2>1, <3>1
    <3> QED BY <3>2 DEF p
  <2>3. assignment' = [assignment EXCEPT ![v] = x]
    BY <1>1, <1>10
  <2> HIDE DEF p, x
  <2>4. /\ assignment' \in [Vehicles -> Assigned \cup {None}]
        /\ \A w \in Vehicles : assignment'[w] = IF w = v THEN x ELSE assignment[w]
    BY <1>1, <1>3, <1>5, <2>2, <2>3, Placing DEF Stays
  <2>5. SpaceInv'
    BY <1>1, <1>3, <1>5, <1>7, <2>1, <2>2, <2>3, PlacedSpace
  <2>6. RestoreInv'
    <3>1. \A u \in moved' : Passed(u)' /\ restored'[u] # None /\ ~restored'[u].moving
      BY <1>1, <1>3, <1>8 DEF RestoreInv, Stays
    <3>2. \A u \in colliding' : assignment'[u] = None
      BY <1>1, <1>3, <2>4 DEF RestoreInv
    <3>3. ASSUME NEW u \in Vehicles
          PROVE  /\ assignment'[u] # None =>
                      u <= fleet'.vehicles /\ assignment'[u].moving = (u <= fleet'.moving)
                 /\ Passed(u)' /\ restored'[u] # None =>
                      /\ restored'[u].moving = (u <= fleet'.moving)
                      /\ u \notin moved' => assignment'[u] = restored'[u]
                 /\ restored'[u] = None => assignment'[u] = None
      <4>1. CASE u = v
        <5>1. x.moving = (u <= fleet.moving) /\ assignment'[u] = x
          <6>1. x.moving = FALSE
            BY DEF x, Parked
          <6> QED BY <1>5, <2>4, <4>1, <6>1
        <5>2. u <= fleet.vehicles
          BY <1>5, <4>1 DEF Passed
        <5> QED BY <1>1, <1>3, <1>5, <1>8, <4>1, <5>1, <5>2 DEF RestoreInv, Stays
      <4>2. CASE u # v
        <5>1. assignment'[u] = assignment[u]
          BY <2>4, <4>2
        <5> QED BY <1>1, <1>3, <1>8, <5>1 DEF RestoreInv, Stays
      <4> QED BY <4>1, <4>2
    <3> QED BY <1>7, <3>1, <3>2, <3>3 DEF RestoreInv
  <2> QED BY <1>1, <1>3, <1>7, <2>4, <2>5, <2>6, StaysInv
<1> QED BY <1>9, <1>10

\* From relocating to the checks.
LEMMA AllRelocatedStep == ASSUME PlacementInv, AllRelocated PROVE PlacementInv'
<1>1. pc = "relocate" /\ GoTo("check", next)
  BY DEF AllRelocated
<1>2. pc \in Phases /\ "check" \in Phases
  BY <1>1 DEF Phases
<1>3. /\ next \in 1 .. MaxVehicles + 1 /\ RestoreInv /\ Running /\ pc # "idle"
  BY <1>1, <1>2, RunningIs
<1>4. /\ pc' = "check" /\ UNCHANGED <<fleet, restored, moved, colliding, assignment>>
  BY <1>1 DEF GoTo
<1>5. RestoreInv'
  <2>1. \A u \in Vehicles \cup moved : Passed(u)' <=> Passed(u)
    BY <1>1, <1>4 DEF Passed
  <2> QED BY <1>1, <1>3, <1>4, <2>1 DEF RestoreInv
<1>6. ProgressInv'
  BY <1>4 DEF ProgressInv
<1> QED BY <1>1, <1>2, <1>3, <1>5, <1>6, GoToStep

\* The vehicles a step counts, and the room there is.
LEMMA CountsAre ==
    ASSUME Typed
    PROVE  /\ AvailableCapacity \in Int
           /\ AvailableCapacity = SlotsIn(Routes) - Cardinality(UNION {MoversOn(r) : r \in Routes})
           /\ SlotsIn(Routes) \in Nat
           /\ IsFiniteSet(UNION {MoversOn(r) : r \in Routes})
           /\ Cardinality(UNION {MoversOn(r) : r \in Routes}) \in Nat
<1> DEFINE M == UNION {MoversOn(r) : r \in Routes}
<1>1. IsFiniteSet(M) /\ SlotsIn(Routes) \in Nat
  BY NoRoom
<1>2. Cardinality(M) \in Nat
  BY <1>1, FS_CardinalityType
<1>3. AvailableCapacity = SlotsIn(Routes) - Cardinality(M)
  BY DEF AvailableCapacity
<1> HIDE DEF M
<1>4. AvailableCapacity \in Int
  BY <1>1, <1>2, <1>3
<1> QED BY <1>1, <1>2, <1>3, <1>4 DEF M

\* The moving vehicles without an assignment, and their number.
LEMMA MissingIs ==
    ASSUME fleet.vehicles \in Vehicles, fleet.moving \in Nat, fleet.moving <= fleet.vehicles
    PROVE  /\ 1 .. fleet.moving \in SUBSET Vehicles
           /\ IsFiniteSet({v \in 1 .. fleet.moving : assignment[v] = None})
           /\ MissingMoving \in Nat
<1>1. 1 .. fleet.moving \in SUBSET Vehicles
  BY VehiclesAre DEF Vehicles
<1>2. {v \in 1 .. fleet.moving : assignment[v] = None} \in SUBSET Vehicles
  BY <1>1
<1> QED BY <1>1, <1>2, VehiclesAre DEF MissingMoving

\* What is restored onto a route was on it, and fits.
LEMMA RestoredFit ==
    ASSUME PlacementInv, pc = "check"
    PROVE  WithinCapacity
<1>1. /\ pc \in Phases /\ RestoreInv /\ SpaceInv /\ Typed /\ CallInv /\ pc # "idle"
      /\ moved \subseteq Vehicles
  <2>1. pc \in Phases
    BY DEF Phases
  <2> QED BY <2>1, RunningIs
<1> SUFFICES ASSUME NEW r \in Routes PROVE Occupancy(r) <= Capacity(r)
  BY DEF WithinCapacity
<1>2. mode \in {"start", "preflight"} /\ retried \in BOOLEAN
  BY DEF PlacementInv, TypeOK
<1>3. ASSUME NEW v \in MoversOn(r) PROVE v \in SavedMovers(r)
  <2>1. v \in Vehicles /\ assignment[v] # None /\ assignment[v].moving /\ assignment[v].route = r
    BY DEF MoversOn
  <2>2. v <= fleet.vehicles /\ assignment[v].moving = (v <= fleet.moving) /\ restored[v] # None
    BY <1>1, <2>1 DEF RestoreInv
  <2>3. Passed(v)
    BY <2>2 DEF Passed
  <2>4. restored[v].moving = (v <= fleet.moving)
    BY <1>1, <2>1, <2>2, <2>3 DEF RestoreInv
  <2>5. v \notin moved
    BY <1>1, <2>1, <2>2, <2>4 DEF RestoreInv
  <2>6. assignment[v] = restored[v]
    BY <1>1, <2>1, <2>2, <2>3, <2>5 DEF RestoreInv
  <2>7. v <= fleet.moving
    BY <2>1, <2>2
  <2>8. mode = "start"
    BY <1>1, <1>2, <2>1, <2>2 DEF CallInv, Nobody
  <2>9. restored[v] = saved[v]
    BY <1>1, <1>2, <2>1, <2>7, <2>8 DEF CallInv
  <2> QED BY <2>1, <2>6, <2>9 DEF SavedMovers
<1>4. Occupancy(r) \in Nat /\ Capacity(r) \in Nat
  BY <1>1, MoversAre, CapacityIs DEF Typed
<1>5. CASE MoversOn(r) = {}
  BY <1>4, <1>5, FS_EmptySet DEF Occupancy
<1>6. CASE MoversOn(r) # {}
  <2>1. Capacity(r) > 0
    BY <1>1, <1>6 DEF SpaceInv, MoversOn
  <2>2. Capacity(r) = pack.routes[r].slots
    BY <1>1, <1>4, <2>1, CapacityIs DEF Typed
  <2>3. SavedMovers(r) \in SUBSET Vehicles
    BY DEF SavedMovers
  <2>4. IsFiniteSet(SavedMovers(r)) /\ Cardinality(SavedMovers(r)) \in Nat
    BY <2>3, VehiclesAre
  <2>5. Cardinality(MoversOn(r)) <= Cardinality(SavedMovers(r))
    BY <1>3, <2>4, FS_Subset
  <2>6. Cardinality(SavedMovers(r)) <= pack.routes[r].slots
    BY DEF PlacementInv, SavedInv
  <2> QED BY <1>4, <2>2, <2>4, <2>5, <2>6 DEF Occupancy
<1> QED BY <1>5, <1>6

\* The checks before placement.
LEMMA CheckStep == ASSUME PlacementInv, Check PROVE PlacementInv'
<1>1. pc = "check" /\ pc \in Phases /\ "moving" \in Phases
  BY DEF Check, Phases
<1>2. /\ RestoreInv /\ Running /\ pc # "idle" /\ Typed /\ fleet.vehicles \in Vehicles
      /\ fleet.moving \in Nat /\ fleet.moving <= fleet.vehicles /\ moved \subseteq Vehicles
  BY <1>1, RunningIs
<1>3. {"capacity", "region", "anchors"} \subseteq Failures
  BY DEF Failures
<1>4. WithinCapacity
  BY <1>1, RestoredFit
<1>5. CASE Throw("capacity") \/ Throw("region") \/ Throw("anchors")
  BY <1>2, <1>3, <1>5, ThrowStep
<1>6. CASE ~(MissingMoving > AvailableCapacity) /\ GoTo("moving", 1)
  <2>1. /\ pc' = "moving" /\ next' = 1 /\ pack' = pack
        /\ UNCHANGED <<fleet, restored, moved, colliding, assignment>>
    BY <1>6 DEF GoTo
  <2>2. RestoreInv'
    <3>1. \A u \in Vehicles \cup moved : Passed(u)' <=> Passed(u)
      BY <1>1, <2>1 DEF Passed
    <3> QED BY <1>1, <1>2, <2>1, <3>1 DEF RestoreInv
  <2>3. ProgressInv'
    <3>1. MissingMoving' = MissingMoving /\ AvailableCapacity' = AvailableCapacity
      BY <2>1, SameAssignment
    <3>2. MissingMoving \in Nat /\ AvailableCapacity \in Int
      BY <1>2, CountsAre, MissingIs
    <3> QED BY <1>2, <1>6, <2>1, <3>1, <3>2 DEF ProgressInv
  <2>4. 1 \in 1 .. MaxVehicles + 1
    BY VehiclesAre
  <2> QED BY <1>1, <1>2, <1>4, <1>6, <2>2, <2>3, <2>4, GoToStep
<1>7. \/ Throw("capacity") \/ Throw("region") \/ Throw("anchors")
      \/ ~(MissingMoving > AvailableCapacity) /\ GoTo("moving", 1)
  <2>1. ~\E r \in Routes : Occupancy(r) > Capacity(r)
    <3> SUFFICES ASSUME NEW r \in Routes PROVE ~(Occupancy(r) > Capacity(r))
      OBVIOUS
    <3>1. Occupancy(r) \in Nat /\ Capacity(r) \in Nat
      BY <1>2, MoversAre, CapacityIs DEF Typed
    <3> QED BY <1>4, <3>1 DEF WithinCapacity
  <2> QED BY <2>1 DEF Check
<1> QED BY <1>5, <1>6, <1>7

\* takeRouteSlot gives a moving vehicle a stretch of its own, and it is counted.
LEMMA PlaceMovingStep == ASSUME PlacementInv, PlaceMoving PROVE PlacementInv'
<1> DEFINE r == NextRoute(NextMovingRegion)
           n == FirstAttempt(r)
           x == Mover(r, SlotAt(r, n))
           none == {v \in 1 .. fleet.moving : assignment[v] = None}
           M == UNION {MoversOn(q) : q \in Routes}
<1>1. /\ pc = "moving" /\ next <= fleet.moving /\ assignment[next] = None /\ pc \in Phases
  BY DEF PlaceMoving, Phases
<1>2. /\ RestoreInv /\ SpaceInv /\ ProgressInv /\ Typed /\ pc # "idle" /\ failure \in Failures
      /\ fleet.vehicles \in Vehicles /\ fleet.vehicles \in Nat /\ fleet.moving \in Nat
      /\ fleet.moving <= fleet.vehicles /\ next \in Nat /\ next >= 1
      /\ colliding \subseteq moved /\ moved \subseteq Vehicles /\ ordinal \in [Routes -> Nat]
  BY <1>1, RunningIs
<1>3. /\ next \in Vehicles /\ next + 1 \in 1 .. MaxVehicles + 1
      /\ next <= fleet.vehicles
  <2>1. next <= fleet.vehicles
    BY <1>1, <1>2
  <2> QED BY <1>1, <2>1, RunningIs
<1>4. IsFiniteSet(none) /\ MissingMoving = Cardinality(none) /\ MissingMoving \in Nat /\ next \in none
  BY <1>1, <1>2, MissingIs DEF MissingMoving
<1>5. /\ IsFiniteSet(M) /\ Cardinality(M) \in Nat /\ SlotsIn(Routes) \in Nat
      /\ AvailableCapacity = SlotsIn(Routes) - Cardinality(M)
  BY <1>2, CountsAre
<1> HIDE DEF none, M
<1>6. MissingMoving > 0
  BY <1>4, FS_EmptySet
<1>7. AvailableCapacity > 0 /\ MissingMoving <= AvailableCapacity
  <2>1. MissingMoving <= AvailableCapacity
    BY <1>1, <1>2 DEF ProgressInv
  <2> QED BY <1>4, <1>5, <1>6, <2>1
<1>8. /\ MovingRegions # {} /\ RoomIn(NextMovingRegion) # {}
      /\ r \in Routes /\ Occupancy(r) < Capacity(r)
  BY <1>2, <1>7, RoomFound
<1>9. /\ Attempts(r) # {} /\ n \in Nat
      /\ SlotAt(r, n) \in 0 .. pack.routes[r].slots - 1 /\ SlotAt(r, n) \notin UsedSlots(r)
  BY <1>2, <1>8, SlotFound
<1>10. /\ assignment' = [assignment EXCEPT ![next] = x]
       /\ ordinal' = [ordinal EXCEPT ![r] = n + 1] /\ next' = next + 1
       /\ Stays /\ pc' = pc /\ failure' = failure /\ colliding' = colliding /\ moved' = moved
  BY <1>8, <1>9 DEF PlaceMoving, Assign, Stays
<1>11. x \in Assigned /\ x.moving /\ x.route = r /\ x.slot = SlotAt(r, n)
  <2> HIDE DEF r, n
  <2>1. \A s \in 0 .. pack.routes[r].slots - 1 :
          Mover(r, s) \in Assigned /\ Mover(r, s).moving /\ Mover(r, s).route = r /\ Mover(r, s).slot = s
    BY <1>8, NewMover
  <2> QED BY <1>9, <2>1
<1>12. ordinal' \in [Routes -> Nat]
  BY <1>2, <1>8, <1>9, <1>10
<1>13. x.moving = TRUE
  BY DEF Mover
<1> HIDE DEF r, n, x
<1>14. /\ assignment' \in [Vehicles -> Assigned \cup {None}]
       /\ \A w \in Vehicles : assignment'[w] = IF w = next THEN x ELSE assignment[w]
       /\ \A q : MoversOn(q)' = MoversOn(q) \cup (IF x.moving /\ x.route = q THEN {next} ELSE {})
       /\ \A q : next \notin MoversOn(q)
       /\ \A q : Capacity(q)' = Capacity(q)
  <2>1. Typed /\ pack' = pack /\ fleet' = fleet /\ next \in Vehicles /\ assignment[next] = None
    BY <1>1, <1>2, <1>3, <1>10 DEF Stays
  <2>2. x \in Assigned /\ assignment' = [assignment EXCEPT ![next] = x]
    BY <1>10, <1>11
  <2> QED BY <2>1, <2>2, Placing
<1>15. x # None
  BY <1>2, <1>11, AssignedIs DEF Typed
<1>16. Routes' = Routes
  BY <1>10, SamePack DEF Stays
<1>17. WithinCapacity'
  <2> SUFFICES ASSUME NEW q \in Routes PROVE Occupancy(q)' <= Capacity(q)'
    BY <1>16 DEF WithinCapacity
  <2>1. /\ IsFiniteSet(MoversOn(q)) /\ Occupancy(q) \in Nat /\ Capacity(q) \in Nat
        /\ Occupancy(q) = Cardinality(MoversOn(q)) /\ Occupancy(q)' = Cardinality(MoversOn(q)')
    BY <1>2, MoversAre, CapacityIs DEF Typed, Occupancy
  <2>2. Occupancy(q) <= Capacity(q)
    BY <1>1, <1>2 DEF SpaceInv, WithinCapacity
  <2>3. Capacity(q)' = Capacity(q)
    BY <1>14
  <2>4. CASE q = r
    <3>1. MoversOn(q)' = MoversOn(q) \cup {next} /\ next \notin MoversOn(q)
      BY <1>11, <1>14, <2>4
    <3>2. Cardinality(MoversOn(q) \cup {next}) = Cardinality(MoversOn(q)) + 1
      BY <2>1, <3>1, FS_AddElement
    <3>3. Occupancy(q)' = Occupancy(q) + 1
      BY <2>1, <3>1, <3>2
    <3> QED BY <1>8, <2>1, <2>3, <2>4, <3>3
  <2>5. CASE q # r
    <3>1. MoversOn(q)' = MoversOn(q)
      BY <1>11, <1>14, <2>5
    <3> QED BY <2>1, <2>2, <2>3, <3>1
  <2> QED BY <2>4, <2>5
<1>18. SpaceInv'
  <2>1. x.moving => Capacity(x.route) > 0 /\ x.slot \notin UsedSlots(x.route)
    <3>1. Occupancy(r) \in Nat /\ Capacity(r) \in Nat
      BY <1>2, <1>8, MoversAre, CapacityIs DEF Typed
    <3> QED BY <1>8, <1>9, <1>11, <3>1
  <2> QED BY <1>1, <1>2, <1>3, <1>10, <1>11, <1>13, <1>17, <2>1, PlacedSpace
<1>19. RestoreInv'
  <2>1. \A u : Passed(u)' <=> Passed(u)
    BY <1>1, <1>10 DEF Passed, Stays
  <2>2. \A u \in moved' : Passed(u)' /\ restored'[u] # None /\ ~restored'[u].moving
    BY <1>2, <1>10, <2>1 DEF RestoreInv, Stays
  <2>3. ASSUME NEW u \in Vehicles
        PROVE  /\ assignment'[u] # None =>
                    u <= fleet'.vehicles /\ assignment'[u].moving = (u <= fleet'.moving)
               /\ Passed(u)' /\ restored'[u] # None =>
                    /\ restored'[u].moving = (u <= fleet'.moving)
                    /\ u \notin moved' => assignment'[u] = restored'[u]
               /\ u > fleet'.moving /\ restored'[u] = None => assignment'[u] = None
    <3>1. CASE u = next
      <4>1. assignment'[u] = x /\ x.moving = (u <= fleet.moving) /\ u <= fleet.vehicles
        BY <1>1, <1>3, <1>13, <1>14, <3>1
      <4>2. ~(u > fleet.moving)
        BY <1>1, <1>2, <3>1
      <4> QED BY <1>1, <1>2, <1>10, <2>1, <3>1, <4>1, <4>2 DEF RestoreInv, Stays
    <3>2. CASE u # next
      <4>1. assignment'[u] = assignment[u]
        BY <1>14, <3>2
      <4> QED BY <1>1, <1>2, <1>10, <2>1, <4>1 DEF RestoreInv, Stays
    <3> QED BY <3>1, <3>2
  <2> QED BY <1>1, <1>10, <2>2, <2>3 DEF RestoreInv
<1>20. ProgressInv'
  <2>1. MissingMoving' = MissingMoving - 1
    <3>1. {v \in 1 .. fleet'.moving : assignment'[v] = None} = none \ {next}
      <4>1. 1 .. fleet.moving \in SUBSET Vehicles
        BY <1>2, MissingIs
      <4> QED BY <1>10, <1>14, <1>15, <4>1 DEF none, Stays
    <3>2. Cardinality(none \ {next}) = Cardinality(none) - 1
      BY <1>4, FS_RemoveElement
    <3>3. MissingMoving' = Cardinality({v \in 1 .. fleet'.moving : assignment'[v] = None})
      BY DEF MissingMoving
    <3> QED BY <1>4, <3>1, <3>2, <3>3
  <2>2. AvailableCapacity' = AvailableCapacity - 1
    <3>1. SlotsIn(Routes)' = SlotsIn(Routes)
      BY <1>10 DEF SlotsIn, Capacity, Routes, Stays
    <3>2. M' = M \cup {next} /\ next \notin M
      BY <1>8, <1>11, <1>14, <1>16 DEF M
    <3>3. Cardinality(M \cup {next}) = Cardinality(M) + 1
      BY <1>5, <3>2, FS_AddElement
    <3>4. AvailableCapacity' = SlotsIn(Routes)' - Cardinality(M')
      BY DEF AvailableCapacity, M
    <3> QED BY <1>5, <3>1, <3>2, <3>3, <3>4
  <2>3. \A v \in 1 .. fleet'.moving : v < next' => assignment'[v] # None
    <3> SUFFICES ASSUME NEW v \in 1 .. fleet.moving, v < next + 1 PROVE assignment'[v] # None
      BY <1>10 DEF Stays
    <3>1. v \in Vehicles /\ v \in Nat
      BY <1>2, MissingIs
    <3>2. v = next \/ v < next
      BY <1>2, <3>1
    <3> QED BY <1>1, <1>2, <1>14, <1>15, <3>1, <3>2 DEF ProgressInv
  <2>4. next' <= fleet'.moving + 1
    BY <1>1, <1>2, <1>10 DEF Stays
  <2>5. pc' = "moving" /\ AvailableCapacity \in Int /\ MissingMoving \in Nat
    BY <1>1, <1>2, <1>4, <1>10, CountsAre
  <2> QED BY <1>7, <2>1, <2>2, <2>3, <2>4, <2>5 DEF ProgressInv
<1> QED BY <1>1, <1>2, <1>3, <1>10, <1>12, <1>14, <1>18, <1>19, <1>20, StaysInv

\* A moving vehicle that was restored is passed over.
LEMMA MovingThereStep == ASSUME PlacementInv, MovingThere PROVE PlacementInv'
<1>1. /\ pc = "moving" /\ next <= fleet.moving /\ assignment[next] # None
      /\ GoTo("moving", next + 1)
  BY DEF MovingThere
<1>2. pc \in Phases /\ "moving" \in Phases
  BY <1>1 DEF Phases
<1>3. /\ RestoreInv /\ SpaceInv /\ ProgressInv /\ Running /\ pc # "idle"
      /\ next \in Nat /\ fleet.moving \in Nat /\ fleet.vehicles \in Nat
      /\ fleet.moving <= fleet.vehicles /\ moved \subseteq Vehicles
      /\ fleet.vehicles \in Vehicles
  BY <1>2, RunningIs
<1>4. next + 1 \in 1 .. MaxVehicles + 1
  <2>1. next <= fleet.vehicles
    BY <1>1, <1>3
  <2> QED BY <1>2, <2>1, RunningIs
<1>5. /\ pc' = "moving" /\ next' = next + 1 /\ pack' = pack
      /\ UNCHANGED <<fleet, restored, moved, colliding, assignment>>
  BY <1>1 DEF GoTo
<1>6. RestoreInv'
  <2>1. \A u \in Vehicles \cup moved : Passed(u)' <=> Passed(u)
    BY <1>1, <1>5 DEF Passed
  <2> QED BY <1>1, <1>3, <1>5, <2>1 DEF RestoreInv
<1>7. ProgressInv'
  <2>1. MissingMoving' = MissingMoving /\ AvailableCapacity' = AvailableCapacity
    BY <1>5, SameAssignment
  <2>2. next + 1 <= fleet.moving + 1
    BY <1>1, <1>3
  <2>3. ASSUME NEW v \in 1 .. fleet.moving, v < next + 1 PROVE assignment[v] # None
    <3>1. v = next \/ v < next
      BY <1>3, <2>3
    <3> QED BY <1>1, <1>3, <3>1 DEF ProgressInv
  <2> QED BY <1>1, <1>3, <1>5, <2>1, <2>2, <2>3 DEF ProgressInv
<1>8. WithinCapacity
  BY <1>1, <1>3 DEF SpaceInv
<1> QED BY <1>1, <1>2, <1>3, <1>4, <1>6, <1>7, <1>8, GoToStep

\* From the moving vehicles to the stationary ones.
LEMMA AllMovingStep == ASSUME PlacementInv, AllMoving PROVE PlacementInv'
<1>1. pc = "moving" /\ next > fleet.moving /\ GoTo("parked", next)
  BY DEF AllMoving
<1>2. pc \in Phases /\ "parked" \in Phases
  BY <1>1 DEF Phases
<1>3. /\ RestoreInv /\ SpaceInv /\ ProgressInv /\ Running /\ pc # "idle"
      /\ next \in Nat /\ fleet.moving \in Nat /\ fleet.vehicles \in Nat
      /\ moved \subseteq Vehicles /\ next \in 1 .. MaxVehicles + 1
  BY <1>2, RunningIs
<1>4. /\ pc' = "parked" /\ next' = next
      /\ UNCHANGED <<fleet, restored, moved, colliding, assignment>>
  BY <1>1 DEF GoTo
<1>5. RestoreInv'
  <2>1. \A u \in Vehicles \cup moved : Passed(u)' <=> Passed(u)
    BY <1>1, <1>4 DEF Passed
  <2> QED BY <1>1, <1>3, <1>4, <2>1 DEF RestoreInv
<1>6. ProgressInv'
  <2>1. next <= fleet.moving + 1
    BY <1>1, <1>3 DEF ProgressInv
  <2>2. ASSUME NEW v \in 1 .. fleet.vehicles, v < next PROVE assignment[v] # None
    <3>1. v \in 1 .. fleet.moving
      BY <1>3, <2>1, <2>2
    <3> QED BY <1>1, <1>3, <2>2, <3>1 DEF ProgressInv
  <2> QED BY <1>1, <1>3, <1>4, <2>2 DEF ProgressInv
<1>7. WithinCapacity
  BY <1>1, <1>3 DEF SpaceInv
<1> QED BY <1>1, <1>2, <1>3, <1>5, <1>6, <1>7, GoToStep

\* A stationary vehicle that was restored is passed over.
LEMMA ParkedThereStep == ASSUME PlacementInv, ParkedThere PROVE PlacementInv'
<1>1. /\ pc = "parked" /\ next <= fleet.vehicles /\ assignment[next] # None
      /\ GoTo("parked", next + 1)
  BY DEF ParkedThere
<1>2. pc \in Phases /\ "parked" \in Phases
  BY <1>1 DEF Phases
<1>3. /\ RestoreInv /\ SpaceInv /\ ProgressInv /\ Running /\ pc # "idle"
      /\ next \in Nat /\ fleet.moving \in Nat /\ fleet.vehicles \in Nat
      /\ moved \subseteq Vehicles /\ next + 1 \in 1 .. MaxVehicles + 1
  BY <1>1, <1>2, RunningIs
<1>4. /\ pc' = "parked" /\ next' = next + 1
      /\ UNCHANGED <<fleet, restored, moved, colliding, assignment>>
  BY <1>1 DEF GoTo
<1>5. RestoreInv'
  <2>1. \A u \in Vehicles \cup moved : Passed(u)' <=> Passed(u)
    BY <1>1, <1>4 DEF Passed
  <2> QED BY <1>1, <1>3, <1>4, <2>1 DEF RestoreInv
<1>6. ProgressInv'
  <2>1. ASSUME NEW v \in 1 .. fleet.vehicles, v < next + 1 PROVE assignment[v] # None
    <3>1. v = next \/ v < next
      BY <1>3, <2>1
    <3> QED BY <1>1, <1>3, <3>1 DEF ProgressInv
  <2>2. next + 1 > fleet.moving
    BY <1>1, <1>3 DEF ProgressInv
  <2> QED BY <1>4, <2>1, <2>2 DEF ProgressInv
<1>7. WithinCapacity
  BY <1>1, <1>3 DEF SpaceInv
<1> QED BY <1>1, <1>2, <1>3, <1>5, <1>6, <1>7, GoToStep

\* Every vehicle has been looked at.
LEMMA PlacedStep == ASSUME PlacementInv, Placed PROVE PlacementInv'
<1>1. pc = "parked" /\ next > fleet.vehicles /\ GoTo("placed", next)
  BY DEF Placed
<1>2. pc \in Phases /\ "placed" \in Phases
  BY <1>1 DEF Phases
<1>3. /\ RestoreInv /\ SpaceInv /\ ProgressInv /\ Running /\ pc # "idle"
      /\ next \in Nat /\ fleet.vehicles \in Nat
      /\ moved \subseteq Vehicles /\ next \in 1 .. MaxVehicles + 1
  BY <1>1, <1>2, RunningIs
<1>4. /\ pc' = "placed" /\ next' = next
      /\ UNCHANGED <<fleet, restored, moved, colliding, assignment>>
  BY <1>1 DEF GoTo
<1>5. RestoreInv'
  <2>1. \A u \in Vehicles \cup moved : Passed(u)' <=> Passed(u)
    BY <1>1, <1>4 DEF Passed
  <2> QED BY <1>1, <1>3, <1>4, <2>1 DEF RestoreInv
<1>6. ProgressInv'
  <2>1. ASSUME NEW v \in 1 .. fleet.vehicles PROVE assignment[v] # None
    <3>1. v < next
      BY <1>1, <1>3
    <3> QED BY <1>1, <1>3, <3>1 DEF ProgressInv
  <2> QED BY <1>4, <2>1 DEF ProgressInv
<1>7. WithinCapacity
  BY <1>1, <1>3 DEF SpaceInv
<1> QED BY <1>1, <1>2, <1>3, <1>5, <1>6, <1>7, GoToStep

\* A stationary vehicle is put where an anchor has a place left.
LEMMA PlaceParkedStep == ASSUME PlacementInv, PlaceParked PROVE PlacementInv'
<1> DEFINE a == NextAnchor(NextParkedRegion)
           p == TakeParkedPosition(a)
           x == Parked(a, p, TRUE)
<1>1. /\ pc = "parked" /\ next <= fleet.vehicles /\ assignment[next] = None /\ pc \in Phases
      /\ ParkedRegions # {}
  BY DEF PlaceParked, Unplaced, Phases
<1>2. /\ RestoreInv /\ SpaceInv /\ ProgressInv /\ Typed /\ pc # "idle" /\ failure \in Failures
      /\ fleet.vehicles \in Nat /\ fleet.moving \in Nat /\ next \in Nat
      /\ colliding \subseteq moved /\ moved \subseteq Vehicles /\ ordinal \in [Routes -> Nat]
      /\ next \in Vehicles /\ next + 1 \in 1 .. MaxVehicles + 1
  BY <1>1, RunningIs
<1>3. a \in Anchors /\ FreePlaces(a) # {}
  BY <1>1, <1>2, AnchorFound
<1>4. p \in PlacesOf(a) /\ Fits(p)
  BY <1>2, <1>3, PlaceFound
<1>5. /\ assignment' = [assignment EXCEPT ![next] = x] /\ next' = next + 1
      /\ Stays /\ pc' = pc /\ failure' = failure /\ colliding' = colliding /\ moved' = moved
      /\ ordinal' = ordinal
  BY DEF PlaceParked, Assign, Stays
<1>6. x \in Assigned /\ ~x.moving /\ x.place = p
  <2> HIDE DEF a, p
  <2>1. \A q \in PlacesOf(a) : /\ Parked(a, q, TRUE) \in Assigned /\ ~Parked(a, q, TRUE).moving
                               /\ Parked(a, q, TRUE).place = q
    BY <1>3, NewParked
  <2> QED BY <1>4, <2>1
<1>7. x.moving = FALSE
  BY DEF Parked
<1> HIDE DEF a, p, x
<1>8. /\ assignment' \in [Vehicles -> Assigned \cup {None}]
      /\ \A w \in Vehicles : assignment'[w] = IF w = next THEN x ELSE assignment[w]
      /\ \A q : MoversOn(q)' = MoversOn(q) \cup (IF x.moving /\ x.route = q THEN {next} ELSE {})
      /\ \A q : Capacity(q)' = Capacity(q)
  <2>1. Typed /\ pack' = pack /\ fleet' = fleet /\ next \in Vehicles /\ assignment[next] = None
    BY <1>1, <1>2, <1>5 DEF Stays
  <2>2. x \in Assigned /\ assignment' = [assignment EXCEPT ![next] = x]
    BY <1>5, <1>6
  <2> QED BY <2>1, <2>2, Placing
<1>9. x # None
  BY <1>2, <1>6, AssignedIs DEF Typed
<1>10. WithinCapacity'
  <2>1. \A q : MoversOn(q)' = MoversOn(q)
    BY <1>7, <1>8
  <2>2. \A q : Occupancy(q)' = Occupancy(q)
    BY <2>1 DEF Occupancy
  <2>3. Routes' = Routes
    BY <1>5, SamePack DEF Stays
  <2> QED BY <1>1, <1>2, <1>8, <2>2, <2>3 DEF SpaceInv, WithinCapacity
<1>11. SpaceInv'
  BY <1>1, <1>2, <1>4, <1>5, <1>6, <1>10, PlacedSpace
<1>12. ~(next <= fleet.moving)
  BY <1>1, <1>2 DEF ProgressInv
<1>13. RestoreInv'
  <2>1. \A u : Passed(u)' <=> Passed(u)
    BY <1>1, <1>5 DEF Passed, Stays
  <2>2. \A u \in moved' : Passed(u)' /\ restored'[u] # None /\ ~restored'[u].moving
    BY <1>2, <1>5, <2>1 DEF RestoreInv, Stays
  <2>3. ASSUME NEW u \in Vehicles
        PROVE  /\ assignment'[u] # None =>
                    u <= fleet'.vehicles /\ assignment'[u].moving = (u <= fleet'.moving)
               /\ Passed(u)' /\ restored'[u] # None =>
                    /\ restored'[u].moving = (u <= fleet'.moving)
                    /\ u \notin moved' => assignment'[u] = restored'[u]
    <3>1. CASE u = next
      <4>1. assignment'[u] = x /\ x.moving = (u <= fleet.moving) /\ u <= fleet.vehicles
        <5>1. (u <= fleet.moving) = FALSE
          BY <1>12, <3>1
        <5>2. assignment'[u] = x /\ u <= fleet.vehicles
          BY <1>1, <1>8, <3>1
        <5> QED BY <1>7, <5>1, <5>2
      <4> QED BY <1>1, <1>2, <1>5, <2>1, <3>1, <4>1 DEF RestoreInv, Stays
    <3>2. CASE u # next
      <4>1. assignment'[u] = assignment[u]
        BY <1>8, <3>2
      <4> QED BY <1>1, <1>2, <1>5, <2>1, <4>1 DEF RestoreInv, Stays
    <3> QED BY <3>1, <3>2
  <2> QED BY <1>1, <1>5, <2>2, <2>3 DEF RestoreInv
<1>14. ProgressInv'
  <2>1. ASSUME NEW v \in 1 .. fleet.vehicles, v < next + 1 PROVE assignment'[v] # None
    <3>1. v = next \/ v < next
      BY <1>2, <2>1
    <3>2. v \in Vehicles
      <4>1. fleet.vehicles \in Vehicles
        BY <1>1, RunningIs
      <4> QED BY <1>2, <4>1, VehiclesAre DEF Vehicles
    <3> QED BY <1>1, <1>2, <1>8, <1>9, <3>1, <3>2 DEF ProgressInv
  <2>2. next + 1 > fleet.moving
    BY <1>1, <1>2 DEF ProgressInv
  <2> QED BY <1>1, <1>5, <2>1, <2>2 DEF ProgressInv, Stays
<1> QED BY <1>1, <1>2, <1>5, <1>8, <1>11, <1>13, <1>14, StaysInv

\* A call keeps what is known of the checkpoint.
LEMMA CallStep ==
    ASSUME PlacementInv, NEW f \in Fleets \cup {Stationary(n) : n \in Vehicles},
           NEW m \in {"start", "preflight"}, NEW source \in [Vehicles -> Assigned \cup {None}],
           NEW again \in BOOLEAN, Call(f, m, source, again), CallInv'
    PROVE  PlacementInv'
<1>1. TypeOK' /\ RestoreInv' /\ SpaceInv' /\ ProgressInv'
  BY CallMade DEF PlacementInv
<1>2. pack' = pack /\ saved' = saved /\ failure' = failure
  BY DEF Call
<1>3. SavedInv'
  <2>1. \A r : SavedMovers(r)' = SavedMovers(r)
    BY <1>2 DEF SavedMovers
  <2>2. Routes' = Routes
    BY <1>2, SamePack
  <2> QED BY <1>2, <2>1, <2>2 DEF PlacementInv, SavedInv
<1> QED BY <1>1, <1>2, <1>3 DEF PlacementInv

\* A coverage check asks for stationary devices alone.
LEMMA PreflightStep ==
    ASSUME PlacementInv, NEW n \in Vehicles, Preflight(n) PROVE PlacementInv'
<1>1. Call(Stationary(n), "preflight", Nobody, FALSE)
  BY DEF Preflight
<1>2. /\ fleet' = Stationary(n) /\ mode' = "preflight" /\ restored' = Nobody
      /\ retried' = FALSE /\ pc' = "restore"
  BY <1>1 DEF Call
<1>3. Stationary(n).vehicles = n /\ Stationary(n).moving = 0 /\ Stationary(n).continuous = FALSE
  BY DEF Stationary
<1>4. n \in Nat /\ 0 <= n
  BY VehiclesAre
<1>5. CallInv'
  BY <1>2, <1>3, <1>4 DEF CallInv, Nobody, Stationary
<1>6. Nobody \in [Vehicles -> Assigned \cup {None}]
  BY DEF Nobody
<1> QED BY <1>1, <1>5, <1>6, CallStep

\* A start restores the checkpoint.
LEMMA StartStep ==
    ASSUME PlacementInv, NEW f \in Fleets, Start(f) PROVE PlacementInv'
<1>1. Call(f, "start", saved, FALSE)
  BY DEF Start
<1>2. /\ fleet' = f /\ mode' = "start" /\ restored' = saved /\ saved' = saved
      /\ retried' = FALSE /\ pc' = "restore"
  BY <1>1 DEF Call
<1>3. /\ f.vehicles \in Vehicles /\ f.moving \in Nat /\ f.moving <= f.vehicles
      /\ f.continuous \in BOOLEAN
  BY FleetAssumption
<1>4. CallInv'
  BY <1>2, <1>3 DEF CallInv
<1>5. saved \in [Vehicles -> Assigned \cup {None}]
  BY Types DEF PlacementInv
<1> QED BY <1>1, <1>4, <1>5, CallStep

\* The second arrangement keeps the moving vehicles, which have their roles.
LEMMA RetryStep == ASSUME PlacementInv, Retry PROVE PlacementInv'
<1>1. /\ pc = "parked" /\ RestoredParkedUsed /\ ~retried
      /\ Call(fleet, mode, MovingRestored, TRUE)
  BY DEF Retry, Unplaced
<1>2. pc \in Phases
  BY <1>1 DEF Phases
<1>3. /\ RestoreInv /\ CallInv /\ TypeOK /\ restored \in [Vehicles -> Assigned \cup {None}]
      /\ fleet.vehicles \in Vehicles /\ fleet.vehicles \in Nat /\ fleet.moving \in Nat
      /\ moved \subseteq Vehicles
  BY <1>2, RunningIs
<1>4. \A v \in 1 .. fleet.vehicles : v \in Vehicles /\ v \in Nat /\ v <= fleet.vehicles
  BY <1>3, VehiclesAre DEF Vehicles
<1>5. mode = "start"
  <2>1. PICK v \in fleet.moving + 1 .. fleet.vehicles : restored[v] # None
    BY <1>1 DEF RestoredParkedUsed
  <2>2. v \in Vehicles
    BY <1>3, <1>4
  <2>3. restored # Nobody
    BY <2>1, <2>2 DEF Nobody
  <2>4. mode \in {"start", "preflight"}
    BY <1>3 DEF TypeOK
  <2> QED BY <1>3, <2>3, <2>4 DEF CallInv
<1>6. restored = saved /\ fleet \in Fleets
  BY <1>1, <1>3, <1>5 DEF CallInv
<1>7. /\ fleet' = fleet /\ mode' = mode /\ restored' = MovingRestored /\ retried' = TRUE
      /\ saved' = saved /\ pc' = "restore"
  BY <1>1 DEF Call
<1>8. MovingRestored = [v \in Vehicles |-> IF v <= fleet.moving THEN saved[v] ELSE None]
  BY <1>6 DEF MovingRestored
<1>9. MovingRestored \in [Vehicles -> Assigned \cup {None}]
  BY <1>3 DEF MovingRestored
<1>10. ASSUME NEW v \in 1 .. fleet.vehicles, saved[v] # None
       PROVE  saved[v].moving = (v <= fleet.moving)
  <2>1. v \in Vehicles /\ Passed(v)
    BY <1>1, <1>4 DEF Passed
  <2> QED BY <1>3, <1>6, <1>10, <2>1 DEF RestoreInv
<1>11. CallInv'
  BY <1>3, <1>5, <1>6, <1>7, <1>8, <1>10 DEF CallInv
<1>12. mode \in {"start", "preflight"} /\ fleet \in Fleets \cup {Stationary(n) : n \in Vehicles}
  BY <1>5, <1>6
<1> QED BY <1>1, <1>9, <1>11, <1>12, CallStep

\* Too few positions end a call.
LEMMA GiveUpStep == ASSUME PlacementInv, GiveUp PROVE PlacementInv'
<1>1. Throw("parked") /\ pc # "idle" /\ "parked" \in Failures
  BY DEF GiveUp, Unplaced, Failures
<1> QED BY <1>1, ThrowStep

\* After a call nothing is left of it but the checkpoint.
LEMMA ReturnStep ==
    ASSUME PlacementInv, Return, saved' \in [Vehicles -> Assigned \cup {None}],
           \A r \in Routes : Cardinality(SavedMovers(r)') <= pack.routes[r].slots,
           launched' \in Fleets \cup {None}, promised' \in 0 .. MaxVehicles
    PROVE  PlacementInv'
<1>1. /\ pc' = "idle" /\ fleet' = Stationary(1) /\ mode' = "start" /\ failure' = "none"
      /\ restored' = Nobody /\ retried' = FALSE /\ next' = 1 /\ colliding' = {} /\ moved' = {}
      /\ assignment' = Nobody /\ ordinal' = [r \in Routes |-> 0]
      /\ pack' = pack /\ seed' = seed
  BY DEF Return
<1>2. Routes' = Routes /\ Movers' = Movers /\ ParkedOnes' = ParkedOnes
  BY <1>1, SamePack
<1>3. TypeOK'
  <2>1. Nobody \in [Vehicles -> Movers \cup ParkedOnes \cup {None}]
    BY DEF Nobody
  <2>2. ordinal' \in [Routes -> Nat] /\ 1 \in 1 .. MaxVehicles + 1 /\ 1 \in Vehicles
    BY <1>1, VehiclesAre
  <2>3. pack' \in Packs /\ seed' \in Seeds
    BY <1>1 DEF PlacementInv, TypeOK
  <2>4. saved' \in [Vehicles -> Movers \cup ParkedOnes \cup {None}]
    BY DEF Assigned
  <2>5. Stationary(1) \in {Stationary(n) : n \in Vehicles}
    BY <2>2
  <2> QED BY <1>1, <1>2, <2>1, <2>2, <2>3, <2>4, <2>5 DEF TypeOK
<1>4. CallInv'
  <2>1. /\ Stationary(1).vehicles = 1 /\ Stationary(1).moving = 0
        /\ Stationary(1).continuous \in BOOLEAN
    BY DEF Stationary
  <2>2. /\ fleet'.vehicles = 1 /\ fleet'.moving = 0 /\ fleet'.continuous \in BOOLEAN
        /\ 1 \in Vehicles
    BY <1>1, <2>1, VehiclesAre
  <2>3. mode' # "preflight" /\ pc' = "idle" /\ ~retried'
    BY <1>1
  <2> QED BY <2>2, <2>3 DEF CallInv
<1>5. SavedInv'
  BY <1>1, <1>2 DEF SavedInv
<1>6. ~Running' /\ failure' \in Failures
  BY <1>1 DEF Running, Failures
<1> QED BY <1>3, <1>4, <1>5, <1>6 DEF PlacementInv

\* A step that leaves the checkpoint alone.
LEMMA SameSaved ==
    ASSUME PlacementInv, saved' = saved
    PROVE  /\ saved' \in [Vehicles -> Assigned \cup {None}]
           /\ \A r \in Routes : Cardinality(SavedMovers(r)') <= pack.routes[r].slots
<1>1. \A r : SavedMovers(r)' = SavedMovers(r)
  BY DEF SavedMovers
<1>2. saved \in [Vehicles -> Assigned \cup {None}]
  BY Types DEF PlacementInv
<1> QED BY <1>1, <1>2 DEF PlacementInv, SavedInv

\* A coverage check leaves the checkpoint alone.
LEMMA ReportStep == ASSUME PlacementInv, Report PROVE PlacementInv'
<1>1. /\ promised' = IF fleet.vehicles > promised THEN fleet.vehicles ELSE promised
      /\ Return /\ saved' = saved /\ launched' = launched
  BY DEF Report
<1>2. launched \in Fleets \cup {None} /\ promised \in 0 .. MaxVehicles /\ fleet.vehicles \in Vehicles
  BY DEF PlacementInv, TypeOK, CallInv
<1>3. promised' \in 0 .. MaxVehicles
  <2>1. fleet.vehicles \in Nat /\ fleet.vehicles <= MaxVehicles /\ MaxVehicles \in Nat
    BY <1>2, VehiclesAre
  <2> QED BY <1>1, <1>2, <2>1
<1> QED BY <1>1, <1>2, <1>3, SameSaved, ReturnStep

\* A call that threw leaves the checkpoint alone.
LEMMA RefuseStep == ASSUME PlacementInv, Refuse PROVE PlacementInv'
<1>1. Return /\ saved' = saved /\ launched' = launched /\ promised' = promised
  BY DEF Refuse
<1>2. launched \in Fleets \cup {None} /\ promised \in 0 .. MaxVehicles
  BY DEF PlacementInv, TypeOK
<1> QED BY <1>1, <1>2, SameSaved, ReturnStep

\* A new checkpoint is a placement, whose moving vehicles fit onto their routes.
LEMMA LaunchStep == ASSUME PlacementInv, Launch PROVE PlacementInv'
<1>1. /\ pc = "placed" /\ mode = "start" /\ saved' = assignment /\ launched' = fleet
      /\ Return /\ promised' = promised
  BY DEF Launch
<1>2. pc \in Phases
  BY <1>1 DEF Phases
<1>3. SpaceInv /\ CallInv /\ Typed /\ pc # "idle" /\ TypeOK
  BY <1>2, RunningIs
<1>4. fleet \in Fleets /\ promised \in 0 .. MaxVehicles /\ assignment \in [Vehicles -> Assigned \cup {None}]
  BY <1>1, <1>3 DEF CallInv, TypeOK, Typed
<1>5. ASSUME NEW r \in Routes PROVE Cardinality(SavedMovers(r)') <= pack.routes[r].slots
  <2>1. SavedMovers(r)' = MoversOn(r)
    BY <1>1 DEF SavedMovers, MoversOn
  <2>2. Occupancy(r) <= Capacity(r) /\ Occupancy(r) \in Nat /\ Capacity(r) \in Nat
    BY <1>1, <1>3, MoversAre, CapacityIs DEF SpaceInv, WithinCapacity, Typed
  <2>3. Capacity(r) <= pack.routes[r].slots /\ pack.routes[r].slots \in Nat
    BY <1>3, CapacityIs, PackIs DEF Typed
  <2> QED BY <2>1, <2>2, <2>3 DEF Occupancy
<1> QED BY <1>1, <1>4, <1>5, ReturnStep

\* A vehicle drives on its own route.
LEMMA Driven ==
    ASSUME PlacementInv, NEW v \in Vehicles, Drive(v)
    PROVE  /\ saved' \in [Vehicles -> Assigned \cup {None}]
           /\ saved[v] # None /\ saved[v].moving
           /\ saved'[v] # None /\ saved'[v].moving /\ saved'[v].moving = saved[v].moving
           /\ saved'[v].route = saved[v].route
           /\ \A u \in Vehicles : u # v => saved'[u] = saved[u]
<1>1. PICK slot \in 0 .. pack.routes[saved[v].route].slots - 1 :
        saved' = [saved EXCEPT ![v].slot = slot]
  BY DEF Drive
<1>2. saved[v] # None /\ saved[v].moving
  BY DEF Drive
<1>3. pack \in Packs /\ saved \in [Vehicles -> Assigned \cup {None}]
  BY Types DEF PlacementInv, TypeOK
<1>4. saved[v] \in Movers /\ saved[v].route \in Routes
  BY <1>2, <1>3, AssignedIs
<1> DEFINE r == saved[v].route
<1>5. saved'[v] = Mover(r, slot) /\ saved[v].moving = TRUE
  <2>1. PICK q \in Routes : saved[v] \in {Mover(q, s) : s \in 0 .. pack.routes[q].slots - 1}
    BY <1>4 DEF Movers
  <2>2. PICK s \in 0 .. pack.routes[q].slots - 1 : saved[v] = Mover(q, s)
    BY <2>1
  <2>3. r = q /\ saved[v].moving = TRUE
    BY <2>2 DEF Mover
  <2>4. saved'[v] = [saved[v] EXCEPT !.slot = slot]
    BY <1>1, <1>3
  <2>5. \A m : [[moving |-> m, route |-> q, slot |-> s] EXCEPT !.slot = slot]
                = [moving |-> m, route |-> q, slot |-> slot]
    OBVIOUS
  <2>6. [Mover(q, s) EXCEPT !.slot = slot] = Mover(q, slot)
    BY <2>5, Zenon DEF Mover
  <2> QED BY <2>2, <2>3, <2>4, <2>6
<1>6. \A u \in Vehicles : u # v => saved'[u] = saved[u]
  BY <1>1, <1>3
<1>7. Mover(r, slot) \in Assigned /\ Mover(r, slot).moving /\ Mover(r, slot).route = r
  BY <1>1, <1>4, NewMover
<1>8. saved' \in [Vehicles -> Assigned \cup {None}]
  <2>1. saved' = [u \in Vehicles |-> saved'[u]]
    BY <1>1, <1>3
  <2>2. \A u \in Vehicles : saved'[u] \in Assigned \cup {None}
    BY <1>3, <1>5, <1>6, <1>7
  <2> QED BY <2>1, <2>2
<1>9. Mover(r, slot) # None /\ Mover(r, slot).moving = TRUE
  BY <1>3, <1>7, AssignedIs DEF Mover
<1> QED BY <1>2, <1>5, <1>6, <1>7, <1>8, <1>9

\* Driving changes no route.
LEMMA DriveStep == ASSUME PlacementInv, NEW v \in Vehicles, Drive(v) PROVE PlacementInv'
<1>1. /\ pc = "idle"
      /\ UNCHANGED <<pack, seed, fleet, mode, pc, restored, retried, next, colliding,
                     moved, assignment, ordinal, failure, launched, promised>>
  BY DEF Drive
<1>2. TypeOK /\ CallInv /\ SavedInv /\ failure \in Failures
  BY DEF PlacementInv
<1>3. /\ saved' \in [Vehicles -> Assigned \cup {None}]
      /\ \A q : SavedMovers(q)' = SavedMovers(q)
  BY Driven DEF SavedMovers
<1>4. Routes' = Routes /\ Movers' = Movers /\ ParkedOnes' = ParkedOnes
  BY <1>1, SamePack
<1>5. TypeOK'
  BY <1>1, <1>2, <1>3, <1>4 DEF TypeOK, Assigned
<1>6. CallInv'
  BY <1>1, <1>2 DEF CallInv, Stationary, Nobody
<1>7. SavedInv'
  BY <1>1, <1>2, <1>3, <1>4 DEF SavedInv
<1>8. ~Running'
  BY <1>1 DEF Running
<1> QED BY <1>1, <1>2, <1>5, <1>6, <1>7, <1>8 DEF PlacementInv

\* Initially at most the first vehicle of a checkpoint moves.
LEMMA InitHolds == ASSUME Init PROVE PlacementInv
<1>1. /\ pack \in Packs /\ seed \in Seeds /\ saved \in Checkpoints /\ fleet = Stationary(1)
      /\ mode = "start" /\ pc = "idle" /\ restored = Nobody /\ retried = FALSE /\ next = 1
      /\ colliding = {} /\ moved = {} /\ assignment = Nobody /\ ordinal = [r \in Routes |-> 0]
      /\ failure = "none" /\ launched = None /\ promised = 0
  BY DEF Init
<1>2. saved \in [Vehicles -> Assigned \cup {None}] /\ \A v \in Vehicles : v # 1 => saved[v] \notin Movers
  <2>1. CASE saved = Nobody
    <3>1. ASSUME None \in Movers PROVE FALSE
      BY <1>1, <3>1, AssignedIs DEF Assigned
    <3> QED BY <2>1, <3>1 DEF Nobody
  <2>2. CASE saved # Nobody
    <3> DEFINE S(first, others) ==
                 [v \in Vehicles |-> IF v = 1 THEN first
                                     ELSE IF v <= OldVehicles THEN others[v] ELSE None]
    <3>1. saved \in {S(first, others) : first \in Movers \cup ParkedOnes,
                                        others \in [2 .. OldVehicles -> ParkedOnes]}
      BY <1>1, <2>2 DEF Checkpoints
    <3>2. PICK first \in Movers \cup ParkedOnes, others \in [2 .. OldVehicles -> ParkedOnes] :
            saved = S(first, others)
      BY <3>1
    <3>3. ASSUME NEW v \in Vehicles
          PROVE  /\ saved[v] \in Assigned \cup {None}
                 /\ v # 1 => saved[v] \in ParkedOnes \cup {None}
      <4>1. saved[v] = IF v = 1 THEN first ELSE IF v <= OldVehicles THEN others[v] ELSE None
        BY <3>2
      <4>2. v # 1 /\ v <= OldVehicles => v \in 2 .. OldVehicles
        BY VehiclesAre, FleetAssumption
      <4> QED BY <4>1, <4>2 DEF Assigned
    <3>4. ASSUME NEW x \in ParkedOnes \cup {None}, x \in Movers PROVE FALSE
      <4>1. x \in Assigned /\ x # None
        BY <1>1, <3>4, AssignedIs DEF Assigned
      <4>2. PICK a \in Anchors : x \in {Parked(a, p, e) : p \in PlacesOf(a), e \in BOOLEAN}
        BY <3>4, <4>1 DEF ParkedOnes
      <4>3. PICK r \in Routes : x \in {Mover(r, s) : s \in 0 .. pack.routes[r].slots - 1}
        BY <3>4 DEF Movers
      <4> QED BY <4>2, <4>3 DEF Mover, Parked
    <3>5. saved = [v \in Vehicles |-> saved[v]]
      BY <3>2
    <3> QED BY <3>3, <3>4, <3>5
  <2> QED BY <2>1, <2>2
<1>3. TypeOK
  <2>1. Nobody \in [Vehicles -> Movers \cup ParkedOnes \cup {None}]
    BY DEF Nobody
  <2>2. /\ ordinal \in [Routes -> Nat] /\ 1 \in 1 .. MaxVehicles + 1 /\ 1 \in Vehicles
        /\ 0 \in 0 .. MaxVehicles
    BY <1>1, VehiclesAre
  <2>3. Stationary(1) \in {Stationary(n) : n \in Vehicles}
    BY <2>2
  <2> QED BY <1>1, <1>2, <2>1, <2>2, <2>3 DEF TypeOK, Assigned
<1>4. CallInv
  <2>1. /\ Stationary(1).vehicles = 1 /\ Stationary(1).moving = 0
        /\ Stationary(1).continuous \in BOOLEAN
    BY DEF Stationary
  <2>2. fleet.vehicles = 1 /\ fleet.moving = 0 /\ fleet.continuous \in BOOLEAN /\ 1 \in Vehicles
    BY <1>1, <2>1, VehiclesAre
  <2>3. mode # "preflight" /\ pc = "idle" /\ ~retried
    BY <1>1
  <2> QED BY <2>2, <2>3 DEF CallInv
<1>5. ASSUME NEW r \in Routes PROVE Cardinality(SavedMovers(r)) <= pack.routes[r].slots
  <2>1. \A v \in SavedMovers(r) : v = 1 /\ saved[v] \in Movers /\ saved[v].route = r
                                  /\ saved[v].slot \in 0 .. pack.routes[saved[v].route].slots - 1
    BY <1>1, <1>2, AssignedIs DEF SavedMovers
  <2>2. pack.routes[r].slots \in Nat
    BY <1>1, PackIs
  <2>3. CASE SavedMovers(r) = {}
    BY <2>2, <2>3, FS_EmptySet
  <2>4. CASE SavedMovers(r) # {}
    <3>1. SavedMovers(r) = {1}
      BY <2>1, <2>4
    <3>2. PICK s \in 0 .. pack.routes[r].slots - 1 : TRUE
      BY <2>1, <2>4
    <3>3. pack.routes[r].slots >= 1
      BY <2>2, <3>2
    <3> QED BY <3>1, <3>3, FS_Singleton
  <2> QED BY <2>3, <2>4
<1>6. failure \in Failures /\ ~Running
  BY <1>1 DEF Failures, Running
<1> QED BY <1>3, <1>4, <1>5, <1>6 DEF PlacementInv, SavedInv

\* Every step keeps the invariant.
LEMMA StepHolds == ASSUME PlacementInv, Next PROVE PlacementInv'
<1>1. CASE \E n \in Vehicles : Preflight(n)
  BY <1>1, PreflightStep
<1>2. CASE \E f \in Fleets : Start(f)
  BY <1>2, StartStep
<1>3. CASE Restore \/ NothingSaved \/ AllRestored \/ Relocate \/ AllRelocated \/ Check
  BY <1>3, RestoreStep, NothingSavedStep, AllRestoredStep, RelocateStep, AllRelocatedStep, CheckStep
<1>4. CASE PlaceMoving \/ MovingThere \/ AllMoving \/ PlaceParked \/ ParkedThere
  BY <1>4, PlaceMovingStep, MovingThereStep, AllMovingStep, PlaceParkedStep, ParkedThereStep
<1>5. CASE Retry \/ GiveUp \/ Placed \/ Report \/ Launch \/ Refuse
  BY <1>5, RetryStep, GiveUpStep, PlacedStep, ReportStep, LaunchStep, RefuseStep
<1>6. CASE \E v \in Vehicles : Drive(v)
  BY <1>6, DriveStep
<1> QED BY <1>1, <1>2, <1>3, <1>4, <1>5, <1>6 DEF Next

\* A step that changes nothing.
LEMMA StutterHolds == ASSUME PlacementInv, UNCHANGED vars PROVE PlacementInv'
<1>1. /\ UNCHANGED <<pack, seed, saved, fleet, mode, pc, restored, retried, next, colliding>>
      /\ UNCHANGED <<moved, assignment, ordinal, failure, launched, promised>>
  BY DEF vars
<1>2. /\ Routes' = Routes /\ Movers' = Movers /\ ParkedOnes' = ParkedOnes
  BY <1>1, SamePack
<1>3. TypeOK'
  BY <1>1, <1>2 DEF PlacementInv, TypeOK
<1>4. CallInv'
  BY <1>1 DEF PlacementInv, CallInv, Stationary, Nobody
<1>5. SavedInv'
  <2>1. \A r : SavedMovers(r)' = SavedMovers(r)
    BY <1>1 DEF SavedMovers
  <2> QED BY <1>1, <1>2, <2>1 DEF PlacementInv, SavedInv
<1>6. ASSUME Running' PROVE RestoreInv' /\ SpaceInv' /\ ProgressInv'
  <2>1. Running /\ RestoreInv /\ SpaceInv /\ ProgressInv
    BY <1>1, <1>6 DEF Running, PlacementInv
  <2>2. /\ \A r : Capacity(r)' = Capacity(r) /\ MoversOn(r)' = MoversOn(r)
        /\ StandApart' = StandApart /\ WithinCapacity' = WithinCapacity
        /\ MissingMoving' = MissingMoving /\ AvailableCapacity' = AvailableCapacity
    BY <1>1, SameAssignment
  <2>3. \A u : Passed(u)' <=> Passed(u)
    BY <1>1 DEF Passed
  <2>4. RestoreInv'
    BY <1>1, <2>1, <2>3 DEF RestoreInv
  <2>5. SpaceInv'
    BY <1>1, <1>2, <2>1, <2>2 DEF SpaceInv
  <2>6. ProgressInv'
    BY <1>1, <2>1, <2>2 DEF ProgressInv
  <2> QED BY <2>4, <2>5, <2>6
<1> QED BY <1>1, <1>3, <1>4, <1>5, <1>6 DEF PlacementInv

\* At the end of a call everything the fleet needs is in place.
LEMMA PlacementIsSound == ASSUME PlacementInv PROVE PlacementSound
<1>1. TypeOK /\ failure \notin {"exhausted", "exceeds"}
  BY DEF PlacementInv, Failures
<1>2. ASSUME pc = "placed", mode = "start"
      PROVE  ExactlyTheFleet /\ StandApart /\ WithinCapacity /\ NewcomersSpaced /\ KeepsPlace
  <2>1. pc \in Phases
    BY <1>2 DEF Phases
  <2>2. /\ RestoreInv /\ SpaceInv /\ ProgressInv /\ CallInv /\ Typed
        /\ fleet.vehicles \in Vehicles /\ fleet.vehicles \in Nat /\ fleet.moving \in Nat
        /\ moved \subseteq Vehicles
    BY <2>1, RunningIs
  <2>3. retried \in BOOLEAN
    BY <1>1 DEF TypeOK
  <2>4. ExactlyTheFleet
    <3> SUFFICES ASSUME NEW v \in Vehicles
                 PROVE  IF v > fleet.vehicles THEN assignment[v] = None
                        ELSE assignment[v] # None /\ assignment[v].moving = (v <= fleet.moving)
      BY DEF ExactlyTheFleet
    <3>1. v \in Nat /\ v >= 1
      BY VehiclesAre
    <3>2. CASE v > fleet.vehicles
      BY <2>2, <3>1, <3>2 DEF RestoreInv
    <3>3. CASE ~(v > fleet.vehicles)
      <4>1. v \in 1 .. fleet.vehicles
        BY <2>2, <3>1, <3>3
      <4>2. assignment[v] # None
        BY <1>2, <2>2, <4>1 DEF ProgressInv
      <4> QED BY <2>2, <3>3, <4>2 DEF RestoreInv
    <3> QED BY <3>2, <3>3
  <2>5. StandApart /\ WithinCapacity
    BY <1>2, <2>2 DEF SpaceInv
  <2>6. \A v \in Vehicles : restored[v] = saved[v] \/ (restored[v] = None /\ v > fleet.moving /\ retried)
    <3> TAKE v \in Vehicles
    <3>1. v \in Nat
      BY VehiclesAre
    <3>2. CASE ~retried
      BY <1>2, <2>2, <3>2 DEF CallInv
    <3>3. CASE retried
      <4>1. restored = [u \in Vehicles |-> IF u <= fleet.moving THEN saved[u] ELSE None]
        BY <1>2, <2>2, <3>3 DEF CallInv
      <4>2. restored[v] = IF v <= fleet.moving THEN saved[v] ELSE None
        BY <4>1
      <4> QED BY <2>2, <3>1, <3>3, <4>2
    <3> QED BY <3>2, <3>3
  <2>7. NewcomersSpaced
    <3> SUFFICES ASSUME NEW r \in Routes, NEW v \in MoversOn(r), NEW w \in MoversOn(r),
                        v # w, saved[v] = None
                 PROVE  assignment[v].slot # assignment[w].slot
      BY DEF NewcomersSpaced
    <3>1. restored[v] = None
      BY <2>6 DEF MoversOn
    <3> QED BY <2>2, <3>1 DEF SpaceInv
  <2>8. KeepsPlace
    <3> SUFFICES ASSUME NEW v \in 1 .. fleet.vehicles, saved[v] # None,
                        saved[v].moving \/ (v \notin moved /\ ~retried)
                 PROVE  assignment[v] = saved[v]
      BY DEF KeepsPlace
    <3>1. v \in Vehicles /\ v \in Nat /\ v <= fleet.vehicles
      BY <2>2, VehiclesAre DEF Vehicles
    <3>2. Passed(v)
      BY <1>2, <3>1 DEF Passed
    <3>3. restored[v] = saved[v]
      <4>1. CASE ~retried
        BY <2>6, <3>1, <4>1
      <4>2. CASE retried
        <5>1. saved[v].moving = (v <= fleet.moving)
          BY <2>2, <4>2 DEF CallInv
        <5>2. saved[v].moving
          BY <4>2
        <5>3. v <= fleet.moving
          BY <5>1, <5>2
        <5>4. ~(v > fleet.moving)
          BY <2>2, <3>1, <5>3
        <5> QED BY <2>6, <3>1, <5>4
      <4> QED BY <4>1, <4>2
    <3>4. v \notin moved
      BY <2>2, <3>3 DEF RestoreInv
    <3> QED BY <2>2, <3>1, <3>2, <3>3, <3>4 DEF RestoreInv
  <2> QED BY <2>4, <2>5, <2>7, <2>8
<1> QED BY <1>1, <1>2 DEF PlacementSound

\* allocateRoadFleet places a fleet whole: every vehicle in its role, stationary
\* ones apart, routes within capacity, newcomers spaced, and every vehicle that was
\* not too close to another where its checkpoint left it; and the errors it raises
\* when its own counters contradict each other never happen.
THEOREM PlacementsAreSound == Spec => []PlacementSound
<1>1. Init => PlacementInv
  BY InitHolds
<1>2. PlacementInv /\ [Next]_vars => PlacementInv'
  BY StepHolds, StutterHolds
<1>3. PlacementInv => PlacementSound
  BY PlacementIsSound
<1> QED BY <1>1, <1>2, <1>3, PTL DEF Spec

-----------------------------------------------------------------------------
(* The arrangement of stationary vehicles, one after the other             *)

\* What the placement of the next stationary vehicle depends on: the places
\* taken, and how many vehicles stand at each anchor and in each region of pack p.
FreeIn(p, s, a) ==
    {i \in DOMAIN p.anchors[a].places :
        \A q \in s.reserved : ~(q = p.anchors[a].places[i] \/ {q, p.anchors[a].places[i]} \in p.near)}
RegionIn(p, a) == p.routes[p.anchors[a].route].region
OpenIn(p, s, g) == {a \in DOMAIN p.anchors : RegionIn(p, a) = g /\ FreeIn(p, s, a) # {}}
RoomLeft(p, s) == {g \in DOMAIN p.weight : OpenIn(p, s, g) # {}}
NextIn(p, s) == Least([g \in RoomLeft(p, s) |-> Twice(s.there[g])], p.weight, 1)
AnchorIn(p, d, s) ==
    Least([a \in OpenIn(p, s, NextIn(p, s)) |-> s.parked[a]], [a \in DOMAIN p.anchors |-> 1], d)
PlaceIn(p, s, a) ==
    p.anchors[a].places[CHOOSE i \in FreeIn(p, s, a) : \A j \in FreeIn(p, s, a) : i <= j]

Untouched(p) ==
    [reserved |-> {}, parked |-> [a \in DOMAIN p.anchors |-> 0], there |-> [g \in DOMAIN p.weight |-> 0]]
OneMore(p, s, a) ==
    [reserved |-> s.reserved \cup {PlaceIn(p, s, a)},
     parked |-> [b \in DOMAIN p.anchors |-> IF b = a THEN s.parked[b] + 1 ELSE s.parked[b]],
     there |-> [g \in DOMAIN p.weight |->
                   IF g = RegionIn(p, a) THEN s.there[g] + 1 ELSE s.there[g]]]
After(p, d, s) == OneMore(p, s, AnchorIn(p, d, s))

\* In pack p with seed d, k stationary vehicles placed one by one lead to s.
Leads(p, d, h, k) ==
    /\ h[0] = Untouched(p)
    /\ \A i \in 0 .. k - 1 : RoomLeft(p, h[i]) # {} /\ h[i + 1] = After(p, d, h[i])
Reaches(p, d, s, k) == \E h : Leads(p, d, h, k) /\ h[k] = s

\* The arrangement of this call.
Arrangement ==
    [reserved |-> Reserved, parked |-> [a \in Anchors |-> Cardinality(ParkedAt(a))],
     there |-> [g \in Regions |-> ParkedAssigned(g)]]

\* The order is determined: who places more vehicles had room where others ended.
LEMMA RoomWasLeft ==
    ASSUME NEW p, NEW d, NEW s, NEW t, NEW k \in Nat, NEW n \in Nat, k < n,
           Reaches(p, d, s, k), Reaches(p, d, t, n)
    PROVE  RoomLeft(p, s) # {}
<1>1. PICK h : Leads(p, d, h, k) /\ h[k] = s
  BY DEF Reaches
<1>2. PICK e : Leads(p, d, e, n) /\ e[n] = t
  BY DEF Reaches
<1>3. \A i \in 0 .. k : h[i] = e[i]
  <2> SUFFICES ASSUME ~\A i \in 0 .. k : h[i] = e[i] PROVE FALSE
    OBVIOUS
  <2> DEFINE T == {i \in 0 .. k : h[i] # e[i]}
  <2>1. T \subseteq Nat /\ T # {}
    OBVIOUS
  <2>2. PICK i \in T : \A j \in T : i <= j
    BY <2>1, LeastNumber
  <2>3. i # 0 /\ i \in Nat /\ i <= k /\ h[i] # e[i]
    BY <1>1, <1>2, <2>2 DEF Leads
  <2>4. i - 1 \in 0 .. k - 1 /\ i - 1 \in 0 .. n - 1 /\ i - 1 \notin T /\ (i - 1) + 1 = i
    BY <2>2, <2>3
  <2>5. h[i - 1] = e[i - 1]
    BY <2>4
  <2>6. h[(i - 1) + 1] = After(p, d, h[i - 1]) /\ e[(i - 1) + 1] = After(p, d, e[i - 1])
    BY <1>1, <1>2, <2>4 DEF Leads
  <2> QED BY <2>3, <2>4, <2>5, <2>6
<1>4. k \in 0 .. n - 1 /\ h[k] = e[k]
  BY <1>3
<1> QED BY <1>1, <1>2, <1>4 DEF Leads

\* Nobody placed, and one more.
LEMMA ReachesNone == ASSUME NEW p, NEW d PROVE Reaches(p, d, Untouched(p), 0)
<1> DEFINE h == [i \in {0} |-> Untouched(p)]
<1>1. Leads(p, d, h, 0) /\ h[0] = Untouched(p)
  BY DEF Leads
<1> QED BY <1>1 DEF Reaches

\* One more.
LEMMA ReachesMore ==
    ASSUME NEW p, NEW d, NEW s, NEW k \in Nat, Reaches(p, d, s, k), RoomLeft(p, s) # {}
    PROVE  Reaches(p, d, After(p, d, s), k + 1)
<1>1. PICK h : Leads(p, d, h, k) /\ h[k] = s
  BY DEF Reaches
<1> DEFINE e == [i \in 0 .. k + 1 |-> IF i <= k THEN h[i] ELSE After(p, d, s)]
<1>2. (\A i \in 0 .. k : e[i] = h[i]) /\ e[k + 1] = After(p, d, s)
  OBVIOUS
<1> HIDE DEF e
<1>3. e[0] = Untouched(p)
  BY <1>1, <1>2 DEF Leads
<1>4. ASSUME NEW i \in 0 .. k
      PROVE  RoomLeft(p, e[i]) # {} /\ e[i + 1] = After(p, d, e[i])
  <2>1. CASE i = k
    BY <1>1, <1>2, <2>1
  <2>2. CASE i # k
    <3>1. i \in 0 .. k - 1 /\ i + 1 \in 0 .. k
      BY <2>2
    <3> QED BY <1>1, <1>2, <3>1 DEF Leads
  <2> QED BY <2>1, <2>2
<1>5. Leads(p, d, e, k + 1)
  <2>1. (k + 1) - 1 = k
    OBVIOUS
  <2> QED BY <1>3, <1>4, <2>1 DEF Leads
<1> QED BY <1>2, <1>5 DEF Reaches

\* The heaps of a call look at its arrangement.
LEMMA ArrangementIs ==
    /\ \A a : FreePlaces(a) = FreeIn(pack, Arrangement, a)
    /\ RoomLeft(pack, Arrangement) = ParkedRegions
    /\ NextIn(pack, Arrangement) = NextParkedRegion
    /\ AnchorIn(pack, seed, Arrangement) = NextAnchor(NextParkedRegion)
    /\ \A a : PlaceIn(pack, Arrangement, a) = TakeParkedPosition(a)
    /\ \A a : RegionIn(pack, a) = AnchorRegion(a)
<1> DEFINE s == Arrangement
<1>1. /\ s.reserved = Reserved /\ s.parked = [a \in Anchors |-> Cardinality(ParkedAt(a))]
      /\ s.there = [g \in Regions |-> ParkedAssigned(g)]
  BY DEF Arrangement
<1> HIDE DEF s
<1>2. \A a : RegionIn(pack, a) = AnchorRegion(a)
  BY DEF RegionIn, AnchorRegion, RegionOf
<1>3. ASSUME NEW a PROVE FreePlaces(a) = FreeIn(pack, s, a)
  BY <1>1 DEF FreePlaces, FreeIn, Fits, Near
<1>4. ASSUME NEW g PROVE OpenAnchors(g) = OpenIn(pack, s, g)
  BY <1>2, <1>3 DEF OpenAnchors, OpenIn, Anchors
<1>5. ParkedRegions = RoomLeft(pack, s)
  BY <1>4 DEF ParkedRegions, RoomLeft, Regions
<1>6. NextIn(pack, s) = NextParkedRegion
  <2> DEFINE f == [g \in ParkedRegions |-> Twice(ParkedAssigned(g))]
             e == [g \in RoomLeft(pack, s) |-> Twice(s.there[g])]
  <2>1. \A g \in ParkedRegions : Twice(s.there[g]) = Twice(ParkedAssigned(g))
    BY <1>1 DEF ParkedRegions
  <2>2. f = e
    BY <1>5, <2>1
  <2>3. NextIn(pack, s) = Least(e, pack.weight, 1) /\ NextParkedRegion = Least(f, pack.weight, 1)
    BY DEF NextIn, NextParkedRegion
  <2> HIDE DEF e, f
  <2> QED BY <2>2, <2>3
<1>7. AnchorIn(pack, seed, s) = NextAnchor(NextParkedRegion)
  <2> DEFINE g == NextParkedRegion
             f == [a \in OpenAnchors(g) |-> Cardinality(ParkedAt(a))]
             e == [a \in OpenIn(pack, s, NextIn(pack, s)) |-> s.parked[a]]
             w == [a \in Anchors |-> 1]
  <2>1. \A a \in OpenAnchors(g) : s.parked[a] = Cardinality(ParkedAt(a))
    BY <1>1 DEF OpenAnchors
  <2>2. f = e
    BY <1>4, <1>6, <2>1
  <2>3. AnchorIn(pack, seed, s) = Least(e, w, seed) /\ NextAnchor(g) = Least(f, w, seed)
    BY DEF AnchorIn, NextAnchor, Anchors
  <2> HIDE DEF e, f, g, w
  <2> QED BY <2>2, <2>3 DEF g
<1>8. ASSUME NEW a PROVE PlaceIn(pack, s, a) = TakeParkedPosition(a)
  BY <1>3 DEF PlaceIn, TakeParkedPosition
<1> QED BY <1>2, <1>3, <1>5, <1>6, <1>7, <1>8 DEF s

-----------------------------------------------------------------------------
(* What a start may rely on                                                *)

\* Capacity, TooSmall and Anchored of any fleet f in a pack p.
CapacityOf(p, f, r) ==
    IF f.continuous /\ ~p.routes[r].closed THEN 0 ELSE p.routes[r].slots
SmallIn(p, f, g) ==
    LET capacity == Cardinality(UNION {{r} \X (1 .. CapacityOf(p, f, r)) :
                                       r \in {q \in DOMAIN p.routes : p.routes[q].region = g}})
        total == Cardinality(UNION {{h} \X (1 .. p.weight[h]) : h \in DOMAIN p.weight})
    IN  capacity = 0 \/ capacity < (f.moving * p.weight[g]) \div total
AnchoredIn(p, g) == \E a \in DOMAIN p.anchors : RegionIn(p, a) = g
Accepts(p, f) ==
    /\ f.moving > 0 => \A g \in DOMAIN p.weight : ~SmallIn(p, f, g)
    /\ f.vehicles > f.moving => \A g \in DOMAIN p.weight : AnchoredIn(p, g)

\* A checkpoint s in which fleet f is placed whole, with the places its pack has.
Stands(s, v) == s[v] # None /\ ~s[v].moving
Suits(p, f, s) ==
    /\ \A r \in DOMAIN p.routes :
        Cardinality({v \in Vehicles : s[v] # None /\ s[v].moving /\ s[v].route = r})
            <= CapacityOf(p, f, r)
    /\ \A v \in Vehicles :
        /\ v > f.vehicles => s[v] = None
        /\ v <= f.vehicles => s[v] # None /\ s[v].moving = (v <= f.moving)
        /\ Stands(s, v) => s[v].exact
    /\ \A v, w \in Vehicles : v # w /\ Stands(s, v) /\ Stands(s, w) =>
        ~(s[v].place = s[w].place \/ {s[v].place, s[w].place} \in p.near)

\* The fleet that started last left a checkpoint that suits it.
LaunchedInv == launched # None => Accepts(pack, launched) /\ Suits(pack, launched, saved)

\* The coverage check has placed as many stationary vehicles as it counted.
PromisedInv ==
    promised > 0 => /\ \A g \in DOMAIN pack.weight : AnchoredIn(pack, g)
                    /\ \E s : Reaches(pack, seed, s, promised)

\* The same fleet starts again without being moved.
RepeatInv ==
    mode = "start" /\ pc # "idle" /\ fleet = launched => ~retried /\ moved = {} /\ pc # "failed"

ExactInv ==
    Running => \A v \in Vehicles : Parks(v) => assignment[v].exact

AcceptedInv == pc \in {"moving", "parked", "placed"} => Accepts(pack, fleet)

\* With no stationary vehicle restored, the arrangement is the one of a coverage check.
FreshInv ==
    /\ pc \in {"parked", "placed"} => next <= fleet.vehicles + 1
    /\ pc = "placed" => next > fleet.vehicles
    /\ pc \in {"parked", "placed"} /\ ~RestoredParkedUsed =>
        /\ next > fleet.moving
        /\ Reaches(pack, seed, Arrangement, (next - 1) - fleet.moving)
        /\ \A v \in Vehicles : v >= next => assignment[v] = None

FailedInv ==
    pc = "failed" /\ mode = "start" /\ failure \in {"parked", "anchors"} =>
        fleet.vehicles - fleet.moving > promised

CourseInv == RepeatInv /\ ExactInv /\ AcceptedInv /\ FreshInv /\ FailedInv
PromiseInv == PlacementInv /\ LaunchedInv /\ PromisedInv /\ CourseInv

\* The checks look at the fleet of the call.
LEMMA ChecksAre ==
    /\ \A r : Capacity(r) = CapacityOf(pack, fleet, r)
    /\ \A g : TooSmall(g) <=> SmallIn(pack, fleet, g)
    /\ \A g : Anchored(g) <=> AnchoredIn(pack, g)
<1>1. \A r : Capacity(r) = CapacityOf(pack, fleet, r)
  BY DEF Capacity, CapacityOf
<1>2. ASSUME NEW g PROVE TooSmall(g) <=> SmallIn(pack, fleet, g)
  <2> DEFINE R == {r \in Routes : RegionOf(r) = g}
             c == Cardinality(UNION {{r} \X (1 .. CapacityOf(pack, fleet, r)) : r \in R})
  <2>1. R = {q \in DOMAIN pack.routes : pack.routes[q].region = g}
    BY DEF Routes, RegionOf
  <2>2. \A r \in R : {r} \X (1 .. Capacity(r)) = {r} \X (1 .. CapacityOf(pack, fleet, r))
    BY <1>1
  <2>3. UNION {{r} \X (1 .. Capacity(r)) : r \in R}
          = UNION {{r} \X (1 .. CapacityOf(pack, fleet, r)) : r \in R}
    BY <2>2
  <2>4. RegionCapacity(g) = c
    BY <2>3 DEF RegionCapacity, SlotsIn
  <2>5. WeightTotal = Cardinality(UNION {{h} \X (1 .. pack.weight[h]) : h \in DOMAIN pack.weight})
    BY DEF WeightTotal, Regions
  <2> HIDE DEF R, c
  <2>6. SmallIn(pack, fleet, g) <=>
          c = 0 \/ c < (fleet.moving * pack.weight[g]) \div WeightTotal
    BY <2>1, <2>5 DEF SmallIn, c
  <2> QED BY <2>4, <2>6 DEF TooSmall
<1>3. \A g : Anchored(g) <=> AnchoredIn(pack, g)
  BY ArrangementIs DEF Anchored, AnchoredIn, Anchors
<1> QED BY <1>1, <1>2, <1>3

\* What a step that leaves them alone keeps.
LEMMA LastingStays ==
    ASSUME LaunchedInv, PromisedInv, UNCHANGED <<pack, seed, saved, launched, promised>>
    PROVE  LaunchedInv' /\ PromisedInv'
  BY DEF LaunchedInv, PromisedInv

\* The fleet that started last is restored whole.
LEMMA RestoredWhole ==
    ASSUME PromiseInv, mode = "start", pc \in Phases, fleet = launched
    PROVE  /\ ~retried /\ moved = {}
           /\ Accepts(pack, fleet) /\ Suits(pack, fleet, saved)
           /\ \A v \in Vehicles : v <= fleet.vehicles =>
                /\ restored[v] = saved[v] /\ saved[v] # None
                /\ saved[v].moving = (v <= fleet.moving)
           /\ \A v \in Vehicles : Passed(v) => assignment[v] = saved[v] /\ assignment[v] # None
           /\ \A v \in Vehicles : assignment[v] # None => assignment[v] = saved[v]
<1>1. /\ PlacementInv /\ LaunchedInv /\ RepeatInv /\ pc # "idle" /\ RestoreInv /\ CallInv
  BY RunningIs DEF PromiseInv, CourseInv
<1>2. ~retried /\ moved = {}
  BY <1>1 DEF RepeatInv
<1>3. fleet \in Fleets /\ restored = saved
  BY <1>1, <1>2 DEF CallInv
<1>4. launched # None
  <2>1. fleet \in [vehicles : Nat, moving : Nat, continuous : BOOLEAN]
    BY <1>3, FleetAssumption, VehiclesAre
  <2> QED BY <2>1, NoneAssumption
<1>5. Accepts(pack, fleet) /\ Suits(pack, fleet, saved)
  BY <1>1, <1>4 DEF LaunchedInv
<1>6. \A v \in Vehicles : v <= fleet.vehicles =>
        restored[v] = saved[v] /\ saved[v] # None /\ saved[v].moving = (v <= fleet.moving)
  BY <1>3, <1>5 DEF Suits
<1>7. ASSUME NEW v \in Vehicles, Passed(v) PROVE assignment[v] = saved[v] /\ assignment[v] # None
  <2>1. restored[v] = saved[v] /\ saved[v] # None
    BY <1>6, <1>7 DEF Passed
  <2> QED BY <1>1, <1>2, <1>7, <2>1 DEF RestoreInv
<1>8. ASSUME NEW v \in Vehicles, assignment[v] # None PROVE assignment[v] = saved[v]
  <2>1. v <= fleet.vehicles /\ (pc = "restore" => ~(v >= next))
    BY <1>1, <1>8 DEF RestoreInv
  <2>2. v \in Nat /\ next \in Nat
    BY RunningIs, VehiclesAre DEF PromiseInv
  <2>3. Passed(v)
    BY <2>1, <2>2 DEF Passed
  <2> QED BY <1>7, <2>3
<1> QED BY <1>2, <1>5, <1>6, <1>7, <1>8

-----------------------------------------------------------------------------
(* The steps of a call, and what a start relies on                         *)

\* A call that goes on.
LEMMA CourseStays ==
    ASSUME PromiseInv, pc \in Phases, Stays, pc' \in Phases, PlacementInv',
           mode = "start" /\ fleet = launched => moved' = {},
           \A v \in Vehicles : Parks(v)' => assignment'[v].exact,
           pc' \in {"moving", "parked", "placed"} => Accepts(pack, fleet), FreshInv'
    PROVE  PromiseInv'
<1>1. LaunchedInv' /\ PromisedInv'
  BY LastingStays DEF PromiseInv, Stays
<1>2. pc # "idle" /\ pc' # "failed"
  BY DEF Phases
<1>3. RepeatInv'
  BY <1>2 DEF PromiseInv, CourseInv, RepeatInv, Stays
<1>4. ExactInv' /\ AcceptedInv' /\ FailedInv'
  BY <1>2 DEF ExactInv, AcceptedInv, FailedInv, Stays
<1> QED BY <1>1, <1>3, <1>4 DEF PromiseInv, CourseInv

\* A call that goes on before the placement.
LEMMA CourseBegins ==
    ASSUME PromiseInv, pc \in Phases, Stays, pc' \in {"restore", "relocate", "check"}, PlacementInv',
           mode = "start" /\ fleet = launched => moved' = {},
           \A v \in Vehicles : Parks(v)' => assignment'[v].exact
    PROVE  PromiseInv'
<1>1. pc' \in Phases /\ pc' \notin {"moving", "parked", "placed"}
  BY DEF Phases
<1>2. FreshInv'
  BY <1>1 DEF FreshInv
<1> QED BY <1>1, <1>2, CourseStays

\* A call that only goes on.
LEMMA CourseGoesTo ==
    ASSUME PromiseInv, pc \in Phases, NEW phase \in Phases, NEW first, GoTo(phase, first),
           PlacementInv', FreshInv',
           phase \in {"moving", "parked", "placed"} => Accepts(pack, fleet)
    PROVE  PromiseInv'
<1>1. /\ Stays /\ pc' = phase /\ moved' = moved /\ assignment' = assignment
  BY DEF GoTo, Stays
<1>2. pc # "idle" /\ Running
  BY DEF Phases, Running
<1>3. mode = "start" /\ fleet = launched => moved' = {}
  BY <1>1, <1>2 DEF PromiseInv, CourseInv, RepeatInv
<1>4. \A v \in Vehicles : Parks(v)' => assignment'[v].exact
  BY <1>1, <1>2 DEF PromiseInv, CourseInv, ExactInv, Parks
<1> QED BY <1>1, <1>3, <1>4, CourseStays

\* A call that throws.
LEMMA CourseThrows ==
    ASSUME PromiseInv, pc \in Phases, NEW why, Throw(why), PlacementInv',
           mode = "start" => /\ fleet # launched
                             /\ why \in {"parked", "anchors"} =>
                                  fleet.vehicles - fleet.moving > promised
    PROVE  PromiseInv'
<1>1. Stays /\ pc' = "failed" /\ failure' = why
  BY DEF Throw, Stays
<1>2. LaunchedInv' /\ PromisedInv'
  BY <1>1, LastingStays DEF PromiseInv, Stays
<1>3. RepeatInv' /\ FailedInv'
  BY <1>1 DEF RepeatInv, FailedInv, Stays
<1>4. ExactInv' /\ AcceptedInv' /\ FreshInv'
  BY <1>1 DEF ExactInv, AcceptedInv, FreshInv, Running
<1> QED BY <1>2, <1>3, <1>4 DEF PromiseInv, CourseInv

\* A call that begins.
LEMMA CourseCalls ==
    ASSUME PromiseInv, NEW f, NEW m, NEW source, NEW again, Call(f, m, source, again), PlacementInv',
           m = "start" /\ f = launched => ~again
    PROVE  PromiseInv'
<1>1. /\ fleet' = f /\ mode' = m /\ retried' = again /\ pc' = "restore" /\ moved' = {}
      /\ assignment' = Nobody /\ UNCHANGED <<pack, seed, saved, failure, launched, promised>>
  BY DEF Call
<1>2. LaunchedInv' /\ PromisedInv'
  BY <1>1, LastingStays DEF PromiseInv
<1>3. RepeatInv' /\ AcceptedInv' /\ FreshInv' /\ FailedInv'
  BY <1>1 DEF RepeatInv, AcceptedInv, FreshInv, FailedInv
<1>4. ExactInv'
  BY <1>1 DEF ExactInv, Parks, Nobody
<1> QED BY <1>2, <1>3, <1>4 DEF PromiseInv, CourseInv

\* The fleet that started last is restored without an error or a collision.
LEMMA RepeatRestores ==
    ASSUME PromiseInv, mode = "start", fleet = launched, pc = "restore",
           next <= fleet.vehicles, restored[next] # None
    PROVE  /\ ~RoleChanged(next)
           /\ ~(restored[next].moving /\ Capacity(restored[next].route) = 0)
           /\ ~(~restored[next].moving /\ Collides(next))
<1>1. pc \in Phases
  BY DEF Phases
<1>2. /\ RestoreInv /\ Typed /\ next \in Vehicles
      /\ restored \in [Vehicles -> Assigned \cup {None}]
  BY <1>1, RunningIs DEF PromiseInv
<1>3. /\ Suits(pack, fleet, saved) /\ restored[next] = saved[next] /\ saved[next] # None
      /\ saved[next].moving = (next <= fleet.moving)
      /\ \A v \in Vehicles : assignment[v] # None => assignment[v] = saved[v]
  BY <1>1, <1>2, RestoredWhole
<1>4. ~RoleChanged(next)
  BY <1>3 DEF RoleChanged
<1>5. saved[next] \in Assigned
  BY <1>2, <1>3
<1>6. ASSUME saved[next].moving PROVE Capacity(saved[next].route) # 0
  <2> DEFINE r == saved[next].route
             S == {v \in Vehicles : saved[v] # None /\ saved[v].moving /\ saved[v].route = r}
  <2>1. r \in Routes
    BY <1>2, <1>5, <1>6, AssignedIs DEF Typed
  <2>2. Cardinality(S) <= CapacityOf(pack, fleet, r)
    BY <1>3, <2>1 DEF Suits, Routes
  <2>3. S \in SUBSET Vehicles /\ next \in S
    BY <1>2, <1>3, <1>6
  <2> HIDE DEF S, r
  <2>4. IsFiniteSet(S) /\ Cardinality(S) \in Nat
    BY <2>3, VehiclesAre
  <2>5. Cardinality(S) # 0
    BY <2>3, <2>4, FS_EmptySet
  <2>6. Capacity(r) = CapacityOf(pack, fleet, r) /\ Capacity(r) \in Nat
    BY <1>2, <2>1, ChecksAre, CapacityIs DEF Typed
  <2>7. Capacity(r) # 0
    BY <2>2, <2>4, <2>5, <2>6
  <2> QED BY <2>7 DEF r
<1>7. ASSUME ~saved[next].moving PROVE ~Collides(next)
  <2>1. Stands(saved, next) /\ saved[next].exact
    BY <1>2, <1>3, <1>7 DEF Suits, Stands
  <2>2. ASSUME NEW p \in Reserved PROVE ~Near(p, saved[next].place)
    <3>1. PICK w \in Vehicles : Parks(w) /\ assignment[w].place = p
      BY <1>2, <2>2, ReservedIs
    <3>2. assignment[w] = saved[w] /\ Stands(saved, w) /\ saved[w].place = p
      BY <1>3, <3>1 DEF Parks, Stands
    <3>3. assignment[next] = None
      <4>1. next >= next
        BY <1>2, VehiclesAre
      <4> QED BY <1>2, <4>1 DEF RestoreInv
    <3>4. w # next
      BY <3>1, <3>3 DEF Parks
    <3> QED BY <1>2, <1>3, <2>1, <3>2, <3>4 DEF Suits, Near
  <2>3. Fits(saved[next].place)
    BY <2>2 DEF Fits
  <2> QED BY <1>3, <2>1, <2>3 DEF Collides
<1> QED BY <1>3, <1>4, <1>6, <1>7

\* What is restored has the place it had.
LEMMA RestoreKeeps == ASSUME PromiseInv, Restore, PlacementInv' PROVE PromiseInv'
<1>1. pc = "restore" /\ next <= fleet.vehicles /\ restored[next] # None /\ pc \in Phases
  BY DEF Restore, Phases
<1>2. /\ Typed /\ next \in Vehicles /\ Running /\ pc # "idle"
      /\ RestoreInv /\ restored \in [Vehicles -> Assigned \cup {None}]
  BY <1>1, RunningIs DEF PromiseInv
<1>3. \A v \in Vehicles : Parks(v) => assignment[v].exact
  BY <1>2 DEF PromiseInv, CourseInv, ExactInv
<1>4. CASE Throw("role") \/ Throw("continuous")
  <2>1. RoleChanged(next) \/ (restored[next].moving /\ Capacity(restored[next].route) = 0)
    <3>1. pc' = "failed"
      BY <1>4 DEF Throw
    <3> QED BY <1>1, <3>1 DEF Restore, Assign
  <2>2. mode = "start" => fleet # launched
    BY <1>1, <2>1, RepeatRestores
  <2> QED BY <1>1, <1>4, <2>2, CourseThrows
<1>5. CASE /\ ~restored[next].moving /\ Collides(next)
           /\ colliding' = colliding \cup {next} /\ moved' = moved \cup {next}
           /\ Stays /\ pc' = pc /\ assignment' = assignment
  <2>1. mode = "start" => fleet # launched
    BY <1>1, <1>5, RepeatRestores
  <2>2. \A v \in Vehicles : Parks(v)' => assignment'[v].exact
    BY <1>3, <1>5 DEF Parks
  <2> QED BY <1>1, <1>5, <2>1, <2>2, CourseBegins
<1>6. CASE /\ ~(~restored[next].moving /\ Collides(next))
           /\ assignment' = [assignment EXCEPT ![next] = restored[next]]
           /\ Stays /\ pc' = pc /\ moved' = moved
  <2>1. mode = "start" /\ fleet = launched => moved' = {}
    BY <1>2, <1>6 DEF PromiseInv, CourseInv, RepeatInv
  <2>2. ASSUME NEW v \in Vehicles, Parks(v)' PROVE assignment'[v].exact
    <3>1. assignment'[v] = IF v = next THEN restored[next] ELSE assignment[v]
      BY <1>2, <1>6 DEF Typed
    <3>2. CASE v = next
      BY <1>6, <2>2, <3>1, <3>2 DEF Parks, Collides
    <3>3. CASE v # next
      BY <1>3, <2>2, <3>1, <3>3 DEF Parks
    <3> QED BY <3>2, <3>3
  <2> QED BY <1>1, <1>6, <2>1, <2>2, CourseBegins
<1>7. \/ Throw("role") \/ Throw("continuous")
      \/ /\ ~restored[next].moving /\ Collides(next)
         /\ colliding' = colliding \cup {next} /\ moved' = moved \cup {next}
         /\ Stays /\ pc' = pc /\ assignment' = assignment
      \/ /\ ~(~restored[next].moving /\ Collides(next))
         /\ assignment' = [assignment EXCEPT ![next] = restored[next]]
         /\ Stays /\ pc' = pc /\ moved' = moved
  BY DEF Restore, Assign, Stays
<1> QED BY <1>4, <1>5, <1>6, <1>7

\* Before the placement a call goes on without a further condition.
LEMMA EarlyKeeps ==
    ASSUME PromiseInv, NothingSaved \/ AllRestored \/ AllRelocated, PlacementInv'
    PROVE  PromiseInv'
<1>1. pc \in Phases /\ {"restore", "relocate", "check"} \subseteq Phases
  BY DEF NothingSaved, AllRestored, AllRelocated, Phases
<1>2. PICK phase \in {"restore", "relocate", "check"} : \E first : GoTo(phase, first)
  BY DEF NothingSaved, AllRestored, AllRelocated
<1>3. PICK first : GoTo(phase, first)
  BY <1>2
<1>4. FreshInv' /\ phase \notin {"moving", "parked", "placed"}
  BY <1>2, <1>3 DEF GoTo, FreshInv
<1> QED BY <1>1, <1>3, <1>4, CourseGoesTo

\* A vehicle that is relocated has a place of the pack.
LEMMA RelocateKeeps == ASSUME PromiseInv, Relocate, PlacementInv' PROVE PromiseInv'
<1> DEFINE v == CHOOSE y \in colliding : \A z \in colliding : y <= z
           a == restored[v].anchor
           x == Parked(a, TakeParkedPosition(a), TRUE)
<1>1. /\ pc = "relocate" /\ Stays /\ pc' = pc /\ moved' = moved
      /\ assignment' = assignment \/ assignment' = [assignment EXCEPT ![v] = x]
  BY DEF Relocate, Stays
<1>2. pc \in Phases
  BY <1>1 DEF Phases
<1>3. Typed /\ Running /\ pc # "idle"
  BY <1>2, RunningIs DEF PromiseInv
<1>4. x.exact = TRUE
  BY DEF Parked
<1> HIDE DEF v, x
<1>5. mode = "start" /\ fleet = launched => moved' = {}
  BY <1>1, <1>3 DEF PromiseInv, CourseInv, RepeatInv
<1>6. ASSUME NEW u \in Vehicles, Parks(u)' PROVE assignment'[u].exact
  <2>1. assignment'[u] = assignment[u] \/ assignment'[u] = x
    BY <1>1, <1>3 DEF Typed
  <2> QED BY <1>3, <1>4, <1>6, <2>1 DEF PromiseInv, CourseInv, ExactInv, Parks
<1> QED BY <1>1, <1>2, <1>5, <1>6, CourseBegins

\* The fleet that started last passes the checks.
LEMMA RepeatPasses ==
    ASSUME PromiseInv, mode = "start", fleet = launched, pc = "check"
    PROVE  /\ ~(MissingMoving > AvailableCapacity)
           /\ ~(fleet.moving > 0 /\ \E g \in Regions : TooSmall(g))
           /\ ~(fleet.vehicles > fleet.moving /\ \E g \in Regions : ~Anchored(g))
<1>1. pc \in Phases
  BY DEF Phases
<1>2. /\ Typed /\ fleet.vehicles \in Vehicles /\ fleet.moving \in Nat
      /\ fleet.moving <= fleet.vehicles /\ fleet.vehicles \in Nat
  BY <1>1, RunningIs DEF PromiseInv
<1>3. /\ Accepts(pack, fleet)
      /\ \A v \in Vehicles : Passed(v) => assignment[v] = saved[v] /\ assignment[v] # None
  BY <1>1, RestoredWhole
<1>4. MissingMoving = 0
  <2>1. ASSUME NEW v \in 1 .. fleet.moving PROVE assignment[v] # None
    <3>1. v \in Vehicles
      BY <1>2, MissingIs
    <3>2. v <= fleet.vehicles
      BY <1>2
    <3> QED BY <1>3, <3>1, <3>2 DEF Passed
  <2>2. {v \in 1 .. fleet.moving : assignment[v] = None} = {}
    BY <2>1
  <2> QED BY <2>2, FS_EmptySet DEF MissingMoving
<1>5. AvailableCapacity \in Nat
  <2>1. WithinCapacity
    BY RestoredFit DEF PromiseInv
  <2>2. Cardinality(UNION {MoversOn(r) : r \in Routes}) <= SlotsIn(Routes)
    BY <1>2, <2>1, NoRoom DEF WithinCapacity
  <2> QED BY <1>2, <2>2, CountsAre
<1> QED BY <1>3, <1>4, <1>5, ChecksAre DEF Accepts, Regions

\* What passes the checks is accepted; a region without anchors was not counted.
LEMMA CheckKeeps == ASSUME PromiseInv, Check, PlacementInv' PROVE PromiseInv'
<1>1. pc = "check" /\ pc \in Phases /\ "moving" \in Phases
  BY DEF Check, Phases
<1>2. /\ Typed /\ fleet.vehicles \in Nat /\ fleet.moving \in Nat
      /\ fleet.moving <= fleet.vehicles /\ fleet.vehicles \in Vehicles
  BY <1>1, RunningIs DEF PromiseInv
<1>3. WithinCapacity
  BY <1>1, RestoredFit DEF PromiseInv
<1>4. ~\E r \in Routes : Occupancy(r) > Capacity(r)
  <2> SUFFICES ASSUME NEW r \in Routes PROVE ~(Occupancy(r) > Capacity(r))
    OBVIOUS
  <2>1. Occupancy(r) \in Nat /\ Capacity(r) \in Nat
    BY <1>2, MoversAre, CapacityIs DEF Typed
  <2> QED BY <1>3, <2>1 DEF WithinCapacity
<1>5. promised \in Nat
  BY DEF PromiseInv, PlacementInv, TypeOK
<1>6. CASE MissingMoving > AvailableCapacity
  <2>1. Throw("capacity")
    BY <1>6 DEF Check
  <2>2. mode = "start" => fleet # launched
    BY <1>1, <1>6, RepeatPasses
  <2> QED BY <1>1, <2>1, <2>2, CourseThrows
<1>7. CASE /\ ~(MissingMoving > AvailableCapacity)
           /\ fleet.moving > 0 /\ \E g \in Regions : TooSmall(g)
  <2>1. Throw("region")
    BY <1>7 DEF Check
  <2>2. mode = "start" => fleet # launched
    BY <1>1, <1>7, RepeatPasses
  <2> QED BY <1>1, <2>1, <2>2, CourseThrows
<1>8. CASE /\ ~(MissingMoving > AvailableCapacity)
           /\ ~(fleet.moving > 0 /\ \E g \in Regions : TooSmall(g))
           /\ fleet.vehicles > fleet.moving /\ \E g \in Regions : ~Anchored(g)
  <2>1. Throw("anchors")
    BY <1>8 DEF Check
  <2>2. mode = "start" => fleet # launched
    BY <1>1, <1>8, RepeatPasses
  <2>3. ~(promised > 0)
    BY <1>8, ChecksAre DEF PromiseInv, PromisedInv, Regions
  <2>4. fleet.vehicles - fleet.moving > promised
    BY <1>2, <1>5, <1>8, <2>3
  <2> QED BY <1>1, <2>1, <2>2, <2>4, CourseThrows
<1>9. CASE /\ ~(MissingMoving > AvailableCapacity)
           /\ ~(fleet.moving > 0 /\ \E g \in Regions : TooSmall(g))
           /\ ~(fleet.vehicles > fleet.moving /\ \E g \in Regions : ~Anchored(g))
  <2>1. GoTo("moving", 1)
    BY <1>4, <1>9 DEF Check
  <2>2. Accepts(pack, fleet)
    BY <1>9, ChecksAre DEF Accepts, Regions
  <2>3. FreshInv'
    BY <2>1 DEF GoTo, FreshInv
  <2> QED BY <1>1, <2>1, <2>2, <2>3, CourseGoesTo
<1> QED BY <1>6, <1>7, <1>8, <1>9

\* The fleet that started last needs no new place.
LEMMA RepeatNeedsNone ==
    ASSUME PromiseInv, pc \in {"moving", "parked"}, next <= fleet.vehicles, assignment[next] = None
    PROVE  mode = "start" => fleet # launched
<1> SUFFICES ASSUME mode = "start", fleet = launched PROVE FALSE
  OBVIOUS
<1>1. pc \in Phases
  BY DEF Phases
<1>2. next \in Vehicles
  BY <1>1, RunningIs DEF PromiseInv
<1>3. Passed(next)
  BY DEF Passed
<1> QED BY <1>1, <1>2, <1>3, RestoredWhole

\* Only a new moving vehicle is placed.
LEMMA PlaceMovingKeeps == ASSUME PromiseInv, PlaceMoving, PlacementInv' PROVE PromiseInv'
<1> DEFINE r == NextRoute(NextMovingRegion)
           x == Mover(r, SlotAt(r, FirstAttempt(r)))
<1>1. pc = "moving" /\ pc \in Phases /\ next <= fleet.moving /\ assignment[next] = None
  BY DEF PlaceMoving, Phases
<1>2. /\ Typed /\ Running /\ next \in Nat /\ fleet.moving \in Nat /\ fleet.vehicles \in Nat
      /\ fleet.moving <= fleet.vehicles
  BY <1>1, RunningIs DEF PromiseInv
<1>3. mode = "start" => fleet # launched
  <2>1. next <= fleet.vehicles
    BY <1>1, <1>2
  <2> QED BY <1>1, <2>1, RepeatNeedsNone
<1>4. CASE Throw("exhausted")
  BY <1>1, <1>3, <1>4, CourseThrows
<1>5. CASE Stays /\ pc' = pc /\ assignment' = [assignment EXCEPT ![next] = x]
  <2>1. x.moving = TRUE
    BY DEF Mover
  <2> HIDE DEF x
  <2>2. ASSUME NEW u \in Vehicles, Parks(u)' PROVE assignment'[u].exact
    <3>1. assignment'[u] = assignment[u] \/ assignment'[u] = x
      BY <1>2, <1>5 DEF Typed
    <3> QED BY <1>2, <2>1, <2>2, <3>1 DEF PromiseInv, CourseInv, ExactInv, Parks
  <2>3. Accepts(pack, fleet)
    BY <1>1 DEF PromiseInv, CourseInv, AcceptedInv
  <2>4. FreshInv'
    BY <1>1, <1>5 DEF FreshInv
  <2> QED BY <1>1, <1>3, <1>5, <2>2, <2>3, <2>4, CourseStays
<1>6. Throw("exhausted") \/ (Stays /\ pc' = pc /\ assignment' = [assignment EXCEPT ![next] = x])
  BY DEF PlaceMoving, Assign, Stays
<1> QED BY <1>4, <1>5, <1>6

\* A restored moving vehicle changes nothing.
LEMMA MovingThereKeeps == ASSUME PromiseInv, MovingThere, PlacementInv' PROVE PromiseInv'
<1>1. pc = "moving" /\ GoTo("moving", next + 1) /\ pc \in Phases /\ "moving" \in Phases
  BY DEF MovingThere, Phases
<1>2. Accepts(pack, fleet)
  BY <1>1 DEF PromiseInv, CourseInv, AcceptedInv
<1>3. FreshInv'
  BY <1>1 DEF GoTo, FreshInv
<1> QED BY <1>1, <1>2, <1>3, CourseGoesTo

\* Without a stationary vehicle the arrangement is the first one.
LEMMA ArrangementNone ==
    ASSUME \A v \in Vehicles : ~Parks(v)
    PROVE  Arrangement = Untouched(pack)
<1>1. \A a : ParkedAt(a) = {}
  BY DEF ParkedAt, Parks
<1>2. Reserved = {}
  BY <1>1 DEF Reserved
<1>3. \A a : Cardinality(ParkedAt(a)) = 0
  BY <1>1, FS_EmptySet
<1>4. ASSUME NEW g PROVE ParkedAssigned(g) = 0
  <2>1. UNION {ParkedAt(a) : a \in {b \in Anchors : AnchorRegion(b) = g}} = {}
    BY <1>1
  <2> QED BY <2>1, FS_EmptySet DEF ParkedAssigned
<1>5. [a \in Anchors |-> Cardinality(ParkedAt(a))] = [a \in Anchors |-> 0]
  BY <1>3
<1>6. [g \in Regions |-> ParkedAssigned(g)] = [g \in Regions |-> 0]
  BY <1>4
<1> QED BY <1>2, <1>5, <1>6 DEF Arrangement, Untouched, Anchors, Regions

\* A stationary vehicle more is one more in the arrangement.
LEMMA ArrangementMore ==
    ASSUME Typed, Stays, NEW v \in Vehicles, assignment[v] = None, NEW a \in Anchors,
           NEW x, x \in Assigned, ~x.moving, x.anchor = a, x.place = TakeParkedPosition(a),
           assignment' = [assignment EXCEPT ![v] = x]
    PROVE  Arrangement' = OneMore(pack, Arrangement, a)
<1>1. /\ Regions' = Regions /\ Anchors' = Anchors
      /\ \A b : AnchorRegion(b)' = AnchorRegion(b)
  BY SamePack DEF Stays
<1>2. \A w \in Vehicles : assignment'[w] = IF w = v THEN x ELSE assignment[w]
  BY DEF Typed
<1>3. x # None
  BY AssignedIs DEF Typed
<1>4. ASSUME NEW b PROVE ParkedAt(b)' = ParkedAt(b) \cup (IF b = a THEN {v} ELSE {})
  BY <1>2, <1>3 DEF ParkedAt
<1>5. \A b : v \notin ParkedAt(b) /\ ParkedAt(b) \in SUBSET Vehicles
  BY DEF ParkedAt
<1>6. Reserved' = Reserved \cup {x.place}
  <2>1. ASSUME NEW p \in Reserved' PROVE p \in Reserved \cup {x.place}
    <3>1. PICK b \in Anchors : p \in {assignment'[w].place : w \in ParkedAt(b)'}
      BY <1>1, <2>1 DEF Reserved
    <3>2. PICK w \in ParkedAt(b)' : p = assignment'[w].place
      BY <3>1
    <3>3. CASE w = v
      BY <1>2, <3>2, <3>3
    <3>4. CASE w # v
      <4>1. w \in ParkedAt(b)
        BY <1>4, <3>2, <3>4
      <4>2. p = assignment[w].place
        BY <1>2, <1>5, <3>2, <3>4, <4>1
      <4> QED BY <4>1, <4>2 DEF Reserved
    <3> QED BY <3>3, <3>4
  <2>2. ASSUME NEW p \in Reserved PROVE p \in Reserved'
    <3>1. PICK b \in Anchors : p \in {assignment[w].place : w \in ParkedAt(b)}
      BY <2>2 DEF Reserved
    <3>2. PICK w \in ParkedAt(b) : p = assignment[w].place
      BY <3>1
    <3>3. w \in ParkedAt(b)' /\ p = assignment'[w].place
      BY <1>2, <1>4, <1>5, <3>2
    <3>4. p \in {assignment'[u].place : u \in ParkedAt(b)'}
      BY <3>3
    <3>5. b \in Anchors'
      BY <1>1
    <3> QED BY <3>4, <3>5 DEF Reserved
  <2>3. x.place \in Reserved'
    <3>1. v \in ParkedAt(a)' /\ x.place = assignment'[v].place /\ a \in Anchors'
      BY <1>1, <1>2, <1>4
    <3>2. x.place \in {assignment'[u].place : u \in ParkedAt(a)'}
      BY <3>1
    <3> QED BY <3>1, <3>2 DEF Reserved
  <2> QED BY <2>1, <2>2, <2>3
<1>7. ASSUME NEW b \in Anchors
      PROVE  Cardinality(ParkedAt(b)') =
               IF b = a THEN Cardinality(ParkedAt(b)) + 1 ELSE Cardinality(ParkedAt(b))
  <2>1. IsFiniteSet(ParkedAt(b))
    BY ParkedAre
  <2>2. CASE b = a
    <3>1. ParkedAt(b)' = ParkedAt(b) \cup {v} /\ v \notin ParkedAt(b)
      BY <1>4, <1>5, <2>2
    <3>2. Cardinality(ParkedAt(b) \cup {v}) = Cardinality(ParkedAt(b)) + 1
      BY <2>1, <3>1, FS_AddElement
    <3> QED BY <2>2, <3>1, <3>2
  <2>3. CASE b # a
    <3>1. ParkedAt(b)' = ParkedAt(b)
      BY <1>4, <2>3
    <3> QED BY <2>3, <3>1
  <2> QED BY <2>2, <2>3
<1>8. ASSUME NEW g \in Regions
      PROVE  ParkedAssigned(g)' =
               IF g = AnchorRegion(a) THEN ParkedAssigned(g) + 1 ELSE ParkedAssigned(g)
  <2> DEFINE B == {b \in Anchors : AnchorRegion(b) = g}
             P == UNION {ParkedAt(b) : b \in B}
  <2>1. P \in SUBSET Vehicles /\ v \notin P
    BY <1>5
  <2>2. IsFiniteSet(P)
    BY <2>1, VehiclesAre
  <2>3. B' = B
    BY <1>1
  <2>4. ParkedAssigned(g) = Cardinality(P) /\ ParkedAssigned(g)' = Cardinality(P')
    BY DEF ParkedAssigned
  <2>5. CASE g = AnchorRegion(a)
    <3>1. P' = P \cup {v}
      BY <1>4, <2>3, <2>5
    <3>2. Cardinality(P \cup {v}) = Cardinality(P) + 1
      BY <2>1, <2>2, FS_AddElement
    <3> QED BY <2>4, <2>5, <3>1, <3>2
  <2>6. CASE g # AnchorRegion(a)
    <3>1. \A b \in B : ParkedAt(b)' = ParkedAt(b)
      BY <1>4, <2>6
    <3>2. P' = P
      BY <2>3, <3>1
    <3> QED BY <2>4, <2>6, <3>2
  <2> QED BY <2>5, <2>6
<1> DEFINE s == Arrangement
<1>9. /\ s.reserved = Reserved
      /\ \A b \in Anchors : s.parked[b] = Cardinality(ParkedAt(b))
      /\ \A g \in Regions : s.there[g] = ParkedAssigned(g)
      /\ PlaceIn(pack, s, a) = x.place /\ RegionIn(pack, a) = AnchorRegion(a)
  BY ArrangementIs DEF Arrangement
<1>10. s' = [reserved |-> Reserved', parked |-> [b \in Anchors |-> Cardinality(ParkedAt(b)')],
             there |-> [g \in Regions |-> ParkedAssigned(g)']]
  <2>1. [b \in Anchors' |-> Cardinality(ParkedAt(b)')] = [b \in Anchors |-> Cardinality(ParkedAt(b)')]
    BY <1>1
  <2>2. [g \in Regions' |-> ParkedAssigned(g)'] = [g \in Regions |-> ParkedAssigned(g)']
    BY <1>1
  <2>3. s' = [reserved |-> Reserved', parked |-> [b \in Anchors' |-> Cardinality(ParkedAt(b)')],
              there |-> [g \in Regions' |-> ParkedAssigned(g)']]
    BY DEF Arrangement
  <2> QED BY <2>1, <2>2, <2>3
<1> HIDE DEF s
<1>11. [b \in Anchors |-> Cardinality(ParkedAt(b)')]
         = [b \in DOMAIN pack.anchors |-> IF b = a THEN s.parked[b] + 1 ELSE s.parked[b]]
  BY <1>7, <1>9 DEF Anchors
<1>12. [g \in Regions |-> ParkedAssigned(g)']
         = [g \in DOMAIN pack.weight |->
              IF g = RegionIn(pack, a) THEN s.there[g] + 1 ELSE s.there[g]]
  BY <1>8, <1>9 DEF Regions
<1>13. s' = OneMore(pack, s, a)
  BY <1>6, <1>9, <1>10, <1>11, <1>12 DEF OneMore
<1> QED BY <1>13 DEF s

\* The arrangement is what the assignments make it.
LEMMA ArrangementStays ==
    ASSUME pack' = pack, assignment' = assignment PROVE Arrangement' = Arrangement
<1>1. /\ Regions' = Regions /\ Anchors' = Anchors
      /\ \A b : AnchorRegion(b)' = AnchorRegion(b)
  BY SamePack
<1>2. \A a : ParkedAt(a)' = ParkedAt(a)
  BY DEF ParkedAt
<1>3. Reserved' = Reserved
  BY <1>1, <1>2 DEF Reserved
<1>4. ASSUME NEW g PROVE ParkedAssigned(g)' = ParkedAssigned(g)
  <2> DEFINE B == {b \in Anchors : AnchorRegion(b) = g}
             P == UNION {ParkedAt(b) : b \in B}
  <2>1. B' = B
    BY <1>1
  <2>2. P' = P
    BY <1>2, <2>1
  <2> QED BY <2>2 DEF ParkedAssigned
<1>5. [a \in Anchors' |-> Cardinality(ParkedAt(a)')] = [a \in Anchors |-> Cardinality(ParkedAt(a))]
  BY <1>1, <1>2
<1>6. [g \in Regions' |-> ParkedAssigned(g)'] = [g \in Regions |-> ParkedAssigned(g)]
  BY <1>1, <1>4
<1> QED BY <1>3, <1>5, <1>6 DEF Arrangement

\* The placement of stationary vehicles begins.
LEMMA AllMovingKeeps == ASSUME PromiseInv, AllMoving, PlacementInv' PROVE PromiseInv'
<1>1. /\ pc = "moving" /\ next > fleet.moving /\ GoTo("parked", next)
      /\ pc \in Phases /\ "parked" \in Phases
  BY DEF AllMoving, Phases
<1>2. /\ pc' = "parked" /\ next' = next
      /\ UNCHANGED <<pack, seed, fleet, restored, assignment>>
  BY <1>1 DEF GoTo
<1>3. /\ RestoreInv /\ ProgressInv /\ next \in Nat /\ fleet.moving \in Nat
      /\ fleet.vehicles \in Nat /\ fleet.moving <= fleet.vehicles /\ Typed
  BY <1>1, RunningIs DEF PromiseInv
<1>4. next = fleet.moving + 1
  <2>1. next <= fleet.moving + 1
    BY <1>1, <1>3 DEF ProgressInv
  <2> QED BY <1>1, <1>3, <2>1
<1>5. RestoredParkedUsed' <=> RestoredParkedUsed
  BY <1>2 DEF RestoredParkedUsed
<1>6. ASSUME ~RestoredParkedUsed
      PROVE  /\ Reaches(pack, seed, Arrangement', (next - 1) - fleet.moving)
             /\ \A v \in Vehicles : v >= next => assignment[v] = None
  <2>1. ASSUME NEW v \in Vehicles, v >= next PROVE assignment[v] = None
    <3>1. v \in Nat /\ v > fleet.moving
      BY <1>3, <1>4, <2>1, VehiclesAre
    <3>2. CASE v <= fleet.vehicles
      <4>1. v \in fleet.moving + 1 .. fleet.vehicles
        BY <1>3, <3>1, <3>2
      <4>2. restored[v] = None
        BY <1>6, <4>1 DEF RestoredParkedUsed
      <4> QED BY <1>1, <1>3, <3>1, <4>2 DEF RestoreInv
    <3>3. CASE ~(v <= fleet.vehicles)
      BY <1>3, <3>3 DEF RestoreInv
    <3> QED BY <3>2, <3>3
  <2>2. ASSUME NEW v \in Vehicles PROVE ~Parks(v)
    <3>1. v \in Nat
      BY VehiclesAre
    <3>2. CASE v >= next
      BY <2>1, <3>2 DEF Parks
    <3>3. CASE ~(v >= next)
      <4>1. v <= fleet.moving
        BY <1>3, <1>4, <3>1, <3>3
      <4> QED BY <1>3, <4>1 DEF RestoreInv, Parks
    <3> QED BY <3>2, <3>3
  <2>3. Arrangement' = Untouched(pack)
    BY <1>2, <2>2, ArrangementNone, ArrangementStays
  <2>4. (next - 1) - fleet.moving = 0
    BY <1>3, <1>4
  <2> QED BY <2>1, <2>3, <2>4, ReachesNone
<1>7. FreshInv'
  <2>1. next <= fleet.vehicles + 1
    BY <1>3, <1>4
  <2> QED BY <1>1, <1>2, <1>5, <1>6, <2>1 DEF FreshInv
<1>8. Accepts(pack, fleet)
  BY <1>1 DEF PromiseInv, CourseInv, AcceptedInv
<1> QED BY <1>1, <1>7, <1>8, CourseGoesTo

\* A stationary vehicle more is the next of the arrangement.
LEMMA PlaceParkedKeeps == ASSUME PromiseInv, PlaceParked, PlacementInv' PROVE PromiseInv'
<1> DEFINE a == NextAnchor(NextParkedRegion)
           p == TakeParkedPosition(a)
           x == Parked(a, p, TRUE)
<1>1. /\ pc = "parked" /\ next <= fleet.vehicles /\ assignment[next] = None /\ pc \in Phases
      /\ ParkedRegions # {}
  BY DEF PlaceParked, Unplaced, Phases
<1>2. /\ Typed /\ Running /\ fleet.vehicles \in Nat /\ fleet.moving \in Nat /\ next \in Nat
      /\ next \in Vehicles
  BY <1>1, RunningIs DEF PromiseInv
<1>3. a \in Anchors /\ FreePlaces(a) # {}
  BY <1>1, <1>2, AnchorFound
<1>4. p \in PlacesOf(a)
  BY <1>2, <1>3, PlaceFound
<1>5. /\ assignment' = [assignment EXCEPT ![next] = x] /\ next' = next + 1
      /\ Stays /\ pc' = pc /\ moved' = moved
  BY DEF PlaceParked, Assign, Stays
<1>6. a = AnchorIn(pack, seed, Arrangement) /\ RoomLeft(pack, Arrangement) # {}
  BY <1>1, ArrangementIs
<1>7. x \in Assigned /\ ~x.moving /\ x.anchor = a /\ x.place = p
  <2> HIDE DEF a, p
  <2>1. \A q \in PlacesOf(a) : /\ Parked(a, q, TRUE) \in Assigned /\ ~Parked(a, q, TRUE).moving
                               /\ Parked(a, q, TRUE).anchor = a /\ Parked(a, q, TRUE).place = q
    BY <1>3, NewParked
  <2> QED BY <1>4, <2>1
<1>8. x.exact = TRUE
  BY DEF Parked
<1>9. p = TakeParkedPosition(a)
  OBVIOUS
<1> HIDE DEF a, p, x
<1>10. Arrangement' = OneMore(pack, Arrangement, a)
  BY <1>1, <1>2, <1>3, <1>5, <1>7, <1>9, ArrangementMore
<1>11. Arrangement' = After(pack, seed, Arrangement)
  BY <1>6, <1>10 DEF After
<1>12. FreshInv'
  <2>1. FreshInv
    BY DEF PromiseInv, CourseInv
  <2>2. RestoredParkedUsed' <=> RestoredParkedUsed
    BY <1>5 DEF RestoredParkedUsed, Stays
  <2>3. ASSUME ~RestoredParkedUsed
        PROVE  /\ next + 1 > fleet.moving
               /\ Reaches(pack, seed, Arrangement', ((next + 1) - 1) - fleet.moving)
               /\ \A v \in Vehicles : v >= next + 1 => assignment'[v] = None
    <3> DEFINE k == (next - 1) - fleet.moving
    <3>1. /\ next > fleet.moving /\ Reaches(pack, seed, Arrangement, k)
          /\ \A v \in Vehicles : v >= next => assignment[v] = None
      BY <1>1, <2>1, <2>3 DEF FreshInv
    <3>2. k \in Nat /\ ((next + 1) - 1) - fleet.moving = k + 1
      BY <1>2, <3>1
    <3>3. Reaches(pack, seed, Arrangement', k + 1)
      <4> HIDE DEF k
      <4> QED BY <1>6, <1>11, <3>1, <3>2, ReachesMore
    <3>4. ASSUME NEW v \in Vehicles, v >= next + 1 PROVE assignment'[v] = None
      <4>1. v # next /\ v >= next
        BY <1>2, <3>4, VehiclesAre
      <4> QED BY <1>2, <1>5, <3>1, <4>1 DEF Typed
    <3>5. next + 1 > fleet.moving
      BY <1>2, <3>1
    <3> QED BY <3>2, <3>3, <3>4, <3>5
  <2>4. next + 1 <= fleet.vehicles + 1
    BY <1>1, <1>2
  <2> QED BY <1>1, <1>5, <2>2, <2>3, <2>4 DEF FreshInv, Stays
<1>13. ASSUME NEW u \in Vehicles, Parks(u)' PROVE assignment'[u].exact
  <2>1. assignment'[u] = assignment[u] \/ assignment'[u] = x
    BY <1>2, <1>5 DEF Typed
  <2> QED BY <1>2, <1>8, <1>13, <2>1 DEF PromiseInv, CourseInv, ExactInv, Parks
<1>14. mode = "start" /\ fleet = launched => moved' = {}
  BY <1>1, RepeatNeedsNone
<1>15. Accepts(pack, fleet)
  BY <1>1 DEF PromiseInv, CourseInv, AcceptedInv
<1> QED BY <1>1, <1>5, <1>12, <1>13, <1>14, <1>15, CourseStays

\* In a new arrangement no stationary vehicle is there before.
LEMMA ParkedThereKeeps == ASSUME PromiseInv, ParkedThere, PlacementInv' PROVE PromiseInv'
<1>1. /\ pc = "parked" /\ next <= fleet.vehicles /\ assignment[next] # None
      /\ GoTo("parked", next + 1) /\ pc \in Phases /\ "parked" \in Phases
  BY DEF ParkedThere, Phases
<1>2. next \in Vehicles /\ next \in Nat /\ fleet.vehicles \in Nat
  BY <1>1, RunningIs DEF PromiseInv
<1>3. FreshInv /\ Accepts(pack, fleet)
  BY <1>1 DEF PromiseInv, CourseInv, AcceptedInv
<1>4. RestoredParkedUsed
  <2>1. next >= next
    BY <1>2
  <2> QED BY <1>1, <1>2, <1>3, <2>1 DEF FreshInv
<1>5. FreshInv'
  <2>1. /\ pc' = "parked" /\ next' = next + 1 /\ fleet' = fleet /\ restored' = restored
    BY <1>1 DEF GoTo
  <2>2. RestoredParkedUsed'
    BY <1>4, <2>1 DEF RestoredParkedUsed
  <2>3. next + 1 <= fleet.vehicles + 1
    BY <1>1, <1>2
  <2> QED BY <2>1, <2>2, <2>3 DEF FreshInv
<1> QED BY <1>1, <1>3, <1>5, CourseGoesTo

\* The arrangement is complete.
LEMMA PlacedKeeps == ASSUME PromiseInv, Placed, PlacementInv' PROVE PromiseInv'
<1>1. /\ pc = "parked" /\ next > fleet.vehicles /\ GoTo("placed", next)
      /\ pc \in Phases /\ "placed" \in Phases
  BY DEF Placed, Phases
<1>2. FreshInv /\ Accepts(pack, fleet)
  BY <1>1 DEF PromiseInv, CourseInv, AcceptedInv
<1>3. /\ pc' = "placed" /\ next' = next
      /\ UNCHANGED <<pack, seed, fleet, restored, assignment>>
  BY <1>1 DEF GoTo
<1>4. FreshInv'
  <2>1. RestoredParkedUsed' <=> RestoredParkedUsed
    BY <1>3 DEF RestoredParkedUsed
  <2>2. Arrangement' = Arrangement
    BY <1>3, ArrangementStays
  <2> QED BY <1>1, <1>2, <1>3, <2>1, <2>2 DEF FreshInv
<1> QED BY <1>1, <1>2, <1>4, CourseGoesTo

\* The fleet that started last is not rearranged.
LEMMA RetryKeeps == ASSUME PromiseInv, Retry, PlacementInv' PROVE PromiseInv'
<1>1. /\ pc = "parked" /\ next <= fleet.vehicles /\ assignment[next] = None
      /\ Call(fleet, mode, MovingRestored, TRUE)
  BY DEF Retry, Unplaced
<1>2. mode = "start" => fleet # launched
  BY <1>1, RepeatNeedsNone
<1> QED BY <1>1, <1>2, CourseCalls

\* A coverage check that placed as many would have found this place.
LEMMA GiveUpKeeps == ASSUME PromiseInv, GiveUp, PlacementInv' PROVE PromiseInv'
<1>1. /\ pc = "parked" /\ next <= fleet.vehicles /\ assignment[next] = None
      /\ ParkedRegions = {} /\ ~(RestoredParkedUsed /\ ~retried) /\ Throw("parked")
      /\ pc \in Phases
  BY DEF GiveUp, Unplaced, Phases
<1>2. /\ CallInv /\ fleet.vehicles \in Nat /\ fleet.moving \in Nat /\ next \in Nat
      /\ fleet.vehicles \in Vehicles /\ pc # "idle"
  BY <1>1, RunningIs DEF PromiseInv
<1>3. mode = "start" => fleet # launched
  BY <1>1, RepeatNeedsNone
<1>4. ASSUME mode = "start" PROVE fleet.vehicles - fleet.moving > promised
  <2>1. ~RestoredParkedUsed
    <3> SUFFICES ASSUME RestoredParkedUsed PROVE FALSE
      OBVIOUS
    <3>1. retried
      BY <1>1
    <3>2. restored = [v \in Vehicles |-> IF v <= fleet.moving THEN saved[v] ELSE None]
      BY <1>2, <1>4, <3>1 DEF CallInv
    <3>3. PICK v \in fleet.moving + 1 .. fleet.vehicles : restored[v] # None
      BY DEF RestoredParkedUsed
    <3>4. v \in Vehicles /\ ~(v <= fleet.moving)
      BY <1>2, <3>3, VehiclesAre DEF Vehicles
    <3> QED BY <3>2, <3>3, <3>4
  <2> DEFINE k == (next - 1) - fleet.moving
  <2>2. next > fleet.moving /\ Reaches(pack, seed, Arrangement, k)
    BY <1>1, <2>1 DEF PromiseInv, CourseInv, FreshInv
  <2>3. promised \in Nat
    BY DEF PromiseInv, PlacementInv, TypeOK
  <2>4. RoomLeft(pack, Arrangement) = {}
    BY <1>1, ArrangementIs
  <2> SUFFICES ASSUME ~(fleet.vehicles - fleet.moving > promised) PROVE FALSE
    OBVIOUS
  <2>5. k \in Nat /\ k < promised
    BY <1>1, <1>2, <2>2, <2>3
  <2> HIDE DEF k
  <2>6. promised > 0
    BY <2>3, <2>5
  <2>7. PICK s : Reaches(pack, seed, s, promised)
    BY <2>6 DEF PromiseInv, PromisedInv
  <2> QED BY <2>2, <2>3, <2>4, <2>5, <2>7, RoomWasLeft
<1> QED BY <1>1, <1>3, <1>4, CourseThrows

\* After a call only the checkpoint, the fleet and the count matter.
LEMMA CourseEnds ==
    ASSUME PlacementInv', pc' = "idle", LaunchedInv', PromisedInv'
    PROVE  PromiseInv'
<1>1. RepeatInv' /\ ExactInv' /\ AcceptedInv' /\ FreshInv' /\ FailedInv'
  BY DEF RepeatInv, ExactInv, AcceptedInv, FreshInv, FailedInv, Running
<1> QED BY <1>1 DEF PromiseInv, CourseInv

\* What the coverage check counts it has placed.
LEMMA ReportKeeps == ASSUME PromiseInv, Report, PlacementInv' PROVE PromiseInv'
<1>1. /\ pc = "placed" /\ mode = "preflight" /\ pc' = "idle" /\ pc \in Phases
      /\ promised' = IF fleet.vehicles > promised THEN fleet.vehicles ELSE promised
      /\ UNCHANGED <<pack, seed, saved, launched>>
  BY DEF Report, Return, Phases
<1>2. /\ CallInv /\ fleet.vehicles \in Nat /\ fleet.vehicles \in Vehicles /\ next \in Nat
      /\ fleet.moving \in Nat
  BY <1>1, RunningIs DEF PromiseInv
<1>3. fleet = Stationary(fleet.vehicles) /\ restored = Nobody
  BY <1>1, <1>2 DEF CallInv
<1>4. fleet.moving = 0
  BY <1>3 DEF Stationary
<1>5. LaunchedInv'
  BY <1>1 DEF PromiseInv, LaunchedInv
<1>6. PromisedInv'
  <2>1. CASE fleet.vehicles > promised
    <3>1. ~RestoredParkedUsed
      <4> SUFFICES ASSUME NEW v \in fleet.moving + 1 .. fleet.vehicles PROVE restored[v] = None
        BY DEF RestoredParkedUsed
      <4>1. v \in Vehicles
        BY <1>2, VehiclesAre DEF Vehicles
      <4> QED BY <1>3, <4>1 DEF Nobody
    <3>2. /\ next <= fleet.vehicles + 1 /\ next > fleet.vehicles
          /\ Reaches(pack, seed, Arrangement, (next - 1) - fleet.moving)
      BY <1>1, <3>1 DEF PromiseInv, CourseInv, FreshInv
    <3>3. (next - 1) - fleet.moving = fleet.vehicles
      BY <1>2, <1>4, <3>2
    <3>4. fleet.vehicles > fleet.moving
      BY <1>2, <1>4, VehiclesAre
    <3>5. \A g \in DOMAIN pack.weight : AnchoredIn(pack, g)
      BY <1>1, <3>4 DEF PromiseInv, CourseInv, AcceptedInv, Accepts
    <3>6. promised' = fleet.vehicles
      BY <1>1, <2>1
    <3> QED BY <1>1, <3>2, <3>3, <3>5, <3>6 DEF PromisedInv
  <2>2. CASE ~(fleet.vehicles > promised)
    BY <1>1, <2>2 DEF PromiseInv, PromisedInv
  <2> QED BY <2>1, <2>2
<1> QED BY <1>1, <1>5, <1>6, CourseEnds

\* What a start saves suits its fleet.
LEMMA LaunchKeeps == ASSUME PromiseInv, Launch, PlacementInv' PROVE PromiseInv'
<1>1. /\ pc = "placed" /\ mode = "start" /\ saved' = assignment /\ launched' = fleet
      /\ pc' = "idle" /\ UNCHANGED <<pack, seed, promised>> /\ pc \in Phases
  BY DEF Launch, Return, Phases
<1>2. Typed /\ Running /\ fleet.vehicles \in Nat
  BY <1>1, RunningIs DEF PromiseInv
<1>3. ExactlyTheFleet /\ StandApart /\ WithinCapacity
  BY <1>1, PlacementIsSound DEF PromiseInv, PlacementSound
<1>4. Suits(pack, fleet, assignment)
  <2>1. ASSUME NEW r \in DOMAIN pack.routes
        PROVE  Cardinality({v \in Vehicles : assignment[v] # None /\ assignment[v].moving
                                             /\ assignment[v].route = r})
                 <= CapacityOf(pack, fleet, r)
    <3>1. Occupancy(r) <= Capacity(r)
      BY <1>3, <2>1 DEF WithinCapacity, Routes
    <3> QED BY <3>1, ChecksAre DEF Occupancy, MoversOn
  <2>2. ASSUME NEW v \in Vehicles
        PROVE  /\ v > fleet.vehicles => assignment[v] = None
               /\ v <= fleet.vehicles => assignment[v] # None /\ assignment[v].moving = (v <= fleet.moving)
               /\ Stands(assignment, v) => assignment[v].exact
    <3>1. v <= fleet.vehicles => ~(v > fleet.vehicles)
      BY <1>2, VehiclesAre
    <3>2. Stands(assignment, v) => assignment[v].exact
      BY <1>2 DEF PromiseInv, CourseInv, ExactInv, Stands, Parks
    <3> QED BY <1>3, <3>1, <3>2 DEF ExactlyTheFleet
  <2>3. ASSUME NEW v \in Vehicles, NEW w \in Vehicles, v # w,
               Stands(assignment, v), Stands(assignment, w)
        PROVE  ~(assignment[v].place = assignment[w].place
                 \/ {assignment[v].place, assignment[w].place} \in pack.near)
    <3>1. Parks(v) /\ Parks(w)
      BY <2>3 DEF Stands, Parks
    <3>2. ~Near(assignment[v].place, assignment[w].place)
      BY <1>2, <1>3, <2>3, <3>1, ReservedIs
    <3> QED BY <3>2 DEF Near
  <2> QED BY <2>1, <2>2, <2>3 DEF Suits
<1>5. Accepts(pack, fleet)
  BY <1>1 DEF PromiseInv, CourseInv, AcceptedInv
<1>6. LaunchedInv'
  BY <1>1, <1>4, <1>5 DEF LaunchedInv
<1>7. PromisedInv'
  BY <1>1 DEF PromiseInv, PromisedInv
<1> QED BY <1>1, <1>6, <1>7, CourseEnds

\* A call that threw leaves everything that lasts.
LEMMA RefuseKeeps == ASSUME PromiseInv, Refuse, PlacementInv' PROVE PromiseInv'
<1>1. pc' = "idle" /\ UNCHANGED <<pack, seed, saved, launched, promised>>
  BY DEF Refuse, Return
<1> QED BY <1>1, LastingStays, CourseEnds DEF PromiseInv

\* Wherever the moving vehicles drive, the checkpoint suits the fleet.
LEMMA DriveKeeps ==
    ASSUME PromiseInv, NEW v \in Vehicles, Drive(v), PlacementInv'
    PROVE  PromiseInv'
<1>1. pc' = "idle" /\ UNCHANGED <<pack, seed, launched, promised>>
  BY DEF Drive
<1>2. /\ saved[v] # None /\ saved[v].moving
      /\ saved'[v] # None /\ saved'[v].moving /\ saved'[v].moving = saved[v].moving
      /\ saved'[v].route = saved[v].route
      /\ \A u \in Vehicles : u # v => saved'[u] = saved[u]
  BY Driven DEF PromiseInv
<1>3. ASSUME NEW f, Suits(pack, f, saved) PROVE Suits(pack, f, saved')
  <2>1. \A r : {u \in Vehicles : saved'[u] # None /\ saved'[u].moving /\ saved'[u].route = r}
             = {u \in Vehicles : saved[u] # None /\ saved[u].moving /\ saved[u].route = r}
    BY <1>2
  <2>2. \A u \in Vehicles : /\ saved'[u] = None <=> saved[u] = None
                            /\ saved'[u].moving = saved[u].moving
                            /\ Stands(saved', u) => Stands(saved, u) /\ saved'[u] = saved[u]
    BY <1>2 DEF Stands
  <2> QED BY <1>3, <2>1, <2>2 DEF Suits
<1>4. LaunchedInv'
  BY <1>1, <1>3 DEF PromiseInv, LaunchedInv
<1>5. PromisedInv'
  BY <1>1 DEF PromiseInv, PromisedInv
<1> QED BY <1>1, <1>4, <1>5, CourseEnds

\* Nothing has started and nothing is counted.
LEMMA PromiseInit == ASSUME Init PROVE PromiseInv
<1>1. PlacementInv
  BY InitHolds
<1>2. pc = "idle" /\ launched = None /\ promised = 0
  BY DEF Init
<1>3. LaunchedInv /\ PromisedInv
  BY <1>2 DEF LaunchedInv, PromisedInv
<1>4. RepeatInv /\ ExactInv /\ AcceptedInv /\ FreshInv /\ FailedInv
  BY <1>2 DEF RepeatInv, ExactInv, AcceptedInv, FreshInv, FailedInv, Running
<1> QED BY <1>1, <1>3, <1>4 DEF PromiseInv, CourseInv

\* Every step keeps it.
LEMMA PromiseStep == ASSUME PromiseInv, Next PROVE PromiseInv'
<1>1. PlacementInv'
  BY StepHolds DEF PromiseInv
<1>2. ASSUME NEW n \in Vehicles, Preflight(n) PROVE PromiseInv'
  <2>1. Call(Stationary(n), "preflight", Nobody, FALSE)
    BY <1>2 DEF Preflight
  <2> QED BY <1>1, <2>1, CourseCalls
<1>3. ASSUME NEW f \in Fleets, Start(f) PROVE PromiseInv'
  <2>1. Call(f, "start", saved, FALSE)
    BY <1>3 DEF Start
  <2> QED BY <1>1, <2>1, CourseCalls
<1>4. CASE Restore \/ NothingSaved \/ AllRestored \/ Relocate \/ AllRelocated \/ Check
  BY <1>1, <1>4, RestoreKeeps, EarlyKeeps, RelocateKeeps, CheckKeeps
<1>5. CASE PlaceMoving \/ MovingThere \/ AllMoving \/ PlaceParked \/ ParkedThere
  BY <1>1, <1>5, PlaceMovingKeeps, MovingThereKeeps, AllMovingKeeps, PlaceParkedKeeps, ParkedThereKeeps
<1>6. CASE Retry \/ GiveUp \/ Placed \/ Report \/ Launch \/ Refuse
  BY <1>1, <1>6, RetryKeeps, GiveUpKeeps, PlacedKeeps, ReportKeeps, LaunchKeeps, RefuseKeeps
<1>7. CASE \E v \in Vehicles : Drive(v)
  BY <1>1, <1>7, DriveKeeps
<1> QED BY <1>2, <1>3, <1>4, <1>5, <1>6, <1>7 DEF Next

\* A step that changes nothing keeps it too.
LEMMA PromiseStutter == ASSUME PromiseInv, UNCHANGED vars PROVE PromiseInv'
<1>1. PlacementInv'
  BY StutterHolds DEF PromiseInv
<1>2. /\ UNCHANGED <<pack, seed, saved, fleet, mode, pc, restored, retried, next>>
      /\ UNCHANGED <<moved, assignment, failure, launched, promised>>
  BY DEF vars
<1>3. LaunchedInv' /\ PromisedInv'
  BY <1>2, LastingStays DEF PromiseInv
<1>4. RepeatInv' /\ ExactInv' /\ AcceptedInv' /\ FailedInv'
  BY <1>2 DEF PromiseInv, CourseInv, RepeatInv, ExactInv, AcceptedInv, FailedInv, Running, Parks
<1>5. FreshInv'
  <2>1. RestoredParkedUsed' <=> RestoredParkedUsed
    BY <1>2 DEF RestoredParkedUsed
  <2>2. Arrangement' = Arrangement
    BY <1>2, ArrangementStays
  <2> QED BY <1>2, <2>1, <2>2 DEF PromiseInv, CourseInv, FreshInv
<1> QED BY <1>1, <1>3, <1>4, <1>5 DEF PromiseInv, CourseInv

\* A start is never refused to the fleet that started last, wherever it has driven
\* since, nor for want of stationary positions when the coverage check counted
\* enough of them, whatever the checkpoint holds.
THEOREM StartsKeepTheirPromise == Spec => []StartKeepsPromise
<1>1. Init => PromiseInv
  BY PromiseInit
<1>2. PromiseInv /\ [Next]_vars => PromiseInv'
  BY PromiseStep, PromiseStutter
<1>3. PromiseInv => StartKeepsPromise
  BY DEF PromiseInv, CourseInv, RepeatInv, FailedInv, StartKeepsPromise
<1> QED BY <1>1, <1>2, <1>3, PTL DEF Spec
=============================================================================
