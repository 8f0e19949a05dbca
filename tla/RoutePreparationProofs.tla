----------------------- MODULE RoutePreparationProofs -----------------------
(***************************************************************************)
(* What RoutePreparation keeps for any regions, limits and budgets.        *)
(*                                                                         *)
(* Count adds up the routes of a catalogue, and most of the guards of      *)
(* prepare() compare such sums; the first part shows by induction over the *)
(* candidates what the proofs need of them.  The second says what each     *)
(* piece of prepare() does to the fields of a job.  Good is about a job    *)
(* alone, where it may be and what it then holds, and gives the types.     *)
(* Fine relates a job to the packs, JournalOf to the job state on disk,    *)
(* GraphOf to the router, and Honest a result to the packs: together they  *)
(* are RouteInv, from which the four other theorems follow.                *)
(***************************************************************************)
EXTENDS RoutePreparation, FiniteSetTheorems, WellFoundedInduction, TLAPS

-----------------------------------------------------------------------------
(* Counting routes                                                         *)

\* A set of natural numbers has a least element: the form of induction that can
\* be used here, the library's induction theorems having an operator as parameter.
LEMMA Least ==
  ASSUME NEW T, T \subseteq Nat, T # {}
  PROVE \E x \in T : \A y \in T : x <= y
<1> DEFINE R == OpToRel(<, Nat)
<1>1. IsWellFoundedOn(R, Nat)
  BY NatLessThanWellFounded
<1>2. \A x, y \in Nat : <<y, x>> \in R <=> y < x
  BY DEF OpToRel
<1> HIDE DEF R
<1>3. PICK x \in T : \A y \in T : ~(<<y, x>> \in R)
  BY <1>1, WFMin
<1>4. ASSUME NEW y \in T PROVE x <= y
  <2>1. x \in Nat /\ y \in Nat
    OBVIOUS
  <2>2. ~(y < x)
    BY <1>2, <1>3, <2>1
  <2> QED
    BY <2>1, <2>2
<1> QED
  BY <1>4

\* The element a sum takes next, the equation of a sum, and the function of all
\* partial sums, as in FoldFunction.
Some(s) == CHOOSE x \in s : TRUE
IsSum(it, k, s) == it[s] = IF s = {} THEN 0 ELSE k[Some(s)] + it[s \ {Some(s)}]
Partial(k) ==
    CHOOSE it : it = [s \in SUBSET DOMAIN k |->
                        IF s = {} THEN 0 ELSE k[Some(s)] + it[s \ {Some(s)}]]

\* A set of candidates without the one that is chosen next.
LEMMA Smaller ==
  ASSUME NEW D, IsFiniteSet(D), NEW s \in SUBSET D, s # {}
  PROVE /\ Some(s) \in s /\ s \ {Some(s)} \in SUBSET D
        /\ Cardinality(s) \in Nat /\ Cardinality(s) >= 1
        /\ Cardinality(s \ {Some(s)}) = Cardinality(s) - 1
<1>1. IsFiniteSet(s)
  BY FS_Subset
<1>2. Some(s) \in s
  BY DEF Some
<1>3. Cardinality(s \ {Some(s)}) = Cardinality(s) - 1
  BY <1>1, <1>2, FS_RemoveElement
<1>4. Cardinality(s) \in Nat /\ Cardinality(s) # 0
  BY <1>1, FS_CardinalityType, FS_EmptySet
<1> QED
  BY <1>2, <1>3, <1>4

\* What holds of no element, and of a set when it does without the chosen one,
\* holds of every subset of a finite set.
LEMMA SubsetsByOne ==
  ASSUME NEW D, IsFiniteSet(D), NEW G, {} \in G,
         \A s \in SUBSET D : s # {} /\ s \ {Some(s)} \in G => s \in G
  PROVE  SUBSET D \subseteq G
<1> SUFFICES ASSUME NEW b \in SUBSET D, b \notin G PROVE FALSE
  OBVIOUS
<1> DEFINE T == {n \in Nat : \E s \in SUBSET D : s \notin G /\ Cardinality(s) = n}
<1>1. Cardinality(b) \in T
  BY FS_Subset, FS_CardinalityType
<1>2. PICK n \in T : \A m \in T : n <= m
  <2> HIDE DEF T
  <2>1. T # {}
    BY <1>1
  <2>2. T \subseteq Nat
    BY DEF T
  <2> QED
    BY <2>1, <2>2, Least
<1>3. PICK s \in SUBSET D : s \notin G /\ Cardinality(s) = n
  BY <1>2
<1>4. s # {}
  BY <1>3
<1>5. s \ {Some(s)} \in SUBSET D /\ s \ {Some(s)} \notin G
  BY <1>3, <1>4
<1>6. Cardinality(s \ {Some(s)}) = n - 1 /\ n \in Nat /\ n >= 1
  BY <1>3, <1>4, Smaller
<1>7. n - 1 \in T
  BY <1>5, <1>6
<1> QED
  BY <1>2, <1>6, <1>7

\* Sums of the subsets of at most n elements can be written down.
LEMMA SumUpTo ==
  ASSUME NEW D, IsFiniteSet(D), NEW k \in [D -> Nat], NEW n \in Nat
  PROVE  \E it \in [SUBSET D -> Nat] :
            \A s \in SUBSET D : Cardinality(s) <= n => IsSum(it, k, s)
<1> DEFINE P(m) == \E it \in [SUBSET D -> Nat] :
                      \A s \in SUBSET D : Cardinality(s) <= m => IsSum(it, k, s)
           T == {m \in Nat : ~P(m)}
<1> SUFFICES ASSUME n \in T PROVE FALSE
  OBVIOUS
<1>1. PICK m \in T : \A l \in T : m <= l
  <2> HIDE DEF T
  <2>2. T \subseteq Nat
    BY DEF T
  <2> QED
    BY <2>2, Least
<1>2. m \in Nat /\ ~P(m)
  BY <1>1
<1>3. m # 0
  <2> SUFFICES ASSUME m = 0 PROVE FALSE
    OBVIOUS
  <2> DEFINE it == [s \in SUBSET D |-> 0]
  <2>1. ASSUME NEW s \in SUBSET D, Cardinality(s) <= 0 PROVE s = {}
    <3>1. s # {} => Cardinality(s) \in Nat /\ Cardinality(s) >= 1
      BY Smaller
    <3> QED
      BY <2>1, <3>1
  <2>2. \A s \in SUBSET D : Cardinality(s) <= m => IsSum(it, k, s)
    BY <2>1 DEF IsSum
  <2>3. it \in [SUBSET D -> Nat]
    OBVIOUS
  <2> QED
    BY <1>2, <2>2, <2>3
<1>4. P(m - 1)
  <2>1. m - 1 \in Nat /\ ~(m <= m - 1)
    BY <1>2, <1>3
  <2>2. m - 1 \notin T
    <3> HIDE DEF T
    <3> QED
      BY <1>1, <2>1
  <2> HIDE DEF P
  <2> QED
    BY <2>1, <2>2
<1> HIDE DEF T
<1>5. PICK it \in [SUBSET D -> Nat] :
        \A s \in SUBSET D : Cardinality(s) <= m - 1 => IsSum(it, k, s)
  BY <1>4
<1> DEFINE up == [s \in SUBSET D |-> IF s = {} THEN 0 ELSE k[Some(s)] + it[s \ {Some(s)}]]
<1>6. up \in [SUBSET D -> Nat]
  <2>1. \A s \in SUBSET D : s # {} => k[Some(s)] \in Nat /\ it[s \ {Some(s)}] \in Nat
    BY Smaller
  <2> QED
    BY <2>1
<1>7. \A s \in SUBSET D : Cardinality(s) <= m - 1 => up[s] = it[s]
  BY <1>5 DEF IsSum
<1>8. ASSUME NEW s \in SUBSET D, Cardinality(s) <= m
      PROVE  IsSum(up, k, s)
  <2>1. CASE s = {}
    BY <2>1 DEF IsSum
  <2>2. CASE s # {}
    <3>1. s \ {Some(s)} \in SUBSET D /\ Cardinality(s \ {Some(s)}) <= m - 1
      BY <1>2, <1>8, <2>2, Smaller
    <3>2. up[s \ {Some(s)}] = it[s \ {Some(s)}]
      BY <1>7, <3>1
    <3>3. up[s] = k[Some(s)] + it[s \ {Some(s)}]
      BY <2>2
    <3> HIDE DEF up
    <3> QED
      BY <2>2, <3>2, <3>3 DEF IsSum
  <2> QED
    BY <2>1, <2>2
<1> QED
  BY <1>2, <1>6, <1>8

\* The function by which FoldFunction adds up exists, and is the sum.
LEMMA PartialSums ==
  ASSUME NEW D, IsFiniteSet(D), NEW k \in [D -> Nat]
  PROVE  /\ Partial(k) \in [SUBSET D -> Nat]
         /\ \A s \in SUBSET D : IsSum(Partial(k), k, s)
<1>1. Cardinality(D) \in Nat
  BY FS_CardinalityType
<1>2. \A s \in SUBSET D : Cardinality(s) <= Cardinality(D)
  BY FS_Subset
<1>3. PICK it \in [SUBSET D -> Nat] : \A s \in SUBSET D : IsSum(it, k, s)
  <2>1. PICK it \in [SUBSET D -> Nat] :
          \A s \in SUBSET D : Cardinality(s) <= Cardinality(D) => IsSum(it, k, s)
    <3>1. \A n \in Nat : \E it \in [SUBSET D -> Nat] :
             \A s \in SUBSET D : Cardinality(s) <= n => IsSum(it, k, s)
      BY SumUpTo, ZenonT(60)
    <3> QED
      BY <1>1, <3>1
  <2> QED
    BY <1>2, <2>1
<1>4. it = [s \in SUBSET D |-> IF s = {} THEN 0 ELSE k[Some(s)] + it[s \ {Some(s)}]]
  BY <1>3 DEF IsSum
<1>5. DOMAIN k = D
  OBVIOUS
<1>6. Partial(k) = [s \in SUBSET D |-> IF s = {} THEN 0 ELSE k[Some(s)] + Partial(k)[s \ {Some(s)}]]
  BY <1>4, <1>5 DEF Partial
<1> DEFINE p == Partial(k)
<1>7. \A s \in SUBSET D : IsSum(p, k, s)
  BY <1>6 DEF IsSum
<1> HIDE DEF p
<1>8. {s \in SUBSET D : p[s] \in Nat} = SUBSET D
  <2> DEFINE G == {s \in SUBSET D : p[s] \in Nat}
  <2>1. {} \in G
    <3>1. {} \in SUBSET D /\ IsSum(p, k, {})
      BY <1>7
    <3>2. p[{}] = 0
      BY <3>1 DEF IsSum
    <3> QED
      BY <3>1, <3>2
  <2>2. ASSUME NEW s \in SUBSET D, s # {}, s \ {Some(s)} \in G PROVE s \in G
    <3>1. Some(s) \in D
      BY <2>2, Smaller
    <3>2. k[Some(s)] \in Nat
      BY <3>1
    <3>3. IsSum(p, k, s)
      BY <1>7
    <3>4. p[s] = k[Some(s)] + p[s \ {Some(s)}]
      BY <2>2, <3>3 DEF IsSum
    <3> QED
      BY <2>2, <3>2, <3>4
  <2> HIDE DEF G
  <2>3. SUBSET D \subseteq G
    BY <2>1, <2>2, SubsetsByOne
  <2> QED
    BY <2>3 DEF G
<1>9. p = [s \in SUBSET D |-> p[s]]
  BY <1>6 DEF p
<1>10. p \in [SUBSET D -> Nat]
  BY <1>8, <1>9
<1> QED
  BY <1>7, <1>10 DEF p

\* Count adds up all values of a function.
LEMMA CountIsSum ==
  ASSUME NEW k
  PROVE Count(k) = Partial(k)[DOMAIN k]
BY DEF Count, FoldFunction, FoldFunctionOnSet, MapThenFoldSet, Partial, Some
\* A sum of natural numbers is one.
LEMMA Sums ==
  ASSUME NEW D, IsFiniteSet(D), NEW k \in [D -> Nat]
  PROVE  Count(k) \in Nat
<1>1. DOMAIN k = D /\ D \in SUBSET D
  OBVIOUS
<1>2. Partial(k) \in [SUBSET D -> Nat]
  BY PartialSums
<1>3. Partial(k)[D] \in Nat
  BY <1>1, <1>2
<1> QED
  BY <1>1, <1>3, CountIsSum

\* The sum of larger values is larger.
LEMMA SumsGrow ==
  ASSUME NEW D, IsFiniteSet(D), NEW k \in [D -> Nat], NEW m \in [D -> Nat],
         \A c \in D : k[c] <= m[c]
  PROVE  Count(k) <= Count(m)
<1> DEFINE G == {s \in SUBSET D : Partial(k)[s] <= Partial(m)[s]}
<1>1. {} \in G
  <2>1. IsSum(Partial(k), k, {}) /\ IsSum(Partial(m), m, {})
    BY PartialSums
  <2> QED
    BY <2>1 DEF IsSum
<1>2. ASSUME NEW s \in SUBSET D, s # {}, s \ {Some(s)} \in G PROVE s \in G
  <2>1. IsSum(Partial(k), k, s) /\ IsSum(Partial(m), m, s)
    BY PartialSums
  <2>2. Some(s) \in D /\ s \ {Some(s)} \in SUBSET D
    BY <1>2, Smaller
  <2>3. /\ k[Some(s)] \in Nat /\ m[Some(s)] \in Nat /\ k[Some(s)] <= m[Some(s)]
        /\ Partial(k)[s \ {Some(s)}] \in Nat /\ Partial(m)[s \ {Some(s)}] \in Nat
    <3>1. Partial(k) \in [SUBSET D -> Nat] /\ Partial(m) \in [SUBSET D -> Nat]
      BY PartialSums
    <3> QED
      BY <2>2, <3>1
  <2>4. Partial(k)[s] = k[Some(s)] + Partial(k)[s \ {Some(s)}]
    BY <1>2, <2>1 DEF IsSum
  <2>5. Partial(m)[s] = m[Some(s)] + Partial(m)[s \ {Some(s)}]
    BY <1>2, <2>1 DEF IsSum
  <2>6. Partial(k)[s \ {Some(s)}] <= Partial(m)[s \ {Some(s)}]
    BY <1>2
  <2>7. Partial(k)[s] <= Partial(m)[s]
    BY <2>3, <2>4, <2>5, <2>6
  <2> QED
    BY <2>7
<1> HIDE DEF G
<1>3. D \in G
  BY <1>1, <1>2, SubsetsByOne
<1>4. Partial(k)[D] <= Partial(m)[D]
  BY <1>3 DEF G
<1>5. DOMAIN k = D /\ DOMAIN m = D
  OBVIOUS
<1> QED
  BY <1>4, <1>5, CountIsSum

\* Adding to one value adds to the sum.
LEMMA SumsAdd ==
  ASSUME NEW D, IsFiniteSet(D), NEW k \in [D -> Nat], NEW m \in [D -> Nat],
         NEW c \in D, NEW n \in Nat, m[c] = k[c] + n,
         \A d \in D \ {c} : m[d] = k[d]
  PROVE  Count(m) = Count(k) + n
<1> DEFINE Share(s) == IF c \in s THEN n ELSE 0
           G == {s \in SUBSET D : Partial(m)[s] = Partial(k)[s] + Share(s)}
<1>1. {} \in G
  <2>1. IsSum(Partial(k), k, {}) /\ IsSum(Partial(m), m, {})
    BY PartialSums
  <2> QED
    BY <2>1 DEF IsSum
<1>2. ASSUME NEW s \in SUBSET D, s # {}, s \ {Some(s)} \in G PROVE s \in G
  <2>1. IsSum(Partial(k), k, s) /\ IsSum(Partial(m), m, s)
    BY PartialSums
  <2>2. Some(s) \in s /\ Some(s) \in D /\ s \ {Some(s)} \in SUBSET D
    BY <1>2, Smaller
  <2>3. /\ k[Some(s)] \in Nat /\ m[Some(s)] \in Nat
        /\ Partial(k)[s \ {Some(s)}] \in Nat /\ Partial(m)[s \ {Some(s)}] \in Nat
    <3>1. Partial(k) \in [SUBSET D -> Nat] /\ Partial(m) \in [SUBSET D -> Nat]
      BY PartialSums
    <3> QED
      BY <2>2, <3>1
  <2>4. Partial(k)[s] = k[Some(s)] + Partial(k)[s \ {Some(s)}]
    BY <1>2, <2>1 DEF IsSum
  <2>5. Partial(m)[s] = m[Some(s)] + Partial(m)[s \ {Some(s)}]
    BY <1>2, <2>1 DEF IsSum
  <2>6. Partial(m)[s \ {Some(s)}] = Partial(k)[s \ {Some(s)}] + Share(s \ {Some(s)})
    BY <1>2
  <2>7. Partial(m)[s] = Partial(k)[s] + Share(s)
    <3>1. CASE Some(s) = c
      <4>1. Share(s) = n /\ Share(s \ {Some(s)}) = 0 /\ m[Some(s)] = k[Some(s)] + n
        BY <2>2, <3>1
      <4> HIDE DEF Share
      <4> QED
        BY <2>3, <2>4, <2>5, <2>6, <4>1
    <3>2. CASE Some(s) # c
      <4>1. Share(s) = Share(s \ {Some(s)}) /\ Share(s) \in Nat /\ m[Some(s)] = k[Some(s)]
        BY <2>2, <3>2
      <4> HIDE DEF Share
      <4> QED
        BY <2>3, <2>4, <2>5, <2>6, <4>1
    <3> QED
      BY <3>1, <3>2
  <2> HIDE DEF Share
  <2> QED
    BY <2>7
<1> HIDE DEF G
<1>3. D \in G
  BY <1>1, <1>2, SubsetsByOne
<1>4. Partial(m)[D] = Partial(k)[D] + n
  BY <1>3 DEF G
<1>5. DOMAIN k = D /\ DOMAIN m = D
  OBVIOUS
<1> QED
  BY <1>4, <1>5, CountIsSum

\* The candidates are finitely many, so that routes can be counted.
LEMMA FinitelyMany ==
    IsFiniteSet(Candidates)
<1>1. IsFiniteSet(0 .. MaxRounds - 1)
  BY CountsAssumption, FS_Interval
<1> QED
  BY <1>1, RegionsAssumption, FS_Product DEF Candidates

\* The number of the routes of a catalogue.
LEMMA Counts ==
    /\ \A k \in Catalogue : Count(k) \in Nat
    /\ \A k, m \in Catalogue : (\A c \in Candidates : k[c] <= m[c]) => Count(k) <= Count(m)
    /\ \A k, m \in Catalogue : \A c \in Candidates : \A n \in Nat :
         m[c] = k[c] + n /\ (\A d \in Candidates \ {c} : m[d] = k[d]) => Count(m) = Count(k) + n
<1>1. \A k \in Catalogue : k \in [Candidates -> Nat]
  BY CountsAssumption DEF Catalogue
<1>2. \A k \in Catalogue : Count(k) \in Nat
  BY <1>1, FinitelyMany, Sums
<1>3. ASSUME NEW k \in Catalogue, NEW m \in Catalogue, \A c \in Candidates : k[c] <= m[c]
      PROVE  Count(k) <= Count(m)
  BY <1>1, <1>3, FinitelyMany, SumsGrow
<1>4. ASSUME NEW k \in Catalogue, NEW m \in Catalogue, NEW c \in Candidates, NEW n \in Nat,
             m[c] = k[c] + n, \A d \in Candidates \ {c} : m[d] = k[d]
      PROVE  Count(m) = Count(k) + n
  BY <1>1, <1>4, FinitelyMany, SumsAdd
<1> QED
  BY <1>2, <1>3, <1>4
-----------------------------------------------------------------------------
(* The fields of a job                                                     *)

Stages == {"idle", "loop", "fetch", "trace", "flush", "journal", "advance",
           "reject", "close", "done"}
Afters == {"request", "advance", "evaluate", "finish"}
SomeCandidates == SUBSET Candidates
OneOrNone == Candidates \cup {None}
Gains == 0 .. RoundsNoGain

\* The record of an action, the sets of its values by name.
LEMMA JobIs ==
    Job = [at : Stages, after : Afters, status : Status, aborted : BOOLEAN,
           scope : Scope, budget : Nat, milestone : BOOLEAN,
           kept : Catalogue, changed : BOOLEAN, covered : BOOLEAN, stale : BOOLEAN,
           attempted : SomeCandidates, accepted : SomeCandidates,
           unsaved : Nat, rejected : Nat, round : Nat, ahead : SomeCandidates,
           empty : Nat, noGain : Gains, without : Nat, gained : BOOLEAN,
           tried : BOOLEAN, candidate : OneOrNone, call : Nat,
           attempts : Nat, routedOn : Scope]
  BY DEF Job, Stages, Afters, SomeCandidates, OneOrNone, Gains

\* The words that the operators write.
LEMMA Words ==
    /\ {"idle", "loop", "fetch", "trace", "flush", "journal", "advance",
        "reject", "close", "done"} \subseteq Stages
    /\ {"request", "advance", "evaluate", "finish"} \subseteq Afters
    /\ {"incomplete", "ready", "usable", "search-stalled", "candidates-exhausted",
        "canceled", "request-limit", "blocked", "graph-changed", "geometry-limit"} \subseteq Status
    /\ Public \in Scope /\ None \in OneOrNone /\ {} \in SomeCandidates /\ 0 \in Gains
    /\ RoundsNoGain \in Nat /\ RoundsNoGain >= 1 /\ MaxGraph \in Nat /\ MaxGraph >= 1
  BY CountsAssumption DEF Stages, Afters, Status, Scope, Public, OneOrNone, SomeCandidates, Gains

\* What each field of a job may hold.
LEMMA JobFields ==
    ASSUME NEW j \in Job
    PROVE  /\ j.at \in Stages /\ j.after \in Afters /\ j.status \in Status
           /\ j.aborted \in BOOLEAN /\ j.milestone \in BOOLEAN /\ j.changed \in BOOLEAN
           /\ j.covered \in BOOLEAN /\ j.stale \in BOOLEAN
           /\ j.gained \in BOOLEAN /\ j.tried \in BOOLEAN
           /\ j.scope \in Scope /\ j.routedOn \in Scope /\ j.kept \in Catalogue
           /\ j.attempted \in SUBSET Candidates /\ j.accepted \in SUBSET Candidates
           /\ j.ahead \in SUBSET Candidates /\ j.candidate \in Candidates \cup {None}
           /\ j.budget \in Nat /\ j.unsaved \in Nat /\ j.rejected \in Nat /\ j.round \in Nat
           /\ j.empty \in Nat /\ j.without \in Nat /\ j.call \in Nat /\ j.attempts \in Nat
           /\ j.noGain \in 0 .. RoundsNoGain
  BY JobIs DEF SomeCandidates, OneOrNone, Gains

\* What an operator may leave as it is, in three groups.
SameRoutes(j, k) ==
    /\ k.scope = j.scope /\ k.budget = j.budget /\ k.milestone = j.milestone
    /\ k.kept = j.kept /\ k.attempted = j.attempted /\ k.accepted = j.accepted
    /\ k.unsaved = j.unsaved /\ k.round = j.round
SameCover(j, k) ==
    k.changed = j.changed /\ k.covered = j.covered /\ k.stale = j.stale
SameCount(j, k) == k.attempts = j.attempts /\ k.without = j.without
Same(j, k) == SameRoutes(j, k) /\ SameCover(j, k) /\ SameCount(j, k)

\* Leaving the loop to save what is in memory.
LEMMA FlushIs ==
    ASSUME NEW j \in Job, NEW after \in Afters, NEW k, k = Flush(j, after)
    PROVE  /\ k \in Job /\ Same(j, k)
           /\ k.at = "flush" /\ k.after = after /\ k.candidate = None
           /\ k.status = j.status /\ k.ahead = j.ahead
<1>1. k \in Job
  BY JobIs, Words DEF Flush, Settled
<1>2. Same(j, k)
  BY JobIs DEF Flush, Settled, Same, SameRoutes, SameCover, SameCount
<1>3. /\ k.at = "flush" /\ k.after = after /\ k.candidate = None
      /\ k.status = j.status /\ k.ahead = j.ahead
  BY JobIs DEF Flush, Settled
<1> QED
  BY <1>1, <1>2, <1>3

\* Leaving the loop for good.
LEMMA FinishIs ==
    ASSUME NEW j \in Job, NEW status \in Status, NEW k, k = Finish(j, status)
    PROVE  /\ k \in Job /\ Same(j, k)
           /\ k.at = "flush" /\ k.after = "finish" /\ k.candidate = None
           /\ k.status = status /\ k.ahead = {}
<1> DEFINE i == [j EXCEPT !.status = status, !.ahead = {}, !.empty = 0, !.tried = FALSE]
<1>1. i \in Job /\ i.status = status /\ i.ahead = {}
  BY JobIs, Words
<1>2. Same(j, i)
  BY JobIs DEF Same, SameRoutes, SameCover, SameCount
<1>3. k = Flush(i, "finish")
  BY DEF Finish
<1> HIDE DEF i
<1>4. /\ k \in Job /\ Same(i, k)
      /\ k.at = "flush" /\ k.after = "finish" /\ k.candidate = None
      /\ k.status = i.status /\ k.ahead = i.ahead
  <2>1. "finish" \in Afters
    BY Words
  <2> QED
    BY <1>1, <1>3, <2>1, FlushIs
<1>5. Same(j, k)
  BY <1>2, <1>4 DEF Same, SameRoutes, SameCover, SameCount
<1> QED
  BY <1>1, <1>4, <1>5

\* Asking for the route of the next candidate.
LEMMA AskIs ==
    ASSUME NEW j \in Job, NEW k, k = Ask(j), j.ahead \ j.attempted # {}
    PROVE  /\ k \in Job /\ Same(j, k)
           /\ k.at = "fetch" /\ k.after = j.after /\ k.status = j.status /\ k.call = 1
           /\ k.candidate \in j.ahead \ j.attempted /\ k.ahead = j.ahead \ {k.candidate}
<1> DEFINE c == NextCandidate(j)
<1>1. c \in j.ahead \ j.attempted
  BY DEF NextCandidate
<1>2. c \in Candidates
  BY <1>1, JobFields
<1>3. k = [j EXCEPT !.candidate = c, !.ahead = @ \ {c}, !.call = 1, !.at = "fetch"]
  BY DEF Ask
<1> HIDE DEF c
<1>4. k \in Job
  <2> DEFINE a == j.ahead \ {c}
  <2>1. a \in SomeCandidates /\ c \in OneOrNone /\ "fetch" \in Stages
    BY <1>2, JobFields, Words DEF OneOrNone, SomeCandidates
  <2>2. k = [j EXCEPT !.candidate = c, !.ahead = a, !.call = 1, !.at = "fetch"]
    BY <1>3
  <2> HIDE DEF a
  <2>3. [j EXCEPT !.candidate = c, !.ahead = a, !.call = 1, !.at = "fetch"] \in Job
    BY <2>1, JobIs
  <2> QED
    BY <2>2, <2>3
<1>5. Same(j, k)
  BY <1>3, JobIs DEF Same, SameRoutes, SameCover, SameCount
<1>6. /\ k.at = "fetch" /\ k.after = j.after /\ k.status = j.status /\ k.call = 1
      /\ k.candidate = c /\ k.ahead = j.ahead \ {c}
  BY <1>3, JobIs
<1> QED
  BY <1>1, <1>4, <1>5, <1>6

\* Counting requests.
LEMMA CountedIs ==
    ASSUME NEW j \in Job, NEW n \in Nat, NEW k, k = Counted(j, n)
    PROVE  /\ k \in Job /\ SameRoutes(j, k) /\ SameCover(j, k)
           /\ k.attempts = j.attempts + n /\ k.without = j.without + n
           /\ k.at = j.at /\ k.after = j.after /\ k.status = j.status /\ k.ahead = j.ahead
           /\ k.candidate = j.candidate /\ k.call = j.call
<1> DEFINE t == j.tried \/ n > 0
<1>1. t \in BOOLEAN
  OBVIOUS
<1>2. k = [j EXCEPT !.attempts = @ + n, !.without = @ + n, !.tried = t]
  BY DEF Counted
<1> HIDE DEF t
<1>3. k \in Job
  <2> DEFINE a == j.attempts + n
             w == j.without + n
  <2>1. a \in Nat /\ w \in Nat
    BY JobFields
  <2>2. k = [j EXCEPT !.attempts = a, !.without = w, !.tried = t]
    BY <1>2
  <2> HIDE DEF a, w
  <2>3. [j EXCEPT !.attempts = a, !.without = w, !.tried = t] \in Job
    BY <1>1, <2>1, JobIs
  <2> QED
    BY <2>2, <2>3
<1>4. SameRoutes(j, k) /\ SameCover(j, k)
  BY <1>2, JobIs DEF SameRoutes, SameCover
<1>5. /\ k.attempts = j.attempts + n /\ k.without = j.without + n
      /\ k.at = j.at /\ k.after = j.after /\ k.status = j.status /\ k.ahead = j.ahead
      /\ k.candidate = j.candidate /\ k.call = j.call
  BY <1>2, JobIs
<1> QED
  BY <1>3, <1>4, <1>5

\* Giving a candidate up.
LEMMA RejectIs ==
    ASSUME NEW j \in Job, NEW k, k = Reject(j), j.candidate \in Candidates
    PROVE  /\ k \in Job /\ SameCover(j, k) /\ SameCount(j, k)
           /\ k.scope = j.scope /\ k.budget = j.budget /\ k.milestone = j.milestone
           /\ k.kept = j.kept /\ k.accepted = j.accepted
           /\ k.unsaved = j.unsaved /\ k.round = j.round
           /\ k.attempted = j.attempted \cup {j.candidate} /\ k.candidate = None
           /\ k.at \in {"reject", "loop"} /\ k.after = j.after
           /\ k.status = j.status /\ k.ahead = j.ahead
<1> DEFINE s == Settled(j)
           at == IF j.rejected + 1 >= RejectedBatch THEN "reject" ELSE "loop"
<1>1. s \in Job /\ Same(j, s) /\ s.candidate = None
  BY JobIs, Words, ZenonT(60) DEF Settled, Same, SameRoutes, SameCover, SameCount
<1>2. s.after = j.after /\ s.status = j.status /\ s.ahead = j.ahead /\ s.rejected = j.rejected
  BY JobIs DEF Settled
<1>3. k = [s EXCEPT !.attempted = @ \cup {j.candidate}, !.rejected = @ + 1, !.at = at]
  BY <1>2 DEF Reject
<1>4. at \in {"reject", "loop"}
  OBVIOUS
<1> HIDE DEF s, at
<1>5. k \in Job
  <2> DEFINE a == s.attempted \cup {j.candidate}
             r == s.rejected + 1
  <2>1. a \in SomeCandidates /\ r \in Nat /\ at \in Stages
    BY <1>1, <1>4, JobFields, Words DEF SomeCandidates
  <2>2. k = [s EXCEPT !.attempted = a, !.rejected = r, !.at = at]
    BY <1>3
  <2> HIDE DEF a, r
  <2>3. [s EXCEPT !.attempted = a, !.rejected = r, !.at = at] \in Job
    BY <1>1, <2>1, JobIs
  <2> QED
    BY <2>2, <2>3
<1>6. SameCover(s, k) /\ SameCount(s, k)
  BY <1>1, <1>3, JobIs DEF SameCover, SameCount
<1>7. /\ k.scope = s.scope /\ k.budget = s.budget /\ k.milestone = s.milestone
      /\ k.kept = s.kept /\ k.accepted = s.accepted
      /\ k.unsaved = s.unsaved /\ k.round = s.round
  BY <1>1, <1>3, JobIs
<1>8. /\ k.attempted = s.attempted \cup {j.candidate} /\ k.candidate = s.candidate
      /\ k.at = at /\ k.after = s.after
      /\ k.status = s.status /\ k.ahead = s.ahead
  BY <1>1, <1>3, JobIs
<1> QED
  BY <1>1, <1>2, <1>4, <1>5, <1>6, <1>7, <1>8 DEF Same, SameRoutes, SameCover, SameCount

\* Taking up a round.
LEMMA LoadRoundIs ==
    ASSUME NEW j \in Job, NEW proposed \in SUBSET Candidates, NEW k, k = LoadRound(j, proposed)
    PROVE  /\ k \in Job /\ Same(j, k)
           /\ k.at = j.at /\ k.after = j.after /\ k.status = j.status
           /\ k.candidate = j.candidate /\ k.ahead = proposed
<1> DEFINE t == j.without > 0 \/ j.gained
<1>1. t \in BOOLEAN
  BY JobFields
<1>2. k = [j EXCEPT !.ahead = proposed, !.tried = t]
  BY DEF LoadRound
<1> HIDE DEF t
<1>3. k \in Job
  BY <1>1, <1>2, JobIs, ZenonT(60) DEF SomeCandidates
<1>4. Same(j, k)
  BY <1>2, JobIs DEF Same, SameRoutes, SameCover, SameCount
<1>5. /\ k.at = j.at /\ k.after = j.after /\ k.status = j.status
      /\ k.candidate = j.candidate /\ k.ahead = proposed
  BY <1>2, JobIs
<1> QED
  BY <1>3, <1>4, <1>5

\* Assessing the coverage.
LEMMA AssessedIs ==
    ASSUME NEW j \in Job, NEW k, k = Assessed(j)
    PROVE  /\ k \in Job /\ SameRoutes(j, k) /\ SameCount(j, k)
           /\ k.changed = j.changed /\ ~k.stale /\ (k.covered <=> Supports(Saved))
           /\ k.at = j.at /\ k.after = j.after /\ k.status = j.status
           /\ k.ahead = j.ahead /\ k.candidate = j.candidate
<1> DEFINE b == Supports(Saved)
<1>1. b \in BOOLEAN
  BY DEF Supports
<1>2. k = [j EXCEPT !.covered = b, !.stale = FALSE]
  BY DEF Assessed
<1> HIDE DEF b
<1>3. k \in Job
  BY <1>1, <1>2, JobIs, ZenonT(60)
<1>4. SameRoutes(j, k) /\ SameCount(j, k)
  BY <1>2, JobIs DEF SameRoutes, SameCount
<1>5. /\ k.changed = j.changed /\ k.stale = FALSE /\ k.covered = b
      /\ k.at = j.at /\ k.after = j.after /\ k.status = j.status
      /\ k.ahead = j.ahead /\ k.candidate = j.candidate
  BY <1>2, JobIs
<1>6. k.covered <=> Supports(Saved)
  BY <1>1, <1>5 DEF b
<1> QED
  BY <1>3, <1>4, <1>5, <1>6

\* Assessing the coverage first, or not.
LEMMA MaybeAssessedIs ==
    ASSUME NEW j \in Job, NEW b \in BOOLEAN, NEW k, k = IF b THEN Assessed(j) ELSE j
    PROVE  /\ k \in Job /\ SameRoutes(j, k) /\ SameCount(j, k) /\ k.changed = j.changed
           /\ k.at = j.at /\ k.after = j.after /\ k.status = j.status
           /\ k.ahead = j.ahead /\ k.candidate = j.candidate
           /\ \/ ~b /\ SameCover(j, k)
              \/ b /\ ~k.stale /\ (k.covered <=> Supports(Saved))
<1>1. CASE b
  BY <1>1, AssessedIs
<1>2. CASE ~b
  BY <1>2 DEF SameRoutes, SameCount, SameCover
<1> QED
  BY <1>1, <1>2

\* What the routes amount to.
LEMMA EvaluatedIs ==
    ASSUME NEW j \in Job
    PROVE  /\ Evaluated(j) \in {"ready", "usable", "incomplete"}
           /\ Evaluated(j) = "ready" => Complete(j)
           /\ Evaluated(j) = "usable" => UsableNow(j)
  BY DEF Evaluated

\* Returning to the loop with a new evaluation.
LEMMA EvaluateIs ==
    ASSUME NEW j \in Job, NEW k, k = Evaluate(j)
    PROVE  /\ k \in Job /\ SameRoutes(j, k) /\ SameCount(j, k) /\ k.changed = j.changed
           /\ k.at = "loop" /\ k.after = j.after /\ k.candidate = None /\ k.ahead = j.ahead
           /\ k.status \in {"ready", "usable", "incomplete"}
           /\ k.status = "ready" => Complete(k)
           /\ k.status = "usable" => UsableNow(k)
           /\ \/ SameCover(j, k)
              \/ ~k.stale /\ (k.covered <=> Supports(Saved))
<1> DEFINE b == j.milestone /\ Count(Saved) >= MinUsable /\ j.stale
           a == IF b THEN Assessed(j) ELSE j
           s == Settled(a)
           v == Evaluated(a)
<1>1. b \in BOOLEAN
  OBVIOUS
<1>2. k = [s EXCEPT !.status = v, !.at = "loop"]
  BY DEF Evaluate
<1> HIDE DEF b
<1>3. /\ a \in Job /\ SameRoutes(j, a) /\ SameCount(j, a) /\ a.changed = j.changed
      /\ a.after = j.after /\ a.ahead = j.ahead
      /\ SameCover(j, a) \/ (~a.stale /\ (a.covered <=> Supports(Saved)))
  BY <1>1, MaybeAssessedIs
<1> HIDE DEF a
<1>4. /\ v \in {"ready", "usable", "incomplete"}
      /\ v = "ready" => Complete(a)
      /\ v = "usable" => UsableNow(a)
  BY <1>3, EvaluatedIs
<1>5. s \in Job
  BY <1>3, JobIs, Words DEF Settled
<1>6. Same(a, s) /\ s.after = a.after /\ s.ahead = a.ahead /\ s.candidate = None
  BY <1>3, JobIs DEF Settled, Same, SameRoutes, SameCover, SameCount
<1> HIDE DEF s, v
<1>7. k \in Job
  <2>1. v \in Status /\ "loop" \in Stages
    BY <1>4, Words
  <2>2. [s EXCEPT !.status = v, !.at = "loop"] \in Job
    BY <1>5, <2>1, JobIs
  <2> QED
    BY <1>2, <2>2
<1>8. Same(s, k)
  BY <1>2, <1>5, JobIs DEF Same, SameRoutes, SameCover, SameCount
<1>9. k.status = v /\ k.at = "loop" /\ k.after = s.after /\ k.ahead = s.ahead /\ k.candidate = s.candidate
  BY <1>2, <1>5, JobIs
<1>10. Same(a, k)
  BY <1>6, <1>8 DEF Same, SameRoutes, SameCover, SameCount
<1>11. (Complete(a) => Complete(k)) /\ (UsableNow(a) => UsableNow(k))
  BY <1>10 DEF Complete, TargetReady, UsableNow, Same, SameRoutes, SameCover
<1>12. SameRoutes(j, k) /\ SameCount(j, k) /\ k.changed = j.changed
  BY <1>3, <1>10 DEF Same, SameRoutes, SameCover, SameCount
<1>13. SameCover(j, k) \/ (~k.stale /\ (k.covered <=> Supports(Saved)))
  BY <1>3, <1>10 DEF Same, SameCover
<1> QED
  BY <1>3, <1>4, <1>6, <1>7, <1>9, <1>11, <1>12, <1>13

\* Leaving a round.
LEMMA AdvanceIs ==
    ASSUME NEW j \in Job, NEW k, k = Advance(j)
    PROVE  /\ k \in Job /\ SameCover(j, k)
           /\ k.scope = j.scope /\ k.budget = j.budget /\ k.milestone = j.milestone
           /\ k.kept = j.kept /\ k.attempted = j.attempted /\ k.accepted = j.accepted
           /\ k.unsaved = j.unsaved /\ k.round = j.round + 1
           /\ k.attempts = j.attempts /\ k.without = 0
           /\ k.at = "advance" /\ k.after = j.after /\ k.status = j.status
           /\ k.ahead = {} /\ k.candidate = j.candidate
<1> DEFINE e == IF j.tried THEN 0 ELSE j.empty + 1
           g == IF ~j.tried THEN j.noGain ELSE IF j.gained THEN 0
                ELSE IF j.noGain = RoundsNoGain THEN j.noGain ELSE j.noGain + 1
           r == j.round + 1
<1>1. e \in Nat /\ r \in Nat
  BY JobFields
<1>2. g \in Gains
  BY JobFields, Words DEF Gains
<1>3. k = [j EXCEPT !.empty = e, !.noGain = g, !.gained = FALSE, !.without = 0,
                    !.round = r, !.ahead = {}, !.at = "advance"]
  BY DEF Advance
<1> HIDE DEF e, g
<1>4. k \in Job
  <2> HIDE DEF r
  <2>1. [j EXCEPT !.empty = e, !.noGain = g, !.gained = FALSE, !.without = 0,
                  !.round = r, !.ahead = {}, !.at = "advance"] \in Job
    BY <1>1, <1>2, JobIs, Words
  <2> QED
    BY <1>3, <2>1
<1>5. SameCover(j, k)
  BY <1>3, JobIs DEF SameCover
<1>6. /\ k.scope = j.scope /\ k.budget = j.budget /\ k.milestone = j.milestone
      /\ k.kept = j.kept /\ k.attempted = j.attempted /\ k.accepted = j.accepted
      /\ k.unsaved = j.unsaved /\ k.round = j.round + 1
      /\ k.attempts = j.attempts /\ k.without = 0
      /\ k.at = "advance" /\ k.after = j.after /\ k.status = j.status
      /\ k.ahead = {} /\ k.candidate = j.candidate
  BY <1>3, JobIs
<1> QED
  BY <1>4, <1>5, <1>6

\* Settling the result.
LEMMA CloseIs ==
    ASSUME NEW j \in Job, NEW k, k = Close(j)
    PROVE  /\ k \in Job /\ SameRoutes(j, k) /\ SameCount(j, k) /\ k.changed = j.changed
           /\ k.at = "close" /\ k.after = j.after /\ k.status = j.status
           /\ k.ahead = j.ahead /\ k.candidate = j.candidate /\ ~k.stale
           /\ \/ SameCover(j, k)
              \/ k.covered <=> Supports(Saved)
<1> DEFINE b == j.stale
           a == IF b THEN Assessed(j) ELSE j
<1>1. b \in BOOLEAN
  BY JobFields
<1>2. k = [a EXCEPT !.at = "close"]
  BY DEF Close
<1>3. /\ a \in Job /\ SameRoutes(j, a) /\ SameCount(j, a) /\ a.changed = j.changed
      /\ a.after = j.after /\ a.status = j.status
      /\ a.ahead = j.ahead /\ a.candidate = j.candidate
      /\ (~b /\ SameCover(j, a)) \/ (~a.stale /\ (a.covered <=> Supports(Saved)))
  BY <1>1, MaybeAssessedIs
<1> HIDE DEF a
<1>4. k \in Job
  BY <1>2, <1>3, JobIs, Words
<1>5. Same(a, k)
  BY <1>2, <1>3, JobIs DEF Same, SameRoutes, SameCover, SameCount
<1>6. /\ k.at = "close" /\ k.after = a.after /\ k.status = a.status
      /\ k.ahead = a.ahead /\ k.candidate = a.candidate
  BY <1>2, <1>3, JobIs
<1>7. SameRoutes(j, k) /\ SameCount(j, k) /\ k.changed = j.changed
  BY <1>3, <1>5 DEF Same, SameRoutes, SameCover, SameCount
<1>8. ~k.stale /\ (SameCover(j, k) \/ (k.covered <=> Supports(Saved)))
  BY <1>3, <1>5 DEF Same, SameCover
<1> QED
  BY <1>3, <1>4, <1>6, <1>7, <1>8

\* A job whose changes are on disk, before it goes where the flush returns to.
Cleared(f) == [f EXCEPT !.changed = FALSE, !.after = "finish"]

\* The end of a flush.
LEMMA ClearedIs ==
    ASSUME NEW f \in Job, NEW k, k = Cleared(f)
    PROVE  /\ k \in Job /\ SameRoutes(f, k) /\ SameCount(f, k)
           /\ k.changed = FALSE /\ k.covered = f.covered /\ k.stale = f.stale
           /\ k.at = f.at /\ k.after = "finish" /\ k.status = f.status
           /\ k.ahead = f.ahead /\ k.candidate = f.candidate
<1>1. k \in Job
  BY JobIs, Words DEF Cleared
<1>2. SameRoutes(f, k) /\ SameCount(f, k)
  BY JobIs DEF Cleared, SameRoutes, SameCount
<1>3. /\ k.changed = FALSE /\ k.covered = f.covered /\ k.stale = f.stale
      /\ k.at = f.at /\ k.after = "finish" /\ k.status = f.status
      /\ k.ahead = f.ahead /\ k.candidate = f.candidate
  BY JobIs DEF Cleared
<1> QED
  BY <1>1, <1>2, <1>3

\* Where a flush returns to.
LEMMA AfterFlushIs ==
    ASSUME NEW f
    PROVE  /\ f.after = "request" => AfterFlush(f) = Ask(Cleared(f))
           /\ f.after = "advance" => AfterFlush(f) = Advance(Cleared(f))
           /\ f.after = "evaluate" => AfterFlush(f) = Evaluate(Cleared(f))
           /\ f \in Job /\ f.after = "finish" => AfterFlush(f) = Close(Cleared(f))
<1>1. f.after = "request" => AfterFlush(f) = Ask(Cleared(f))
  BY DEF AfterFlush, Cleared
<1>2. f.after = "advance" => AfterFlush(f) = Advance(Cleared(f))
  BY DEF AfterFlush, Cleared
<1>3. f.after = "evaluate" => AfterFlush(f) = Evaluate(Cleared(f))
  BY DEF AfterFlush, Cleared
<1>4. f \in Job /\ f.after = "finish" => AfterFlush(f) = Close(Cleared(f))
  BY DEF AfterFlush, Cleared
<1> QED
  BY <1>1, <1>2, <1>3, <1>4

\* New routes of the candidate.
LEMMA WithIs ==
    ASSUME NEW j \in Job, j.candidate \in Candidates, NEW n \in Nat, n <= Room(j),
           NEW k, k = With(j, n)
    PROVE  /\ k \in Job /\ SameCover(j, k) /\ SameCount(j, k)
           /\ k.scope = j.scope /\ k.budget = j.budget /\ k.milestone = j.milestone
           /\ k.attempted = j.attempted /\ k.accepted = j.accepted
           /\ k.unsaved = j.unsaved /\ k.round = j.round
           /\ k.at = j.at /\ k.after = j.after /\ k.status = j.status
           /\ k.ahead = j.ahead /\ k.candidate = j.candidate
           /\ k.kept[j.candidate] = j.kept[j.candidate] + n
           /\ \A c \in Candidates \ {j.candidate} : k.kept[c] = j.kept[c]
<1> DEFINE m == [j.kept EXCEPT ![j.candidate] = @ + n]
<1>1. j.kept \in [Candidates -> 0 .. MaxRoutes]
  BY JobFields DEF Catalogue
<1>2. j.kept[j.candidate] + n \in 0 .. MaxRoutes
  <2>1. j.kept[j.candidate] \in 0 .. MaxRoutes
    BY <1>1
  <2>2. MaxRoutes \in Nat /\ n <= MaxRoutes - j.kept[j.candidate]
    BY CountsAssumption DEF Room
  <2> QED
    BY <2>1, <2>2
<1>3. m \in Catalogue
  BY <1>1, <1>2 DEF Catalogue
<1>4. /\ m[j.candidate] = j.kept[j.candidate] + n
      /\ \A c \in Candidates \ {j.candidate} : m[c] = j.kept[c]
  BY <1>1
<1>5. k = [j EXCEPT !.kept = m]
  BY DEF With
<1> HIDE DEF m
<1>6. k \in Job
  BY <1>3, <1>5, JobIs
<1>7. SameCover(j, k) /\ SameCount(j, k)
  BY <1>5, JobIs DEF SameCover, SameCount
<1>8. /\ k.scope = j.scope /\ k.budget = j.budget /\ k.milestone = j.milestone
      /\ k.attempted = j.attempted /\ k.accepted = j.accepted
      /\ k.unsaved = j.unsaved /\ k.round = j.round
      /\ k.at = j.at /\ k.after = j.after /\ k.status = j.status
      /\ k.ahead = j.ahead /\ k.candidate = j.candidate /\ k.kept = m
  BY <1>5, JobIs
<1> QED
  BY <1>4, <1>6, <1>7, <1>8

\* The job that has accepted n routes of its candidate.
Accepted(j, n) ==
    [With(j, n) EXCEPT
        !.without = 0, !.noGain = 0, !.gained = TRUE,
        !.accepted = @ \cup {j.candidate}, !.unsaved = @ + n]

\* Accepting the routes of a candidate.
LEMMA AcceptedIs ==
    ASSUME NEW j \in Job, j.candidate \in Candidates, NEW n \in Nat, n <= Room(j),
           NEW k, k = Accepted(j, n)
    PROVE  /\ k \in Job /\ SameCover(j, k)
           /\ k.scope = j.scope /\ k.budget = j.budget /\ k.milestone = j.milestone
           /\ k.attempted = j.attempted /\ k.accepted = j.accepted \cup {j.candidate}
           /\ k.unsaved = j.unsaved + n /\ k.round = j.round
           /\ k.attempts = j.attempts /\ k.without = 0
           /\ k.at = j.at /\ k.after = j.after /\ k.status = j.status
           /\ k.ahead = j.ahead /\ k.candidate = j.candidate
           /\ k.kept[j.candidate] = j.kept[j.candidate] + n
           /\ \A c \in Candidates \ {j.candidate} : k.kept[c] = j.kept[c]
<1> DEFINE w == With(j, n)
           a == w.accepted \cup {j.candidate}
           u == w.unsaved + n
<1>1. /\ w \in Job /\ SameCover(j, w) /\ SameCount(j, w)
      /\ w.scope = j.scope /\ w.budget = j.budget /\ w.milestone = j.milestone
      /\ w.attempted = j.attempted /\ w.accepted = j.accepted
      /\ w.unsaved = j.unsaved /\ w.round = j.round
      /\ w.at = j.at /\ w.after = j.after /\ w.status = j.status
      /\ w.ahead = j.ahead /\ w.candidate = j.candidate
      /\ w.kept[j.candidate] = j.kept[j.candidate] + n
      /\ \A c \in Candidates \ {j.candidate} : w.kept[c] = j.kept[c]
  BY WithIs
<1> HIDE DEF w
<1>2. a \in SomeCandidates /\ u \in Nat
  BY <1>1, JobFields DEF SomeCandidates
<1>3. k = [w EXCEPT !.without = 0, !.noGain = 0, !.gained = TRUE, !.accepted = a, !.unsaved = u]
  BY DEF Accepted, w
<1>4. k \in Job
  <2> HIDE DEF a, u
  <2>1. [w EXCEPT !.without = 0, !.noGain = 0, !.gained = TRUE, !.accepted = a, !.unsaved = u] \in Job
    BY <1>1, <1>2, JobIs, Words
  <2> QED
    BY <1>3, <2>1
<1>5. SameCover(w, k)
  BY <1>1, <1>3, JobIs DEF SameCover
<1>6. /\ k.scope = w.scope /\ k.budget = w.budget /\ k.milestone = w.milestone
      /\ k.attempted = w.attempted /\ k.accepted = a
      /\ k.unsaved = u /\ k.round = w.round
      /\ k.attempts = w.attempts /\ k.without = 0
      /\ k.at = w.at /\ k.after = w.after /\ k.status = w.status
      /\ k.ahead = w.ahead /\ k.candidate = w.candidate /\ k.kept = w.kept
  BY <1>1, <1>3, JobIs
<1> QED
  BY <1>1, <1>4, <1>5, <1>6 DEF SameCover, SameCount

-----------------------------------------------------------------------------
(* The action: its stages, its requests and its candidates                 *)

\* The bounds, one by one.
LEMMA Bounds ==
    /\ MaxRounds \in Nat /\ MaxRounds >= 1 /\ MaxRoutes \in Nat /\ MaxRoutes >= 1
    /\ MaxCalls \in Nat /\ MaxCalls >= 1 /\ AttemptsNoGain \in Nat /\ AttemptsNoGain >= 1
    /\ AttemptLimit \in Nat /\ AttemptLimit >= AttemptsNoGain + MaxCalls - 1
    /\ BatchSize \in Nat /\ BatchSize >= MaxRoutes
    /\ MinUsable \in Nat /\ MinUsable >= 1 /\ Target \in Nat /\ Target > MinUsable
    /\ Capacity \in Nat /\ RoundsNoGain \in Nat /\ MaxGraph \in Nat /\ MaxGraph >= 1
<1>1. \A n \in {MaxRounds, MaxRoutes, RejectedBatch, MaxCalls, AttemptsNoGain,
                RoundsNoGain, EmptyRounds, MinUsable, Capacity, MaxGraph} : n \in Nat /\ n # 0
  BY CountsAssumption
<1>2. \A n \in Nat : n # 0 => n >= 1
  OBVIOUS
<1>3. /\ AttemptLimit \in Nat /\ AttemptLimit >= AttemptsNoGain + MaxCalls - 1
      /\ BatchSize \in Nat /\ BatchSize >= MaxRoutes
      /\ Target \in Nat /\ Target > MinUsable
  BY CountsAssumption
<1> QED
  BY <1>1, <1>2, <1>3

\* The round of a candidate is a number.
LEMMA RoundIs ==
    \A c \in Candidates : RoundOf(c) \in Nat
  BY Bounds DEF Candidates, RoundOf

\* The stages in which an action may still ask for a route or begin a round.
Searching(j) ==
    \/ j.at \in {"fetch", "trace", "reject"}
    \/ j.at \in {"flush", "journal"} /\ j.after # "finish"
    \/ j.at = "loop" /\ j.status = "incomplete"

\* An action that searches has no result yet and a round to search in.
StageOf(j, l) ==
    /\ Searching(j) => j.status = "incomplete" /\ j.round < MaxRounds
    /\ j.at = "advance" => j.status = "incomplete"
    /\ j.at = "loop" => j.status # "geometry-limit"
    /\ j.after # "finish" => j.at \in {"flush", "journal"}
    /\ (j.after \in {"request", "advance"} \/ j.at = "advance") => l
    /\ j.changed => j.at \in {"flush", "journal"}
    /\ j.round <= MaxRounds

\* Candidates that are left in the round.
Left(j) == j.ahead \ (j.attempted \cup j.accepted)

\* Requests stay within the budget of the action and the limit of the round.
RequestOf(j, l) ==
    /\ j.attempts <= j.budget
    /\ (j.at = "fetch" \/ j.after = "request") => j.attempts < j.budget
    /\ j.after = "request" => Left(j) # {}
    /\ j.at \in {"fetch", "trace"} => j.call \in 1 .. MaxCalls
    /\ l =>
        /\ j.after = "request" => j.without < AttemptsNoGain
        /\ j.at = "fetch" => j.without + 2 <= AttemptsNoGain + j.call
        /\ j.at = "trace" => j.without + 1 <= AttemptsNoGain + j.call
        /\ j.without <= AttemptLimit

\* What is ahead is of the round and new, and so is the candidate in question;
\* no accepted candidate is of a later round.
AheadOf(j) ==
    /\ \A c \in j.ahead : RoundOf(c) = j.round /\ c \notin j.accepted
    /\ \A c \in j.accepted : RoundOf(c) <= j.round
CandidateOf(j) ==
    /\ AheadOf(j)
    /\ j.at = "advance" => \A c \in j.accepted : RoundOf(c) < j.round
    /\ j.at \in {"fetch", "trace"} =>
        /\ j.candidate \in Candidates
        /\ RoundOf(j.candidate) = j.round
        /\ j.candidate \notin j.attempted \cup j.accepted \cup j.ahead

Good(j, l) == j \in Job /\ StageOf(j, l) /\ RequestOf(j, l) /\ CandidateOf(j)

TypeInv == TypeOK /\ Good(job, local)

\* An action may always stop.
LEMMA FinishGood ==
    ASSUME NEW j \in Job, NEW l \in BOOLEAN, NEW status \in Status,
           j.round <= MaxRounds, j.attempts <= j.budget, AheadOf(j),
           l => j.without <= AttemptLimit
    PROVE  Good(Finish(j, status), l)
<1> DEFINE k == Finish(j, status)
<1>1. /\ k \in Job /\ Same(j, k)
      /\ k.at = "flush" /\ k.after = "finish" /\ k.candidate = None
      /\ k.status = status /\ k.ahead = {}
  BY FinishIs
<1> HIDE DEF k
<1>2. StageOf(k, l)
  BY <1>1 DEF StageOf, Searching, Same, SameRoutes, SameCover
<1>3. RequestOf(k, l)
  BY <1>1 DEF RequestOf, Same, SameRoutes, SameCount
<1>4. CandidateOf(k)
  BY <1>1 DEF CandidateOf, AheadOf, Same, SameRoutes
<1> QED
  BY <1>1, <1>2, <1>3, <1>4 DEF Good, k

\* It may save what it has when it goes on with what it can do afterwards.
LEMMA FlushGood ==
    ASSUME NEW j \in Job, NEW l \in BOOLEAN, NEW after \in {"request", "advance", "evaluate"},
           j.status = "incomplete", j.round < MaxRounds, j.attempts <= j.budget,
           l => j.without <= AttemptLimit, AheadOf(j),
           after \in {"request", "advance"} => l,
           after = "request" => j.attempts < j.budget /\ Left(j) # {} /\ j.without < AttemptsNoGain
    PROVE  Good(Flush(j, after), l)
<1> DEFINE k == Flush(j, after)
<1>1. /\ k \in Job /\ Same(j, k)
      /\ k.at = "flush" /\ k.after = after /\ k.candidate = None
      /\ k.status = j.status /\ k.ahead = j.ahead
  <2>1. after \in Afters
    BY Words
  <2> QED
    BY <2>1, FlushIs
<1> HIDE DEF k
<1>2. StageOf(k, l)
  BY <1>1, Bounds, JobFields DEF StageOf, Searching, Same, SameRoutes, SameCover
<1>3. RequestOf(k, l)
  BY <1>1 DEF RequestOf, Left, Same, SameRoutes, SameCount
<1>4. CandidateOf(k)
  BY <1>1 DEF CandidateOf, AheadOf, Same, SameRoutes
<1> QED
  BY <1>1, <1>2, <1>3, <1>4 DEF Good, k

\* It may ask for a route within its budget and the limit of the round.
LEMMA AskGood ==
    ASSUME NEW j \in Job, NEW l \in BOOLEAN,
           j.status = "incomplete", j.round < MaxRounds, j.attempts < j.budget,
           j.after = "finish", ~j.changed, AheadOf(j), j.ahead \ j.attempted # {},
           l => j.without < AttemptsNoGain /\ j.without <= AttemptLimit
    PROVE  Good(Ask(j), l)
<1> DEFINE k == Ask(j)
<1>1. /\ k \in Job /\ Same(j, k)
      /\ k.at = "fetch" /\ k.after = j.after /\ k.status = j.status /\ k.call = 1
      /\ k.candidate \in j.ahead \ j.attempted /\ k.ahead = j.ahead \ {k.candidate}
  BY AskIs
<1> HIDE DEF k
<1>2. StageOf(k, l)
  BY <1>1, Bounds, JobFields DEF StageOf, Searching, Same, SameRoutes, SameCover
<1>3. RequestOf(k, l)
  BY <1>1, Bounds, JobFields DEF RequestOf, Same, SameRoutes, SameCount
<1>4. k.candidate \in Candidates
  BY <1>1, JobFields
<1>5. CandidateOf(k)
  BY <1>1, <1>4 DEF CandidateOf, AheadOf, Same, SameRoutes
<1> QED
  BY <1>1, <1>2, <1>3, <1>5 DEF Good, k

\* It may return to the loop.
LEMMA EvaluateGood ==
    ASSUME NEW j \in Job, NEW l \in BOOLEAN,
           j.round < MaxRounds, j.attempts <= j.budget,
           j.after = "finish", ~j.changed, AheadOf(j),
           l => j.without <= AttemptLimit
    PROVE  Good(Evaluate(j), l)
<1> DEFINE k == Evaluate(j)
<1>1. /\ k \in Job /\ SameRoutes(j, k) /\ SameCount(j, k) /\ k.changed = j.changed
      /\ k.at = "loop" /\ k.after = j.after /\ k.candidate = None /\ k.ahead = j.ahead
      /\ k.status \in {"ready", "usable", "incomplete"}
  BY EvaluateIs
<1> HIDE DEF k
<1>2. StageOf(k, l)
  BY <1>1, Bounds, JobFields DEF StageOf, Searching, SameRoutes
<1>3. RequestOf(k, l)
  BY <1>1 DEF RequestOf, SameRoutes, SameCount
<1>4. CandidateOf(k)
  BY <1>1 DEF CandidateOf, AheadOf, SameRoutes
<1> QED
  BY <1>1, <1>2, <1>3, <1>4 DEF Good, k

\* With a local router it may leave the round.
LEMMA AdvanceGood ==
    ASSUME NEW j \in Job, NEW l \in BOOLEAN, l,
           j.status = "incomplete", j.round < MaxRounds, j.attempts <= j.budget,
           j.after = "finish", ~j.changed, AheadOf(j)
    PROVE  Good(Advance(j), l)
<1> DEFINE k == Advance(j)
<1>1. /\ k \in Job /\ SameCover(j, k)
      /\ k.budget = j.budget /\ k.accepted = j.accepted
      /\ k.round = j.round + 1
      /\ k.attempts = j.attempts /\ k.without = 0
      /\ k.at = "advance" /\ k.after = j.after /\ k.status = j.status
      /\ k.ahead = {}
  BY AdvanceIs
<1> HIDE DEF k
<1>2. StageOf(k, l)
  BY <1>1, Bounds, JobFields DEF StageOf, Searching, SameCover
<1>3. RequestOf(k, l)
  BY <1>1, Bounds DEF RequestOf
<1>4. CandidateOf(k)
  <2>1. \A c \in j.accepted : RoundOf(c) \in Nat
    BY JobFields, RoundIs
  <2>2. \A c \in j.accepted : RoundOf(c) <= j.round
    BY DEF AheadOf
  <2>3. \A c \in k.accepted : RoundOf(c) < k.round /\ RoundOf(c) <= k.round
    BY <1>1, <2>1, <2>2, JobFields
  <2> QED
    BY <1>1, <2>3 DEF CandidateOf, AheadOf
<1> QED
  BY <1>1, <1>2, <1>3, <1>4 DEF Good, k

\* It may settle its result.
LEMMA CloseGood ==
    ASSUME NEW j \in Job, NEW l \in BOOLEAN,
           j.round <= MaxRounds, j.attempts <= j.budget,
           j.after = "finish", ~j.changed, AheadOf(j),
           l => j.without <= AttemptLimit
    PROVE  Good(Close(j), l)
<1> DEFINE k == Close(j)
<1>1. /\ k \in Job /\ SameRoutes(j, k) /\ SameCount(j, k) /\ k.changed = j.changed
      /\ k.at = "close" /\ k.after = j.after /\ k.status = j.status
      /\ k.ahead = j.ahead
  BY CloseIs
<1> HIDE DEF k
<1>2. StageOf(k, l)
  BY <1>1 DEF StageOf, Searching, SameRoutes
<1>3. RequestOf(k, l)
  BY <1>1 DEF RequestOf, SameRoutes, SameCount
<1>4. CandidateOf(k)
  BY <1>1 DEF CandidateOf, AheadOf, SameRoutes
<1> QED
  BY <1>1, <1>2, <1>3, <1>4 DEF Good, k

\* After a flush it goes where it wanted to go.
LEMMA AfterFlushGood ==
    ASSUME NEW f, NEW l \in BOOLEAN, Good(f, l), f.at \in {"flush", "journal"}
    PROVE  Good(AfterFlush(f), l)
<1> DEFINE j == Cleared(f)
<1>1. f \in Job /\ StageOf(f, l) /\ RequestOf(f, l) /\ AheadOf(f)
  BY DEF Good, CandidateOf
<1>2. /\ j \in Job /\ SameRoutes(f, j) /\ SameCount(f, j)
      /\ j.changed = FALSE /\ j.after = "finish" /\ j.status = f.status /\ j.ahead = f.ahead
  BY <1>1, ClearedIs
<1> HIDE DEF j
<1>3. /\ j.round <= MaxRounds /\ j.attempts <= j.budget /\ AheadOf(j)
      /\ l => j.without <= AttemptLimit
  BY <1>1, <1>2 DEF StageOf, RequestOf, AheadOf, SameRoutes, SameCount
<1>4. f.after # "finish" => j.status = "incomplete" /\ j.round < MaxRounds
  BY <1>1, <1>2 DEF StageOf, Searching, SameRoutes
<1>5. f.after \in {"request", "advance"} => l
  BY <1>1 DEF StageOf
<1>6. f.after \in Afters
  BY <1>1, JobFields
<1>7. CASE f.after = "request"
  <2>1. j.attempts < j.budget /\ j.without < AttemptsNoGain
    BY <1>1, <1>2, <1>5, <1>7 DEF RequestOf, SameRoutes, SameCount
  <2>2. j.ahead \ j.attempted # {}
    BY <1>1, <1>2, <1>7 DEF RequestOf, Left, SameRoutes
  <2>3. Good(Ask(j), l)
    BY <1>2, <1>3, <1>4, <1>7, <2>1, <2>2, AskGood
  <2> QED
    BY <1>7, <2>3, AfterFlushIs DEF j
<1>8. CASE f.after = "advance"
  <2>1. Good(Advance(j), l)
    BY <1>2, <1>3, <1>4, <1>5, <1>8, AdvanceGood
  <2> QED
    BY <1>8, <2>1, AfterFlushIs DEF j
<1>9. CASE f.after = "evaluate"
  <2>1. Good(Evaluate(j), l)
    BY <1>2, <1>3, <1>4, <1>9, EvaluateGood
  <2> QED
    BY <1>9, <2>1, AfterFlushIs DEF j
<1>10. CASE f.after = "finish"
  <2>1. Good(Close(j), l)
    BY <1>2, <1>3, CloseGood
  <2> QED
    BY <1>1, <1>10, <2>1, AfterFlushIs DEF j
<1> QED
  BY <1>6, <1>7, <1>8, <1>9, <1>10 DEF Afters

\* A step of the action to a good job.
LEMMA StepGood ==
    ASSUME TypeInv, NEW k, Good(k, local), Step(k)
    PROVE  TypeInv'
<1>1. job' = k /\ local' = local /\ graph' = graph /\ packs' = packs /\ journal' = journal
  BY DEF Step
<1>2. Good(job', local')
  BY <1>1
<1>3. TypeOK'
  BY <1>1 DEF TypeInv, TypeOK, Good
<1> QED
  BY <1>2, <1>3 DEF TypeInv

\* What the invariant gives in the loop, while there is more to do.
LEMMA InLoop ==
    ASSUME TypeInv, job.at = "loop"
    PROVE  /\ job \in Job /\ local \in BOOLEAN
           /\ job.after = "finish" /\ ~job.changed /\ AheadOf(job)
           /\ job.round <= MaxRounds /\ job.attempts <= job.budget
           /\ local => job.without <= AttemptLimit
           /\ job.status = "incomplete" => job.round < MaxRounds
           /\ job.status \in Status /\ job.status # "geometry-limit"
           /\ More(job) => job.status = "incomplete" /\ job.attempts < job.budget
<1>1. job \in Job /\ local \in BOOLEAN /\ StageOf(job, local) /\ RequestOf(job, local) /\ CandidateOf(job)
  BY DEF TypeInv, TypeOK, Good
<1>2. job.after = "finish" /\ ~job.changed /\ job.round <= MaxRounds /\ job.status # "geometry-limit"
  BY <1>1 DEF StageOf
<1>3. job.status = "incomplete" => job.round < MaxRounds
  BY <1>1 DEF StageOf, Searching
<1>4. job.attempts <= job.budget /\ (local => job.without <= AttemptLimit)
  BY <1>1 DEF RequestOf
<1>5. AheadOf(job) /\ job.status \in Status
  BY <1>1, JobFields DEF CandidateOf
<1>6. More(job) => job.status = "incomplete" /\ job.attempts < job.budget
  BY DEF More
<1> QED
  BY <1>1, <1>2, <1>3, <1>4, <1>5, <1>6

\* What it gives while an answer is awaited.
LEMMA InRequest ==
    ASSUME TypeInv, job.at \in {"fetch", "trace"}
    PROVE  /\ job \in Job /\ local \in BOOLEAN
           /\ job.after = "finish" /\ ~job.changed /\ AheadOf(job)
           /\ job.status = "incomplete" /\ job.round < MaxRounds /\ job.attempts <= job.budget
           /\ job.candidate \in Candidates /\ RoundOf(job.candidate) = job.round
           /\ job.candidate \notin job.attempted \cup job.accepted \cup job.ahead
           /\ job.call \in 1 .. MaxCalls
           /\ job.at = "fetch" =>
                /\ job.attempts < job.budget
                /\ local => job.without + 2 <= AttemptsNoGain + job.call
           /\ job.at = "trace" /\ local => job.without + 1 <= AttemptsNoGain + job.call
           /\ local => job.without <= AttemptLimit
<1>1. job \in Job /\ local \in BOOLEAN /\ StageOf(job, local) /\ RequestOf(job, local) /\ CandidateOf(job)
  BY DEF TypeInv, TypeOK, Good
<1>2. job.after = "finish" /\ ~job.changed /\ job.status = "incomplete" /\ job.round < MaxRounds
  BY <1>1 DEF StageOf, Searching
<1>3. /\ job.attempts <= job.budget /\ job.call \in 1 .. MaxCalls
      /\ job.at = "fetch" =>
                /\ job.attempts < job.budget
                /\ local => job.without + 2 <= AttemptsNoGain + job.call
      /\ job.at = "trace" /\ local => job.without + 1 <= AttemptsNoGain + job.call
      /\ local => job.without <= AttemptLimit
  BY <1>1 DEF RequestOf
<1>4. /\ AheadOf(job)
      /\ job.candidate \in Candidates /\ RoundOf(job.candidate) = job.round
      /\ job.candidate \notin job.attempted \cup job.accepted \cup job.ahead
  BY <1>1 DEF CandidateOf
<1> QED
  BY <1>1, <1>2, <1>3, <1>4

\* The steps of the loop.
LEMMA LoopSteps ==
    ASSUME TypeInv,
           LoopEnds \/ LoopCanceled \/ RoundEnds \/ \E aged \in BOOLEAN : Request(aged)
    PROVE  TypeInv'
<1>1. job.at = "loop"
  BY DEF LoopEnds, LoopCanceled, RoundEnds, Request
<1>2. /\ job \in Job /\ local \in BOOLEAN
      /\ job.after = "finish" /\ ~job.changed /\ AheadOf(job)
      /\ job.round <= MaxRounds /\ job.attempts <= job.budget
      /\ local => job.without <= AttemptLimit
      /\ job.status = "incomplete" => job.round < MaxRounds
      /\ job.status \in Status /\ job.status # "geometry-limit"
      /\ More(job) => job.status = "incomplete" /\ job.attempts < job.budget
  BY <1>1, InLoop
<1>3. \A s \in Status : Good(Finish(job, s), local)
  BY <1>2, FinishGood
<1>4. local /\ job.status = "incomplete" => Good(Flush(job, "advance"), local)
  BY <1>2, FlushGood
<1>5. CASE LoopEnds
  <2>1. CASE job.status = "incomplete" /\ Stalled(job)
    <3>1. Step(Flush(job, "advance")) /\ local
      BY <1>5, <2>1 DEF LoopEnds, Stalled
    <3> QED
      BY <1>4, <2>1, <3>1, StepGood
  <2>2. CASE ~(job.status = "incomplete" /\ Stalled(job))
    <3>1. Step(Finish(job, job.status))
      BY <1>5, <2>2 DEF LoopEnds
    <3> QED
      BY <1>2, <1>3, <3>1, StepGood
  <2> QED
    BY <2>1, <2>2
<1>6. CASE LoopCanceled
  <2>1. Step(Finish(job, "canceled")) /\ "canceled" \in Status
    BY <1>6, Words DEF LoopCanceled
  <2> QED
    BY <1>3, <2>1, StepGood
<1>7. CASE RoundEnds
  <2>1. CASE local
    <3>1. Step(Flush(job, "advance")) /\ job.status = "incomplete"
      BY <1>2, <1>7, <2>1 DEF RoundEnds
    <3> QED
      BY <1>4, <2>1, <3>1, StepGood
  <2>2. CASE ~local
    <3>1. Step(Finish(job, "candidates-exhausted")) /\ "candidates-exhausted" \in Status
      BY <1>7, <2>2, Words DEF RoundEnds
    <3> QED
      BY <1>3, <3>1, StepGood
  <2> QED
    BY <2>1, <2>2
<1>8. ASSUME NEW aged \in BOOLEAN, Request(aged) PROVE TypeInv'
  <2>1. /\ job.status = "incomplete" /\ job.attempts < job.budget /\ job.round < MaxRounds
        /\ ~Stalled(job) /\ job.ahead \ job.attempted # {}
    BY <1>2, <1>8 DEF Request
  <2>2. local => job.without < AttemptsNoGain
    BY <1>2, <2>1, Bounds, JobFields DEF Stalled
  <2>3. CASE local /\ job.unsaved > 0 /\ (aged \/ NeedsFlush(job))
    <3>1. Step(Flush(job, "request"))
      BY <1>8, <2>3 DEF Request
    <3>2. Left(job) # {}
      BY <1>2, <2>1 DEF Left, AheadOf
    <3>3. Good(Flush(job, "request"), local)
      BY <1>2, <2>1, <2>2, <2>3, <3>2, FlushGood
    <3> QED
      BY <3>1, <3>3, StepGood
  <2>4. CASE ~(local /\ job.unsaved > 0 /\ (aged \/ NeedsFlush(job)))
    <3>1. Step(Ask(job))
      BY <1>8, <2>4 DEF Request
    <3>2. Good(Ask(job), local)
      BY <1>2, <2>1, <2>2, AskGood
    <3> QED
      BY <3>1, <3>2, StepGood
  <2> QED
    BY <2>3, <2>4
<1> QED
  BY <1>5, <1>6, <1>7, <1>8

\* A candidate that is given up.
LEMMA RejectGood ==
    ASSUME NEW j \in Job, NEW l \in BOOLEAN, j.candidate \in Candidates,
           j.status = "incomplete", j.round < MaxRounds, j.attempts <= j.budget,
           j.after = "finish", ~j.changed, AheadOf(j), l => j.without <= AttemptLimit
    PROVE  Good(Reject(j), l)
<1> DEFINE k == Reject(j)
<1>1. /\ k \in Job /\ SameCover(j, k) /\ SameCount(j, k)
      /\ k.budget = j.budget
      /\ k.accepted = j.accepted
      /\ k.round = j.round
      /\ k.at \in {"reject", "loop"} /\ k.after = j.after
      /\ k.status = j.status /\ k.ahead = j.ahead
  BY RejectIs
<1> HIDE DEF k
<1>2. StageOf(k, l)
  BY <1>1, Bounds, JobFields DEF StageOf, Searching, SameCover
<1>3. RequestOf(k, l)
  BY <1>1 DEF RequestOf, SameCount
<1>4. CandidateOf(k)
  BY <1>1 DEF CandidateOf, AheadOf
<1> QED
  BY <1>1, <1>2, <1>3, <1>4 DEF Good, k

\* The answers of the provider that bring no route.
LEMMA AnswerSteps ==
    ASSUME TypeInv,
           \/ Canceled \/ FetchRoute \/ FetchRejected \/ FetchForbidden \/ FetchFails
           \/ TraceRejected \/ TraceFails \/ GraphChanged
    PROVE  TypeInv'
<1>1. job.at \in {"fetch", "trace"}
  BY DEF Canceled, FetchRoute, FetchRejected, FetchForbidden, FetchFails, TraceRejected,
         TraceFails, GraphChanged
<1>2. /\ job \in Job /\ local \in BOOLEAN
      /\ job.after = "finish" /\ ~job.changed /\ AheadOf(job)
      /\ job.status = "incomplete" /\ job.round < MaxRounds /\ job.attempts <= job.budget
      /\ job.candidate \in Candidates /\ RoundOf(job.candidate) = job.round
      /\ job.candidate \notin job.attempted \cup job.accepted \cup job.ahead
      /\ job.call \in 1 .. MaxCalls
      /\ job.at = "fetch" =>
            /\ job.attempts < job.budget
            /\ local => job.without + 2 <= AttemptsNoGain + job.call
      /\ job.at = "trace" /\ local => job.without + 1 <= AttemptsNoGain + job.call
      /\ local => job.without <= AttemptLimit
  BY <1>1, InRequest
<1>3. job.round <= MaxRounds
  BY <1>2, Bounds, JobFields
<1>4. \A s \in Status : Good(Finish(job, s), local)
  BY <1>2, <1>3, FinishGood
<1> DEFINE j == Counted(job, 1)
<1>5. /\ j \in Job /\ SameRoutes(job, j) /\ SameCover(job, j)
      /\ j.attempts = job.attempts + 1 /\ j.without = job.without + 1
      /\ j.at = job.at /\ j.after = job.after /\ j.status = job.status /\ j.ahead = job.ahead
      /\ j.candidate = job.candidate /\ j.call = job.call
  BY <1>2, CountedIs
<1> HIDE DEF j
<1>6. ASSUME job.at = "fetch"
      PROVE  /\ j.attempts <= j.budget /\ j.round < MaxRounds /\ j.round <= MaxRounds
             /\ ~j.changed /\ AheadOf(j) /\ (local => j.without <= AttemptLimit)
  <2>1. j.attempts <= j.budget
    BY <1>2, <1>5, <1>6, JobFields DEF SameRoutes
  <2>2. local => j.without <= AttemptLimit
    BY <1>2, <1>5, <1>6, Bounds, JobFields
  <2>3. j.round < MaxRounds /\ j.round <= MaxRounds /\ ~j.changed /\ AheadOf(j)
    BY <1>2, <1>3, <1>5 DEF SameRoutes, SameCover, AheadOf
  <2> QED
    BY <2>1, <2>2, <2>3
<1>7. job.at = "fetch" => \A s \in Status : Good(Finish(j, s), local)
  BY <1>2, <1>5, <1>6, FinishGood
<1>8. CASE Canceled
  BY <1>4, <1>8, Words, StepGood DEF Canceled
<1>9. CASE TraceFails
  BY <1>4, <1>9, Words, StepGood DEF TraceFails
<1>10. CASE GraphChanged
  BY <1>4, <1>10, Words, StepGood DEF GraphChanged
<1>11. CASE TraceRejected
  <2>1. Good(Reject(job), local)
    BY <1>2, RejectGood
  <2> QED
    BY <1>11, <2>1, StepGood DEF TraceRejected
<1>12. CASE FetchRejected
  <2>1. Good(Reject(j), local)
    BY <1>2, <1>5, <1>6, <1>12, RejectGood DEF FetchRejected
  <2> QED
    BY <1>12, <2>1, StepGood DEF FetchRejected, j
<1>13. CASE FetchRoute
  <2> DEFINE k == [j EXCEPT !.at = "trace", !.routedOn = Source]
  <2>1. job.at = "fetch" /\ Step(k)
    BY <1>13 DEF FetchRoute, j
  <2>2. Source \in Scope
    BY Bounds DEF TypeInv, TypeOK, Source, Scope, Public
  <2>3. k \in Job
    <3> DEFINE s == Source
    <3>1. s \in Scope
      BY <2>2
    <3> HIDE DEF s
    <3>2. [j EXCEPT !.at = "trace", !.routedOn = s] \in Job
      BY <1>5, <3>1, JobIs, Words
    <3> QED
      BY <3>2 DEF s
  <2>4. Same(j, k)
    BY <1>5, JobIs DEF Same, SameRoutes, SameCover, SameCount
  <2>5. /\ k.at = "trace" /\ k.after = j.after /\ k.status = j.status /\ k.ahead = j.ahead
        /\ k.candidate = j.candidate /\ k.call = j.call
    BY <1>5, JobIs
  <2> HIDE DEF k
  <2>6. StageOf(k, local)
    BY <1>2, <1>5, <2>1, <1>6, <2>4, <2>5
       DEF StageOf, Searching, Same, SameRoutes, SameCover
  <2>7. RequestOf(k, local)
    <3>1. k.attempts <= k.budget /\ k.after # "request" /\ k.at # "fetch" /\ k.call \in 1 .. MaxCalls
      BY <1>2, <1>5, <1>6, <2>1, <2>4, <2>5 DEF Same, SameRoutes, SameCount
    <3>2. local => k.without + 1 <= AttemptsNoGain + k.call /\ k.without <= AttemptLimit
      <4>1. k.without = job.without + 1 /\ k.call = job.call
        BY <1>5, <2>4, <2>5 DEF Same, SameCount
      <4>2. local => k.without <= AttemptLimit
        BY <1>6, <2>1, <2>4 DEF Same, SameCount
      <4> QED
        BY <1>2, <2>1, <4>1, <4>2, Bounds, JobFields
    <3> QED
      BY <3>1, <3>2 DEF RequestOf
  <2>8. CandidateOf(k)
    BY <1>2, <1>5, <2>4, <2>5 DEF CandidateOf, AheadOf, Same, SameRoutes
  <2> QED
    BY <2>1, <2>3, <2>6, <2>7, <2>8, StepGood DEF Good
<1>14. CASE FetchForbidden
  <2>1. job.at = "fetch" /\ "blocked" \in Status
    BY <1>14, Words DEF FetchForbidden
  <2>2. PICK n \in {0, 1} : Step(Finish(Counted(job, n), "blocked"))
    BY <1>14 DEF FetchForbidden
  <2>3. CASE n = 1
    BY <1>7, <2>1, <2>2, <2>3, StepGood DEF j
  <2>4. CASE n = 0
    <3> DEFINE i == Counted(job, 0)
    <3>1. /\ i \in Job /\ SameRoutes(job, i) /\ i.ahead = job.ahead
          /\ i.attempts = job.attempts + 0 /\ i.without = job.without + 0
      BY <1>2, CountedIs
    <3> HIDE DEF i
    <3>2. i.attempts = job.attempts /\ i.without = job.without
      BY <1>2, <3>1, JobFields
    <3>3. /\ i.attempts <= i.budget /\ i.round <= MaxRounds /\ AheadOf(i)
          /\ local => i.without <= AttemptLimit
      BY <1>2, <1>3, <3>1, <3>2 DEF SameRoutes, AheadOf
    <3>4. Good(Finish(i, "blocked"), local)
      BY <1>2, <2>1, <3>1, <3>3, FinishGood
    <3> QED
      BY <2>2, <2>4, <3>4, StepGood DEF i
  <2> QED
    BY <2>2, <2>3, <2>4
<1>15. CASE FetchFails
  <2>1. job.at = "fetch" /\ {"blocked", "request-limit"} \subseteq Status
    BY <1>15, Words DEF FetchFails
  <2>2. CASE ~local \/ job.call >= MaxCalls
    <3>1. Step(Finish(j, "blocked"))
      BY <1>15, <2>2 DEF FetchFails, j
    <3> QED
      BY <1>7, <2>1, <3>1, StepGood
  <2>3. CASE ~(~local \/ job.call >= MaxCalls) /\ j.attempts >= j.budget
    <3>1. Step(Finish(j, "request-limit"))
      BY <1>15, <2>3 DEF FetchFails, j
    <3> QED
      BY <1>7, <2>1, <3>1, StepGood
  <2>4. CASE ~(~local \/ job.call >= MaxCalls) /\ ~(j.attempts >= j.budget)
    <3> DEFINE k == [j EXCEPT !.call = @ + 1]
    <3>1. Step(k)
      BY <1>15, <2>4 DEF FetchFails, j
    <3>2. j.call + 1 \in Nat
      BY <1>5, JobFields
    <3>3. k \in Job
      <4> DEFINE n == j.call + 1
      <4>1. n \in Nat
        BY <3>2
      <4> HIDE DEF n
      <4>2. [j EXCEPT !.call = n] \in Job
        BY <1>5, <4>1, JobIs
      <4> QED
        BY <4>2 DEF n
    <3>4. Same(j, k)
      BY <1>5, JobIs DEF Same, SameRoutes, SameCover, SameCount
    <3>5. /\ k.at = j.at /\ k.after = j.after /\ k.status = j.status /\ k.ahead = j.ahead
          /\ k.candidate = j.candidate /\ k.call = j.call + 1
      BY <1>5, JobIs
    <3> HIDE DEF k
    <3>6. StageOf(k, local)
      BY <1>2, <1>5, <1>6, <2>1, <3>4, <3>5
         DEF StageOf, Searching, Same, SameRoutes, SameCover
    <3>7. RequestOf(k, local)
      <4>1. /\ k.call = job.call + 1 /\ k.without = job.without + 1
            /\ k.attempts = j.attempts /\ k.budget = j.budget
        BY <1>5, <3>4, <3>5 DEF Same, SameRoutes, SameCount
      <4>2. k.call \in 1 .. MaxCalls /\ k.attempts < k.budget
        BY <1>2, <1>5, <2>4, <4>1, Bounds, JobFields
      <4>3. local => k.without + 2 <= AttemptsNoGain + k.call /\ k.without <= AttemptLimit
        BY <1>2, <2>1, <4>1, <4>2, Bounds, JobFields
      <4>4. k.at = "fetch" /\ k.after = "finish" /\ k.attempts <= k.budget
        BY <1>2, <1>5, <1>6, <2>1, <3>5, <4>1
      <4> QED
        BY <4>2, <4>3, <4>4 DEF RequestOf
    <3>8. CandidateOf(k)
      BY <1>2, <1>5, <2>1, <3>4, <3>5 DEF CandidateOf, AheadOf, Same, SameRoutes
    <3> QED
      BY <3>1, <3>3, <3>6, <3>7, <3>8, StepGood DEF Good
  <2> QED
    BY <2>2, <2>3, <2>4
<1> QED
  BY <1>8, <1>9, <1>10, <1>11, <1>12, <1>13, <1>14, <1>15

\* Two jobs that differ in nothing the invariant reads.
LEMMA SameGood ==
    ASSUME NEW l \in BOOLEAN, NEW j, Good(j, l), NEW k \in Job, Same(j, k),
           k.at = j.at, k.after = j.after, k.status = j.status, k.ahead = j.ahead,
           k.candidate = j.candidate, k.call = j.call
    PROVE  Good(k, l)
<1>1. j \in Job /\ StageOf(j, l) /\ RequestOf(j, l) /\ CandidateOf(j)
  BY DEF Good
<1>2. StageOf(k, l)
  BY <1>1 DEF StageOf, Searching, Same, SameRoutes, SameCover
<1>3. RequestOf(k, l)
  BY <1>1 DEF RequestOf, Left, Same, SameRoutes, SameCount
<1>4. CandidateOf(k)
  BY <1>1 DEF CandidateOf, AheadOf, Same, SameRoutes
<1> QED
  BY <1>2, <1>3, <1>4 DEF Good

\* Routes that are taken in.
LEMMA RouteSteps ==
    ASSUME TypeInv,
           \/ \E n \in 0 .. MaxRoutes : Overfull(n)
           \/ \E n \in 1 .. MaxRoutes, aged \in BOOLEAN : Accept(n, aged)
    PROVE  TypeInv'
<1>1. job.at = "trace"
  BY DEF Overfull, Accept
<1>2. /\ job \in Job /\ local \in BOOLEAN
      /\ job.after = "finish" /\ ~job.changed /\ AheadOf(job)
      /\ job.status = "incomplete" /\ job.round < MaxRounds /\ job.attempts <= job.budget
      /\ job.candidate \in Candidates
      /\ job.candidate \notin job.attempted \cup job.accepted \cup job.ahead
      /\ local => job.without <= AttemptLimit
  BY <1>1, InRequest
<1>3. job.round <= MaxRounds
  BY <1>2, Bounds, JobFields
<1>4. ASSUME NEW n \in 0 .. MaxRoutes, Overfull(n) PROVE TypeInv'
  <2> DEFINE j == With(job, n)
  <2>1. Step(Finish(j, "geometry-limit")) /\ n < Room(job) /\ n \in Nat
    BY <1>4, Bounds DEF Overfull
  <2>2. n <= Room(job)
    <3>1. job.kept[job.candidate] \in 0 .. MaxRoutes
      BY <1>2, JobFields DEF Catalogue
    <3> QED
      BY <2>1, <3>1, Bounds DEF Room
  <2>3. /\ j \in Job /\ SameCount(job, j) /\ j.budget = job.budget /\ j.round = job.round
        /\ j.ahead = job.ahead /\ j.accepted = job.accepted
    BY <1>2, <2>1, <2>2, WithIs
  <2> HIDE DEF j
  <2>4. Good(Finish(j, "geometry-limit"), local)
    <3>1. /\ j.attempts <= j.budget /\ j.round <= MaxRounds /\ AheadOf(j)
          /\ local => j.without <= AttemptLimit
      BY <1>2, <1>3, <2>3 DEF SameCount, AheadOf
    <3>2. "geometry-limit" \in Status
      BY Words
    <3> QED
      BY <1>2, <2>3, <3>1, <3>2, FinishGood
  <2> QED
    BY <2>1, <2>4, StepGood
<1>5. ASSUME NEW n \in 1 .. MaxRoutes, NEW aged \in BOOLEAN, Accept(n, aged) PROVE TypeInv'
  <2> DEFINE j == Accepted(job, n)
  <2>1. /\ Step(Flush(j, "evaluate")) \/ Step(Evaluate(j))
        /\ n <= Room(job) /\ n \in Nat
    <3>1. Step(Flush(j, "evaluate")) \/ Step(Evaluate(j))
      BY <1>5 DEF Accept, Accepted
    <3>2. n <= Room(job)
      BY <1>5 DEF Accept
    <3> QED
      BY <3>1, <3>2, Bounds
  <2>2. /\ j \in Job /\ SameCover(job, j)
        /\ j.budget = job.budget
        /\ j.accepted = job.accepted \cup {job.candidate}
        /\ j.round = job.round
        /\ j.attempts = job.attempts /\ j.without = 0
        /\ j.after = job.after /\ j.status = job.status
        /\ j.ahead = job.ahead
    BY <1>2, <2>1, AcceptedIs
  <2> HIDE DEF j
  <2>3. AheadOf(j)
    <3>1. RoundOf(job.candidate) = job.round /\ job.round \in Nat
      BY <1>1, <1>2, InRequest, JobFields
    <3> QED
      BY <1>2, <2>2, <3>1 DEF AheadOf
  <2>4. /\ j.attempts <= j.budget /\ j.without <= AttemptLimit /\ j.round < MaxRounds
        /\ j.after = "finish" /\ ~j.changed /\ j.status = "incomplete"
    BY <1>2, <2>2, Bounds DEF SameCover
  <2>5. Good(Flush(j, "evaluate"), local)
    BY <1>2, <2>2, <2>3, <2>4, FlushGood
  <2>6. Good(Evaluate(j), local)
    BY <1>2, <2>2, <2>3, <2>4, EvaluateGood
  <2> QED
    BY <2>1, <2>5, <2>6, StepGood
<1> QED
  BY <1>4, <1>5

\* The job at the moment its state has been saved.
Journaled ==
    LET j == [job EXCEPT !.rejected = 0, !.unsaved = 0]
    IN  IF local THEN [j EXCEPT !.stale = TRUE] ELSE Assessed(j)

\* Saving the state of the job after its packs.
LEMMA JournaledIs ==
    ASSUME job \in Job, local \in BOOLEAN, NEW k, k = Journaled
    PROVE  /\ k \in Job /\ SameCount(job, k) /\ k.changed = job.changed
           /\ k.scope = job.scope /\ k.budget = job.budget /\ k.milestone = job.milestone
           /\ k.kept = job.kept /\ k.attempted = job.attempted /\ k.accepted = job.accepted
           /\ k.unsaved = 0 /\ k.round = job.round
           /\ k.at = job.at /\ k.after = job.after /\ k.status = job.status
           /\ k.ahead = job.ahead /\ k.candidate = job.candidate
           /\ local => k.stale /\ k.covered = job.covered
           /\ ~local => ~k.stale /\ (k.covered <=> Supports(Saved))
<1> DEFINE j == [job EXCEPT !.rejected = 0, !.unsaved = 0]
<1>1. j \in Job
  BY JobIs
<1>2. /\ SameCount(job, j) /\ j.changed = job.changed /\ j.covered = job.covered
      /\ j.scope = job.scope /\ j.budget = job.budget /\ j.milestone = job.milestone
      /\ j.kept = job.kept /\ j.attempted = job.attempted /\ j.accepted = job.accepted
      /\ j.unsaved = 0 /\ j.round = job.round
      /\ j.at = job.at /\ j.after = job.after /\ j.status = job.status
      /\ j.ahead = job.ahead /\ j.candidate = job.candidate
  BY JobIs DEF SameCount
<1>3. k = IF local THEN [j EXCEPT !.stale = TRUE] ELSE Assessed(j)
  BY DEF Journaled
<1> HIDE DEF j
<1>4. CASE local
  <2>1. k = [j EXCEPT !.stale = TRUE]
    BY <1>3, <1>4
  <2>2. k \in Job
    <3>1. [j EXCEPT !.stale = TRUE] \in Job
      BY <1>1, JobIs
    <3> QED
      BY <2>1, <3>1
  <2>3. /\ k.stale = TRUE
        /\ k.at = j.at /\ k.after = j.after /\ k.status = j.status
        /\ k.ahead = j.ahead /\ k.candidate = j.candidate
    BY <1>1, <2>1, JobIs
  <2>4. SameRoutes(j, k) /\ SameCount(j, k) /\ k.changed = j.changed /\ k.covered = j.covered
    BY <1>1, <2>1, JobIs DEF SameRoutes, SameCount
  <2> QED
    BY <1>2, <1>4, <2>2, <2>3, <2>4 DEF SameRoutes, SameCount
<1>5. CASE ~local
  <2>1. k = Assessed(j)
    BY <1>3, <1>5
  <2>2. /\ k \in Job /\ SameRoutes(j, k) /\ SameCount(j, k)
        /\ k.changed = j.changed /\ ~k.stale /\ (k.covered <=> Supports(Saved))
        /\ k.at = j.at /\ k.after = j.after /\ k.status = j.status
        /\ k.ahead = j.ahead /\ k.candidate = j.candidate
    BY <1>1, <2>1, AssessedIs
  <2> QED
    BY <1>2, <1>5, <2>2 DEF SameRoutes, SameCount
<1> QED
  BY <1>4, <1>5

\* The candidates whose routes have been saved are done with.
Noted(j) == [j EXCEPT !.attempted = @ \cup j.accepted, !.accepted = {}, !.at = "journal"]

\* A flush that has written its packs.
LEMMA NotedIs ==
    ASSUME NEW j \in Job, NEW k, k = Noted(j)
    PROVE  /\ k \in Job /\ SameCover(j, k) /\ SameCount(j, k)
           /\ k.scope = j.scope /\ k.budget = j.budget /\ k.milestone = j.milestone
           /\ k.kept = j.kept /\ k.unsaved = j.unsaved /\ k.round = j.round
           /\ k.attempted = j.attempted \cup j.accepted /\ k.accepted = {}
           /\ k.at = "journal" /\ k.after = j.after /\ k.status = j.status
           /\ k.ahead = j.ahead /\ k.candidate = j.candidate
<1> DEFINE a == j.attempted \cup j.accepted
<1>1. a \in SomeCandidates
  BY JobFields DEF SomeCandidates
<1>2. k = [j EXCEPT !.attempted = a, !.accepted = {}, !.at = "journal"]
  BY DEF Noted
<1>3. k \in Job
  <2> HIDE DEF a
  <2>1. [j EXCEPT !.attempted = a, !.accepted = {}, !.at = "journal"] \in Job
    BY <1>1, JobIs, Words
  <2> QED
    BY <1>2, <2>1
<1>4. SameCover(j, k) /\ SameCount(j, k)
  BY <1>2, JobIs DEF SameCover, SameCount
<1>5. /\ k.scope = j.scope /\ k.budget = j.budget /\ k.milestone = j.milestone
      /\ k.kept = j.kept /\ k.unsaved = j.unsaved /\ k.round = j.round
      /\ k.attempted = a /\ k.accepted = {}
      /\ k.at = "journal" /\ k.after = j.after /\ k.status = j.status
      /\ k.ahead = j.ahead /\ k.candidate = j.candidate
  BY <1>2, JobIs
<1> QED
  BY <1>3, <1>4, <1>5

\* What an action may put into the job state and into a pack.
LEMMA PersistedIs ==
    ASSUME NEW j \in Job, j.round <= MaxRounds
    PROVE  /\ Persisted(j) \in Journal
           /\ Persisted(j).scope = j.scope /\ Persisted(j).attempted = j.attempted
           /\ Persisted(j).round = j.round /\ Persisted(j).without = j.without
<1>1. j.round \in 0 .. MaxRounds
  BY Bounds, JobFields
<1>2. Persisted(j) \in Journal
  BY <1>1, JobFields DEF Persisted, Journal
<1> QED
  BY <1>2 DEF Persisted

\* The routes on disk are a catalogue.
LEMMA SavedIs ==
    ASSUME packs \in Packs
    PROVE  Saved \in Catalogue
<1>1. packs.kept \in Catalogue
  BY DEF Packs
<1>2. NoRoutes \in Catalogue
  BY Bounds DEF NoRoutes, Catalogue
<1> QED
  BY <1>1, <1>2 DEF Saved

\* The steps that save.
LEMMA SaveSteps ==
    ASSUME TypeInv, (\E r \in Regions : WritePack(r)) \/ Flushed \/ SaveFlushed \/ SaveRejected
    PROVE  TypeInv'
<1>1. /\ job \in Job /\ local \in BOOLEAN /\ packs \in Packs /\ journal \in Journal
      /\ graph \in 1 .. MaxGraph /\ (local => journal.without <= AttemptLimit)
      /\ StageOf(job, local) /\ RequestOf(job, local) /\ CandidateOf(job) /\ Good(job, local)
  BY DEF TypeInv, TypeOK, Good
<1>2. job.round <= MaxRounds /\ (local => job.without <= AttemptLimit)
  BY <1>1 DEF StageOf, RequestOf
<1>3. ASSUME NEW r \in Regions, WritePack(r) PROVE TypeInv'
  <2> DEFINE k == [job EXCEPT !.changed = TRUE]
  <2>1. /\ job.at = "flush" /\ job' = k /\ local' = local /\ graph' = graph /\ journal' = journal
        /\ packs' = [scope |-> job.scope,
                     kept |-> [c \in Candidates |-> IF RegionOf(c) = r THEN job.kept[c] ELSE Saved[c]]]
    BY <1>3 DEF WritePack
  <2>2. packs' \in Packs
    <3>1. Saved \in Catalogue /\ job.kept \in Catalogue /\ job.scope \in Scope
      BY <1>1, SavedIs, JobFields
    <3> HIDE DEF k
    <3>2. [c \in Candidates |-> IF RegionOf(c) = r THEN job.kept[c] ELSE Saved[c]] \in Catalogue
      BY <3>1 DEF Catalogue
    <3> QED
      BY <2>1, <3>1, <3>2 DEF Packs
  <2>3. k \in Job
    BY <1>1, JobIs
  <2>4. /\ SameRoutes(job, k) /\ SameCount(job, k)
        /\ k.at = job.at /\ k.after = job.after /\ k.status = job.status /\ k.ahead = job.ahead
        /\ k.candidate = job.candidate /\ k.call = job.call
    BY <1>1, JobIs DEF SameRoutes, SameCount
  <2> HIDE DEF k
  <2>5. StageOf(k, local)
    BY <1>1, <2>1, <2>4 DEF StageOf, Searching, SameRoutes
  <2>6. RequestOf(k, local)
    BY <1>1, <2>4 DEF RequestOf, Left, SameRoutes, SameCount
  <2>7. CandidateOf(k)
    BY <1>1, <2>4 DEF CandidateOf, AheadOf, SameRoutes
  <2> QED
    BY <1>1, <2>1, <2>2, <2>3, <2>5, <2>6, <2>7 DEF TypeInv, TypeOK, Good
<1>4. CASE Flushed
  <2>1. job.at = "flush"
    BY <1>4 DEF Flushed
  <2>2. CASE job.changed
    <3> DEFINE k == Noted(job)
    <3>1. Step(k)
      BY <1>4, <2>2 DEF Flushed, Noted
    <3>2. /\ k \in Job /\ SameCover(job, k) /\ SameCount(job, k)
          /\ k.budget = job.budget
          /\ k.round = job.round
          /\ k.attempted = job.attempted \cup job.accepted /\ k.accepted = {}
          /\ k.at = "journal" /\ k.after = job.after /\ k.status = job.status
          /\ k.ahead = job.ahead
      BY <1>1, NotedIs
    <3> HIDE DEF k
    <3>3. StageOf(k, local)
      BY <1>1, <2>1, <3>2 DEF StageOf, Searching, SameCover
    <3>4. Left(k) = Left(job)
      BY <3>2 DEF Left
    <3>5. RequestOf(k, local)
      BY <1>1, <2>1, <3>2, <3>4 DEF RequestOf, SameCount
    <3>6. CandidateOf(k)
      BY <1>1, <3>2 DEF CandidateOf, AheadOf
    <3> QED
      BY <3>1, <3>2, <3>3, <3>5, <3>6, StepGood DEF Good
  <2>3. CASE ~job.changed
    <3>1. Step(AfterFlush(job))
      BY <1>4, <2>3 DEF Flushed
    <3>2. Good(AfterFlush(job), local)
      BY <1>1, <2>1, AfterFlushGood
    <3> QED
      BY <3>1, <3>2, StepGood
  <2> QED
    BY <2>2, <2>3
<1>5. CASE SaveFlushed
  <2> DEFINE f == Journaled
  <2>1. /\ job.at = "journal" /\ journal' = Persisted(job) /\ job' = AfterFlush(f)
        /\ local' = local /\ graph' = graph /\ packs' = packs
    BY <1>5 DEF SaveFlushed, Journaled
  <2>2. /\ f \in Job /\ SameCount(job, f) /\ f.changed = job.changed
        /\ f.budget = job.budget
        /\ f.attempted = job.attempted /\ f.accepted = job.accepted
        /\ f.round = job.round
        /\ f.at = job.at /\ f.after = job.after /\ f.status = job.status
        /\ f.ahead = job.ahead
    BY <1>1, JournaledIs
  <2> HIDE DEF f
  <2>3. StageOf(f, local)
    BY <1>1, <2>2 DEF StageOf, Searching
  <2>4. RequestOf(f, local)
    BY <1>1, <2>1, <2>2 DEF RequestOf, Left, SameCount
  <2>5. CandidateOf(f)
    BY <1>1, <2>1, <2>2 DEF CandidateOf, AheadOf
  <2>6. Good(AfterFlush(f), local)
    BY <1>1, <2>1, <2>2, <2>3, <2>4, <2>5, AfterFlushGood DEF Good
  <2>7. journal' \in Journal /\ (local => journal'.without <= AttemptLimit)
    BY <1>1, <1>2, <2>1, PersistedIs
  <2> QED
    BY <1>1, <2>1, <2>6, <2>7 DEF TypeInv, TypeOK, Good
<1>6. CASE SaveRejected
  <2> DEFINE k == [job EXCEPT !.rejected = 0, !.at = "loop"]
  <2>1. /\ job.at = "reject" /\ journal' = Persisted(job) /\ job' = k
        /\ local' = local /\ graph' = graph /\ packs' = packs
    BY <1>6 DEF SaveRejected
  <2>2. k \in Job
    BY <1>1, JobIs, Words
  <2>3. /\ Same(job, k)
        /\ k.at = "loop" /\ k.after = job.after /\ k.status = job.status
        /\ k.ahead = job.ahead
    BY <1>1, JobIs DEF Same, SameRoutes, SameCover, SameCount
  <2> HIDE DEF k
  <2>4. StageOf(k, local)
    BY <1>1, <2>1, <2>3 DEF StageOf, Searching, Same, SameRoutes, SameCover
  <2>5. RequestOf(k, local)
    BY <1>1, <2>1, <2>3 DEF RequestOf, Left, Same, SameRoutes, SameCount
  <2>6. CandidateOf(k)
    BY <1>1, <2>3 DEF CandidateOf, AheadOf, Same, SameRoutes
  <2>7. journal' \in Journal /\ (local => journal'.without <= AttemptLimit)
    BY <1>1, <1>2, <2>1, PersistedIs
  <2> QED
    BY <1>1, <2>1, <2>2, <2>4, <2>5, <2>6, <2>7 DEF TypeInv, TypeOK, Good
<1> QED
  BY <1>3, <1>4, <1>5, <1>6

\* The job state and the routes from which an action starts.
Known == IF journal.scope = Source THEN journal ELSE Fresh(Source)
Found == IF packs.scope = Source THEN packs.kept ELSE NoRoutes
Started(budget, milestone) ==
    [Idle EXCEPT
        !.scope = Source, !.budget = budget, !.milestone = milestone,
        !.kept = Found, !.covered = Supports(Found),
        !.attempted = Known.attempted, !.round = Known.round,
        !.noGain = Known.noGain, !.without = Known.without, !.gained = Known.gained]

\* A job of no action.
LEMMA IdleIs ==
    /\ Idle \in Job /\ Idle.at = "idle" /\ Idle.after = "finish" /\ Idle.status = "incomplete"
    /\ ~Idle.changed /\ ~Idle.stale /\ Idle.accepted = {} /\ Idle.unsaved = 0 /\ Idle.round = 0
    /\ Idle.ahead = {} /\ Idle.candidate = None /\ Idle.attempts = 0 /\ Idle.without = 0
    /\ Idle.budget = 0
<1>1. NoRoutes \in Catalogue
  BY Bounds DEF NoRoutes, Catalogue
<1>2. Idle \in Job
  BY <1>1, JobIs, Words DEF Idle
<1> QED
  BY <1>2 DEF Idle

\* The job of an action that starts.
LEMMA StartedIs ==
    ASSUME TypeInv, NEW budget \in Nat, NEW milestone \in BOOLEAN,
           NEW k, k = Started(budget, milestone)
    PROVE  /\ k \in Job
           /\ k.scope = Source /\ k.budget = budget /\ k.milestone = milestone
           /\ k.kept = Found /\ (k.covered <=> Supports(Found))
           /\ k.attempted = Known.attempted /\ k.round = Known.round /\ k.without = Known.without
           /\ k.at = "idle" /\ k.after = "finish" /\ k.status = "incomplete"
           /\ ~k.changed /\ ~k.stale /\ k.accepted = {} /\ k.unsaved = 0
           /\ k.ahead = {} /\ k.candidate = None /\ k.attempts = 0
           /\ k.round <= MaxRounds /\ (local => k.without <= AttemptLimit)
<1> DEFINE b == Supports(Found)
           n == Known
           f == Found
           s == Source
<1>1. b \in BOOLEAN
  BY DEF Supports
<1>2. /\ packs \in Packs /\ journal \in Journal /\ local \in BOOLEAN /\ graph \in 1 .. MaxGraph
      /\ local => journal.without <= AttemptLimit
  BY DEF TypeInv, TypeOK
<1>3. s \in Scope
  BY <1>2, Bounds DEF Source, Scope, Public
<1>4. f \in Catalogue
  <2>1. packs.kept \in Catalogue
    BY <1>2 DEF Packs
  <2>2. NoRoutes \in Catalogue
    BY Bounds DEF NoRoutes, Catalogue
  <2> QED
    BY <2>1, <2>2 DEF Found
<1>5. Fresh(s) \in Journal /\ Fresh(s).without = 0
  BY <1>3, Words, Bounds DEF Fresh, Journal, Gains
<1>6. n \in Journal /\ (local => n.without <= AttemptLimit)
  BY <1>2, <1>5, Bounds DEF Known
<1>7. k = [Idle EXCEPT
            !.scope = s, !.budget = budget, !.milestone = milestone,
            !.kept = f, !.covered = b,
            !.attempted = n.attempted, !.round = n.round,
            !.noGain = n.noGain, !.without = n.without, !.gained = n.gained]
  BY DEF Started
<1>8. b <=> Supports(Found)
  OBVIOUS
<1> HIDE DEF b, n, f, s
<1>9. /\ n.attempted \in SomeCandidates /\ n.round \in Nat /\ n.round <= MaxRounds
      /\ n.noGain \in Gains /\ n.without \in Nat /\ n.gained \in BOOLEAN
  BY <1>6, Bounds DEF Journal, SomeCandidates, Gains
<1>10. k \in Job
  <2> DEFINE v1 == n.attempted
             v2 == n.round
             v3 == n.noGain
             v4 == n.without
             v5 == n.gained
  <2>1. /\ v1 \in SomeCandidates /\ v2 \in Nat
        /\ v3 \in Gains /\ v4 \in Nat /\ v5 \in BOOLEAN
    BY <1>9
  <2> DEFINE h == [Idle EXCEPT !.scope = s, !.budget = budget, !.milestone = milestone,
                               !.kept = f, !.covered = b]
  <2>2. k = [h EXCEPT !.attempted = v1, !.round = v2, !.noGain = v3, !.without = v4, !.gained = v5]
    BY <1>7
  <2>3. h \in Job
    BY <1>1, <1>3, <1>4, IdleIs, JobIs, ZenonT(60)
  <2> HIDE DEF v1, v2, v3, v4, v5, h
  <2>4. [h EXCEPT !.attempted = v1, !.round = v2, !.noGain = v3, !.without = v4, !.gained = v5] \in Job
    BY <2>1, <2>3, JobIs
  <2> QED
    BY <2>2, <2>4
<1>11. /\ k.scope = s /\ k.budget = budget /\ k.milestone = milestone
       /\ k.kept = f /\ k.covered = b
       /\ k.attempted = n.attempted /\ k.round = n.round /\ k.without = n.without
  BY <1>7, IdleIs, JobIs
<1>12. /\ k.at = "idle" /\ k.after = "finish" /\ k.status = "incomplete"
       /\ k.changed = Idle.changed /\ k.stale = Idle.stale /\ k.accepted = {} /\ k.unsaved = 0
       /\ k.ahead = {} /\ k.candidate = None /\ k.attempts = 0
  BY <1>7, IdleIs, JobIs
<1>13. k.covered <=> Supports(Found)
  BY <1>1, <1>8, <1>11
<1>14. k.round <= MaxRounds /\ (local => k.without <= AttemptLimit)
  BY <1>6, <1>9, <1>11
<1> QED
  BY <1>10, <1>11, <1>12, <1>13, <1>14, IdleIs DEF n, f, s

\* How an action starts: it knows its result, or it takes up a round.
LEMMA BeginIs ==
    ASSUME NEW budget, NEW milestone, NEW proposed, Begin(budget, milestone, proposed),
           NEW k, k = Started(budget, milestone)
    PROVE  /\ ~Busy /\ UNCHANGED <<local, graph, packs, journal>> /\ (milestone => local)
           /\ \/ \E s \in {"ready", "usable", "search-stalled", "incomplete", "candidates-exhausted"} :
                    /\ job' = Finish(k, s)
                    /\ s = "ready" => Complete(k)
                    /\ s = "usable" => milestone /\ Count(Found) >= MinUsable /\ Supports(Found)
              \/ /\ ~(k.round >= RoundLimit) /\ proposed \in Proposed(k.round)
                 /\ job' = LoadRound([k EXCEPT !.at = "loop"], proposed)
<1> DEFINE usable == milestone /\ Count(Found) >= MinUsable /\ Supports(Found)
           status == CASE Complete(k) -> "ready"
                       [] ~Complete(k) /\ usable -> "usable"
                       [] OTHER -> IF local /\ k.noGain >= RoundsNoGain
                                   THEN "search-stalled" ELSE "incomplete"
<1>1. /\ ~Busy
      /\ milestone => local
      /\ IF status # "incomplete" \/ budget = 0
         THEN proposed = {} /\ job' = Finish(k, status)
         ELSE IF k.round >= RoundLimit
         THEN proposed = {} /\ job' = Finish(k, "candidates-exhausted")
         ELSE proposed \in Proposed(k.round)
              /\ job' = LoadRound([k EXCEPT !.at = "loop"], proposed)
      /\ UNCHANGED <<local, graph, packs, journal>>
  BY DEF Begin, Started, Known, Found
<1>2. /\ status \in {"ready", "usable", "search-stalled", "incomplete"}
      /\ status = "ready" => Complete(k)
      /\ status = "usable" => usable
  OBVIOUS
<1>3. status = "usable" => milestone /\ Count(Found) >= MinUsable /\ Supports(Found)
  BY <1>2
<1> HIDE DEF status
<1>4. CASE status # "incomplete" \/ budget = 0
  BY <1>1, <1>2, <1>3, <1>4
<1>5. CASE ~(status # "incomplete" \/ budget = 0) /\ k.round >= RoundLimit
  BY <1>1, <1>5
<1>6. CASE ~(status # "incomplete" \/ budget = 0) /\ ~(k.round >= RoundLimit)
  <2>1. proposed \in Proposed(k.round) /\ job' = LoadRound([k EXCEPT !.at = "loop"], proposed)
    BY <1>1, <1>6
  <2> QED
    BY <1>1, <1>6, <2>1
<1> QED
  BY <1>4, <1>5, <1>6

\* An action starts with a job that is good.
LEMMA BeginStep ==
    ASSUME TypeInv, NEW budget \in Budgets, NEW milestone \in BOOLEAN,
           NEW proposed \in SUBSET Candidates, Begin(budget, milestone, proposed)
    PROVE  TypeInv'
<1> DEFINE n == Started(budget, milestone)
<1>1. budget \in Nat
  BY CountsAssumption
<1>2. /\ n \in Job /\ n.budget = budget /\ n.accepted = {}
      /\ n.at = "idle" /\ n.after = "finish" /\ n.status = "incomplete" /\ ~n.changed
      /\ n.ahead = {} /\ n.candidate = None /\ n.attempts = 0
      /\ n.round <= MaxRounds /\ (local => n.without <= AttemptLimit)
  BY <1>1, StartedIs
<1>3. /\ UNCHANGED <<local, graph, packs, journal>>
      /\ \/ \E s \in {"ready", "usable", "search-stalled", "incomplete", "candidates-exhausted"} :
                    job' = Finish(n, s)
         \/ /\ ~(n.round >= RoundLimit) /\ proposed \in Proposed(n.round)
            /\ job' = LoadRound([n EXCEPT !.at = "loop"], proposed)
  BY BeginIs
<1> HIDE DEF n
<1>4. local \in BOOLEAN
  BY DEF TypeInv, TypeOK
<1>5. ASSUME NEW k, Good(k, local), job' = k PROVE TypeInv'
  BY <1>3, <1>5, StepGood DEF Step
<1>6. ASSUME NEW s \in {"ready", "usable", "search-stalled", "incomplete", "candidates-exhausted"}
      PROVE  Good(Finish(n, s), local)
  <2>1. s \in Status
    BY Words
  <2>2. n.attempts <= n.budget /\ AheadOf(n)
    BY <1>1, <1>2 DEF AheadOf
  <2> QED
    BY <1>2, <1>4, <2>1, <2>2, FinishGood
<1>7. ASSUME ~(n.round >= RoundLimit), proposed \in Proposed(n.round)
      PROVE  Good(LoadRound([n EXCEPT !.at = "loop"], proposed), local)
  <2> DEFINE j == [n EXCEPT !.at = "loop"]
             k == LoadRound(j, proposed)
  <2>1. j \in Job /\ Same(n, j)
    BY <1>2, JobIs, Words DEF Same, SameRoutes, SameCover, SameCount
  <2>2. j.at = "loop" /\ j.after = n.after /\ j.status = n.status /\ j.candidate = n.candidate
    BY <1>2, JobIs
  <2> HIDE DEF j
  <2>3. /\ k \in Job /\ Same(j, k)
        /\ k.at = j.at /\ k.after = j.after /\ k.status = j.status
        /\ k.candidate = j.candidate /\ k.ahead = proposed
    BY <2>1, LoadRoundIs
  <2> HIDE DEF k
  <2>4. Same(n, k)
    BY <2>1, <2>3 DEF Same, SameRoutes, SameCover, SameCount
  <2>5. n.round < MaxRounds
    BY <1>2, <1>7, Bounds, JobFields DEF RoundLimit
  <2>6. StageOf(k, local)
    BY <1>2, <2>2, <2>3, <2>4, <2>5 DEF StageOf, Searching, Same, SameRoutes, SameCover
  <2>7. RequestOf(k, local)
    BY <1>1, <1>2, <2>2, <2>3, <2>4 DEF RequestOf, Same, SameRoutes, SameCount
  <2>8. CandidateOf(k)
    BY <1>2, <1>7, <2>2, <2>3, <2>4 DEF CandidateOf, AheadOf, Proposed, Same, SameRoutes
  <2> QED
    BY <2>3, <2>6, <2>7, <2>8 DEF Good, k, j
<1> QED
  BY <1>3, <1>5, <1>6, <1>7

\* The next round, when there is one.
LEMMA NextRoundStep ==
    ASSUME TypeInv, NEW proposed \in SUBSET Candidates, NextRound(proposed)
    PROVE  TypeInv'
<1> DEFINE j == [job EXCEPT !.rejected = 0, !.at = "loop"]
           over == j.round >= MaxRounds \/ j.empty >= EmptyRounds
           status == IF over THEN "candidates-exhausted"
                     ELSE IF j.noGain >= RoundsNoGain THEN "search-stalled" ELSE j.status
<1>1. /\ job \in Job /\ local \in BOOLEAN /\ packs \in Packs /\ journal \in Journal
      /\ graph \in 1 .. MaxGraph
      /\ StageOf(job, local) /\ RequestOf(job, local) /\ CandidateOf(job)
  BY DEF TypeInv, TypeOK, Good
<1>2. job.round <= MaxRounds /\ (local => job.without <= AttemptLimit)
  BY <1>1 DEF StageOf, RequestOf
<1>3. /\ job.at = "advance" /\ journal' = Persisted(job)
      /\ local' = local /\ graph' = graph /\ packs' = packs
      /\ IF status = "incomplete" /\ j.attempts < j.budget
         THEN proposed \in Proposed(j.round) /\ job' = LoadRound(j, proposed)
         ELSE proposed = {} /\ job' = [j EXCEPT !.status = status]
  BY DEF NextRound
<1>4. j \in Job
  BY <1>1, JobIs, Words
<1>5. /\ Same(job, j)
      /\ j.at = "loop" /\ j.after = job.after /\ j.status = job.status /\ j.ahead = job.ahead
  BY <1>1, JobIs DEF Same, SameRoutes, SameCover, SameCount
<1> HIDE DEF j
<1>6. j.status = "incomplete" /\ j.after = "finish" /\ ~j.changed /\ j.round <= MaxRounds
  BY <1>1, <1>3, <1>5 DEF StageOf, Same, SameRoutes, SameCover
<1>7. status = "incomplete" => j.round < MaxRounds
  BY <1>4, Bounds, JobFields
<1>8. status \in {"incomplete", "candidates-exhausted", "search-stalled"}
  BY <1>6
<1> HIDE DEF status
<1>9. journal' \in Journal /\ (local => journal'.without <= AttemptLimit)
  BY <1>1, <1>2, <1>3, PersistedIs
<1>10. ASSUME NEW k \in Job, Same(j, k), k.at = j.at, k.after = j.after, k.status = status,
              AheadOf(k), job' = k
       PROVE  TypeInv'
  <2>1. StageOf(k, local)
    BY <1>5, <1>6, <1>7, <1>8, <1>10 DEF StageOf, Searching, Same, SameRoutes, SameCover
  <2>2. RequestOf(k, local)
    BY <1>1, <1>2, <1>5, <1>6, <1>10 DEF RequestOf, Same, SameRoutes, SameCount
  <2>3. CandidateOf(k)
    BY <1>5, <1>10 DEF CandidateOf
  <2> QED
    BY <1>1, <1>3, <1>9, <1>10, <2>1, <2>2, <2>3 DEF TypeInv, TypeOK, Good
<1>11. CASE status = "incomplete" /\ j.attempts < j.budget
  <2> DEFINE k == LoadRound(j, proposed)
  <2>1. proposed \in Proposed(j.round) /\ job' = k
    BY <1>3, <1>11
  <2>2. /\ k \in Job /\ Same(j, k)
        /\ k.at = j.at /\ k.after = j.after /\ k.status = j.status /\ k.ahead = proposed
    BY <1>4, LoadRoundIs
  <2> HIDE DEF k
  <2>3. /\ \A c \in j.accepted : RoundOf(c) <= j.round /\ RoundOf(c) # j.round
        /\ \A c \in proposed : RoundOf(c) = j.round
    <3>1. \A c \in job.accepted : RoundOf(c) < job.round /\ RoundOf(c) \in Nat
      BY <1>1, <1>3, JobFields, RoundIs DEF CandidateOf
    <3>2. j.accepted = job.accepted /\ j.round = job.round /\ job.round \in Nat
      BY <1>1, <1>5, JobFields DEF Same, SameRoutes
    <3>3. \A c \in proposed : RoundOf(c) = j.round
      BY <2>1 DEF Proposed
    <3> QED
      BY <3>1, <3>2, <3>3
  <2>4. AheadOf(k)
    BY <2>2, <2>3 DEF AheadOf, Same, SameRoutes
  <2> QED
    BY <1>6, <1>10, <1>11, <2>1, <2>2, <2>4
<1>12. CASE ~(status = "incomplete" /\ j.attempts < j.budget)
  <2> DEFINE k == [j EXCEPT !.status = status]
  <2>1. job' = k
    BY <1>3, <1>12
  <2>2. status \in Status
    BY <1>8, Words
  <2>3. k \in Job
    BY <1>4, <2>2, JobIs
  <2>4. Same(j, k) /\ k.at = j.at /\ k.after = j.after /\ k.status = status /\ k.ahead = j.ahead
    BY <1>4, JobIs DEF Same, SameRoutes, SameCover, SameCount
  <2> HIDE DEF k
  <2>5. AheadOf(k)
    BY <1>1, <1>5, <2>4 DEF CandidateOf, AheadOf, Same, SameRoutes
  <2> QED
    BY <1>10, <2>1, <2>3, <2>4, <2>5
<1> QED
  BY <1>11, <1>12

\* What is left of an action when it returns.
Returned(j, status) ==
    [Idle EXCEPT !.at = "done", !.status = status, !.scope = j.scope, !.milestone = j.milestone]

\* The result of an action.
LEMMA ReturnedIs ==
    ASSUME NEW j \in Job, NEW status \in Status, NEW k, k = Returned(j, status)
    PROVE  /\ k \in Job /\ k.at = "done" /\ k.status = status /\ k.scope = j.scope
           /\ k.milestone = j.milestone
           /\ k.after = "finish" /\ ~k.changed /\ k.accepted = {} /\ k.ahead = {} /\ k.round = 0
           /\ k.attempts = 0 /\ k.without = 0 /\ k.budget = 0
<1> DEFINE s == j.scope
           m == j.milestone
<1>1. s \in Scope /\ m \in BOOLEAN
  BY JobFields
<1>2. k = [Idle EXCEPT !.at = "done", !.status = status, !.scope = s, !.milestone = m]
  BY DEF Returned
<1> HIDE DEF s, m
<1>3. [Idle EXCEPT !.at = "done", !.status = status, !.scope = s, !.milestone = m] \in Job
  BY <1>1, IdleIs, JobIs, Words, ZenonT(60)
<1>4. k \in Job
  BY <1>2, <1>3
<1>5. /\ k.at = "done" /\ k.status = status /\ k.scope = s /\ k.milestone = m
      /\ k.after = Idle.after /\ k.changed = Idle.changed /\ k.accepted = Idle.accepted
      /\ k.ahead = Idle.ahead /\ k.round = Idle.round
      /\ k.attempts = Idle.attempts /\ k.without = Idle.without /\ k.budget = Idle.budget
  BY <1>2, IdleIs, JobIs
<1> QED
  BY <1>4, <1>5, IdleIs DEF s, m

\* A result is a status.
LEMMA ResultIs ==
    ASSUME NEW j \in Job
    PROVE  Result(j) \in Status
  BY JobFields, Words DEF Result

\* An action that is over.
LEMMA OverGood ==
    ASSUME NEW l \in BOOLEAN, NEW k \in Job, k.at \in {"idle", "done"},
           k.after = "finish", ~k.changed, k.accepted = {}, k.ahead = {}, k.round = 0,
           k.attempts = 0, k.without = 0, k.budget = 0
    PROVE  Good(k, l)
<1>1. StageOf(k, l)
  BY Bounds DEF StageOf, Searching
<1>2. RequestOf(k, l)
  BY Bounds DEF RequestOf
<1>3. CandidateOf(k)
  BY DEF CandidateOf, AheadOf
<1> QED
  BY <1>1, <1>2, <1>3 DEF Good

\* Every step keeps the types and what they rest on.
LEMMA TypeStep ==
    ASSUME TypeInv, [Next]_vars
    PROVE  TypeInv'
<1>1. /\ job \in Job /\ local \in BOOLEAN /\ packs \in Packs /\ journal \in Journal
      /\ graph \in 1 .. MaxGraph /\ (local => journal.without <= AttemptLimit)
      /\ StageOf(job, local) /\ RequestOf(job, local) /\ CandidateOf(job) /\ Good(job, local)
  BY DEF TypeInv, TypeOK, Good
<1>2. CASE UNCHANGED vars
  <2>1. job' = job /\ local' = local /\ packs' = packs /\ journal' = journal /\ graph' = graph
    BY <1>2 DEF vars
  <2> QED
    BY <1>1, <2>1 DEF TypeInv, TypeOK
<1>3. CASE \E budget \in Budgets, milestone \in BOOLEAN, proposed \in SUBSET Candidates :
             Begin(budget, milestone, proposed)
  BY <1>3, BeginStep
<1>4. CASE Work
  <2>1. CASE LoopEnds \/ LoopCanceled \/ RoundEnds \/ \E aged \in BOOLEAN : Request(aged)
    BY <2>1, LoopSteps
  <2>2. CASE \/ Canceled \/ FetchRoute \/ FetchRejected \/ FetchForbidden \/ FetchFails
             \/ TraceRejected \/ TraceFails \/ GraphChanged
    BY <2>2, AnswerSteps
  <2>3. CASE \/ \E n \in 0 .. MaxRoutes : Overfull(n)
             \/ \E n \in 1 .. MaxRoutes, aged \in BOOLEAN : Accept(n, aged)
    BY <2>3, RouteSteps
  <2>4. CASE (\E r \in Regions : WritePack(r)) \/ Flushed \/ SaveFlushed \/ SaveRejected
    BY <2>4, SaveSteps
  <2>5. CASE \E proposed \in SUBSET Candidates : NextRound(proposed)
    BY <2>5, NextRoundStep
  <2>6. CASE Return
    <3> DEFINE k == Returned(job, Result(job))
    <3>1. /\ job' = k /\ local' = local /\ graph' = graph /\ packs' = packs
          /\ journal' = Persisted(job) \/ journal' = journal
      BY <2>6 DEF Return, Returned
    <3>2. /\ k \in Job /\ k.at = "done"
          /\ k.after = "finish" /\ ~k.changed /\ k.accepted = {} /\ k.ahead = {} /\ k.round = 0
          /\ k.attempts = 0 /\ k.without = 0 /\ k.budget = 0
      <4>1. Result(job) \in Status
        BY <1>1, ResultIs
      <4> QED
        BY <1>1, <4>1, ReturnedIs
    <3> HIDE DEF k
    <3>3. Good(k, local)
      BY <1>1, <3>2, OverGood
    <3>4. job.round <= MaxRounds /\ (local => job.without <= AttemptLimit)
      BY <1>1 DEF StageOf, RequestOf
    <3>5. journal' \in Journal /\ (local => journal'.without <= AttemptLimit)
      BY <1>1, <3>1, <3>4, PersistedIs
    <3> QED
      BY <1>1, <3>1, <3>3, <3>5 DEF TypeInv, TypeOK, Good
  <2> QED
    BY <1>4, <2>1, <2>2, <2>3, <2>4, <2>5, <2>6 DEF Work
<1>5. CASE Cancel
  <2> DEFINE k == [job EXCEPT !.aborted = TRUE]
  <2>1. Step(k)
    BY <1>5 DEF Cancel
  <2>2. k \in Job
    BY <1>1, JobIs
  <2>3. /\ Same(job, k) /\ k.at = job.at /\ k.after = job.after /\ k.status = job.status
        /\ k.ahead = job.ahead /\ k.candidate = job.candidate /\ k.call = job.call
    BY <1>1, JobIs DEF Same, SameRoutes, SameCover, SameCount
  <2> HIDE DEF k
  <2>4. Good(k, local)
    BY <1>1, <2>2, <2>3, SameGood
  <2> QED
    BY <2>1, <2>4, StepGood
<1>6. CASE Crash
  <2>1. Good(Idle, local)
    BY <1>1, IdleIs, OverGood
  <2> QED
    BY <1>6, <2>1, StepGood DEF Crash
<1>7. CASE Rebuild
  <2>1. /\ job' = job /\ local' = local /\ packs' = packs /\ journal' = journal
        /\ graph' \in 1 .. MaxGraph
    BY <1>1, <1>7, Bounds DEF Rebuild
  <2> QED
    BY <1>1, <2>1 DEF TypeInv, TypeOK
<1> QED
  BY <1>2, <1>3, <1>4, <1>5, <1>6, <1>7 DEF Next

\* The farm is installed without packs and without a job state.
LEMMA TypeInit ==
    ASSUME Init
    PROVE  TypeInv
<1>1. packs \in Packs
  <2>1. NoRoutes \in Catalogue
    BY Bounds DEF NoRoutes, Catalogue
  <2> QED
    BY <2>1, Words DEF Init, Packs
<1>2. journal \in Journal /\ journal.without = 0
  BY Words, Bounds DEF Init, Fresh, Journal, Gains
<1>3. local \in BOOLEAN /\ graph \in 1 .. MaxGraph /\ job = Idle
  BY Bounds DEF Init
<1>4. Good(job, local)
  BY <1>3, IdleIs, OverGood
<1> QED
  BY <1>1, <1>2, <1>3, <1>4, Bounds DEF TypeInv, TypeOK, Good

\* The types of RoutePreparation hold in every state: counters stay within
\* their bounds, and what the job state says stays within what #loadJobState
\* takes, so that no state the program saves is thrown away by the next action.
THEOREM PreparationTypes == Spec => []TypeOK
<1>1. Spec => []TypeInv
  BY TypeInit, TypeStep, PTL DEF Spec
<1>2. TypeInv => TypeOK
  BY DEF TypeInv
<1> QED
  BY <1>1, <1>2, PTL

-----------------------------------------------------------------------------
(* The routes: what is on disk, in memory and in the job state             *)

\* The routes in memory are those on disk and those of the accepted
\* candidates, which no list and no earlier round holds.
KeptOf(j, s) ==
    /\ \A c \in Candidates :
        /\ s[c] <= j.kept[c]
        /\ s[c] < j.kept[c] =>
            /\ c \notin j.attempted /\ j.round <= RoundOf(c)
            /\ c \in j.accepted \/ j.status = "geometry-limit"
        /\ ~j.changed /\ c \in j.accepted => s[c] < j.kept[c]
    /\ j.at \in {"journal", "advance", "close"} => j.kept = s
    /\ j.at \in {"journal", "advance"} => j.accepted = {}

\* Coverage that has been found is there, and none is missed by an assessment
\* that is not stale.
CoverOf(j, s) ==
    /\ j.covered => Supports(s)
    /\ ~j.stale /\ ~j.changed /\ Supports(s) => j.covered
    /\ j.at = "close" => ~j.stale /\ ~j.changed

\* A result that is settled is true.
ReportOf(j, s, l) ==
    /\ j.status = "ready" => IF l THEN Count(j.kept) >= Target ELSE Supports(s)
    /\ j.status = "usable" => Count(s) >= MinUsable /\ Supports(s)

\* What is in memory only has been counted, and fits into a batch.
BatchOf(j, s, l) ==
    /\ Count(j.kept) <= Count(s) + (IF j.status = "geometry-limit" THEN BatchSize ELSE j.unsaved)
    /\ j.unsaved <= BatchSize
    /\ j.at \in {"fetch", "trace"} => j.unsaved + MaxRoutes <= BatchSize
    /\ j.accepted = {} /\ j.at # "journal" => j.unsaved = 0
    /\ ~l /\ j.at \in {"loop", "fetch", "trace", "reject"} => j.accepted = {}

Fine(j, s, l) == KeptOf(j, s) /\ CoverOf(j, s) /\ ReportOf(j, s, l) /\ BatchOf(j, s, l)

\* What an action never takes back: its candidates and its rounds.
Onward(j, k) ==
    /\ k.scope = j.scope /\ k.milestone = j.milestone
    /\ j.attempted \subseteq k.attempted /\ j.round <= k.round

\* The result prepare() has returned is true of the packs on disk.
Honest(j, s, l) ==
    LET enough == Count(s) >= MinUsable /\ Supports(s)
    IN  j.at = "done" =>
        /\ j.status = "ready" => IF l THEN Count(s) >= Target ELSE Supports(s)
        /\ j.status = "usable" => enough
        /\ j.status = "request-limit" /\ j.milestone => ~enough

\* The job state on disk is no further than the action.
JournalOf(j, n) ==
    n.scope = j.scope => n.attempted \subseteq j.attempted /\ n.round <= j.round

\* A route was asked for on the graph of the action or on a later one.
GraphOf(j, l, g) ==
    l => /\ j.scope <= g
         /\ j.at = "trace" => j.scope <= j.routedOn /\ j.routedOn <= g

RouteInv ==
    /\ Busy => /\ Fine(job, Saved, local)
               /\ JournalOf(job, journal)
               /\ GraphOf(job, local, graph)
    /\ Honest(job, Saved, local)

\* What only moves a job to another stage leaves its routes as they are.
LEMMA SameFine ==
    ASSUME NEW l \in BOOLEAN, NEW s, NEW j \in Job, Fine(j, s, l), NEW k \in Job, Same(j, k),
           k.at \notin {"journal", "advance", "close"},
           k.status = j.status \/ (j.status \notin {"geometry-limit", "ready", "usable"}
                                    /\ k.status \notin {"geometry-limit", "ready", "usable"}),
           k.at \in {"fetch", "trace"} => j.unsaved + MaxRoutes <= BatchSize,
           ~l /\ k.at \in {"loop", "fetch", "trace", "reject"} => j.accepted = {},
           j.at = "journal" => j.unsaved = 0
    PROVE  Fine(k, s, l) /\ Onward(j, k)
<1>1. KeptOf(j, s) /\ CoverOf(j, s) /\ ReportOf(j, s, l) /\ BatchOf(j, s, l)
  BY DEF Fine
<1>2. KeptOf(k, s)
  BY <1>1 DEF KeptOf, Same, SameRoutes, SameCover
<1>3. CoverOf(k, s)
  BY <1>1 DEF CoverOf, Same, SameRoutes, SameCover
<1>4. ReportOf(k, s, l)
  BY <1>1 DEF ReportOf, Same, SameRoutes
<1>5. BatchOf(k, s, l)
  <2>1. k.kept = j.kept /\ k.unsaved = j.unsaved /\ k.accepted = j.accepted
    BY DEF Same, SameRoutes
  <2>2. (k.status = "geometry-limit") <=> (j.status = "geometry-limit")
    OBVIOUS
  <2>3. Count(k.kept) <= Count(s) + (IF k.status = "geometry-limit" THEN BatchSize ELSE k.unsaved)
    BY <1>1, <2>1, <2>2 DEF BatchOf
  <2> QED
    BY <1>1, <2>1, <2>3 DEF BatchOf
<1>6. Onward(j, k)
  BY JobFields DEF Onward, Same, SameRoutes
<1> QED
  BY <1>2, <1>3, <1>4, <1>5, <1>6 DEF Fine

\* A job all of whose routes are on disk and whose candidates are noted.
Clean(j, s, l) ==
    /\ j.kept = s /\ j.accepted = {} /\ j.unsaved = 0 /\ ~j.changed
    /\ j.covered => Supports(s)
    /\ ~j.stale /\ Supports(s) => j.covered
    /\ ReportOf(j, s, l)

\* Such a job is fine wherever it goes.
LEMMA CleanFine ==
    ASSUME NEW l \in BOOLEAN, NEW s \in Catalogue, NEW k \in Job, Clean(k, s, l),
           k.at = "close" => ~k.stale
    PROVE  Fine(k, s, l)
<1>1. KeptOf(k, s)
  <2>1. \A c \in Candidates : s[c] \in Nat
    BY Bounds DEF Catalogue
  <2> QED
    BY <2>1 DEF KeptOf, Clean
<1>2. CoverOf(k, s)
  BY DEF CoverOf, Clean
<1>3. BatchOf(k, s, l)
  <2>1. Count(s) \in Nat
    BY Counts
  <2> QED
    BY <2>1, Bounds DEF BatchOf, Clean
<1> QED
  BY <1>1, <1>2, <1>3 DEF Fine, Clean

\* After a flush everything is on disk, wherever the action goes from there.
LEMMA AfterFlushFine ==
    ASSUME local \in BOOLEAN, packs \in Packs, NEW f \in Job, StageOf(f, local),
           RequestOf(f, local), AheadOf(f), f.at \in {"flush", "journal"},
           f.kept = Saved, f.accepted = {}, f.unsaved = 0,
           f.covered => Supports(Saved), ~f.stale /\ Supports(Saved) => f.covered,
           ReportOf(f, Saved, local)
    PROVE  Fine(AfterFlush(f), Saved, local) /\ Onward(f, AfterFlush(f))
<1> DEFINE j == Cleared(f)
           s == Saved
<1>1. /\ j \in Job /\ SameRoutes(f, j) /\ SameCount(f, j)
      /\ j.changed = FALSE /\ j.covered = f.covered /\ j.stale = f.stale
      /\ j.after = "finish" /\ j.status = f.status /\ j.ahead = f.ahead
  BY ClearedIs
<1>2. s \in Catalogue
  BY SavedIs
<1> HIDE DEF j
<1>3. /\ f.kept = s /\ (f.covered => Supports(s)) /\ (~f.stale /\ Supports(s) => f.covered)
      /\ ReportOf(f, s, local)
  OBVIOUS
<1>4. f.after \in Afters
  BY JobFields
<1>5. j.kept = s /\ j.accepted = {} /\ j.unsaved = 0 /\ j.scope = f.scope /\ j.milestone = f.milestone
      /\ j.attempted = f.attempted /\ j.round = f.round /\ j.round \in Nat
  BY <1>1, <1>3, JobFields DEF SameRoutes
<1>6. ReportOf(j, s, local)
  BY <1>1, <1>3, <1>5 DEF ReportOf
<1>7. CASE f.after = "request"
  <2> DEFINE k == Ask(j)
  <2>1. k = AfterFlush(f)
    BY <1>7, AfterFlushIs DEF j
  <2>2. j.ahead \ j.attempted # {}
    BY <1>1, <1>5, <1>7 DEF RequestOf, Left
  <2>3. k \in Job /\ Same(j, k) /\ k.at = "fetch" /\ k.status = j.status
    BY <1>1, <2>2, AskIs
  <2> HIDE DEF k, s
  <2>4. Clean(k, s, local)
    BY <1>1, <1>3, <1>5, <1>6, <2>3 DEF Clean, ReportOf, Same, SameRoutes, SameCover
  <2>5. Onward(f, k)
    BY <1>5, <2>3 DEF Onward, Same, SameRoutes
  <2>6. Fine(k, s, local)
    BY <1>2, <2>3, <2>4, CleanFine
  <2> QED
    BY <2>1, <2>5, <2>6 DEF s
<1>8. CASE f.after = "advance"
  <2> DEFINE k == Advance(j)
  <2>1. k = AfterFlush(f)
    BY <1>8, AfterFlushIs DEF j
  <2>2. /\ k \in Job /\ SameCover(j, k)
        /\ k.scope = j.scope /\ k.milestone = j.milestone
        /\ k.kept = j.kept /\ k.attempted = j.attempted /\ k.accepted = j.accepted
        /\ k.unsaved = j.unsaved /\ k.round = j.round + 1
        /\ k.at = "advance" /\ k.status = j.status
    BY <1>1, AdvanceIs
  <2> HIDE DEF k, s
  <2>4. Clean(k, s, local)
    BY <1>1, <1>3, <1>5, <1>6, <2>2 DEF Clean, ReportOf, SameCover
  <2>5. Onward(f, k)
    BY <1>5, <2>2 DEF Onward
  <2>6. Fine(k, s, local)
    BY <1>2, <2>2, <2>4, CleanFine
  <2> QED
    BY <2>1, <2>5, <2>6 DEF s
<1>9. CASE f.after = "evaluate"
  <2> DEFINE k == Evaluate(j)
  <2>1. k = AfterFlush(f)
    BY <1>9, AfterFlushIs DEF j
  <2>2. /\ k \in Job /\ SameRoutes(j, k) /\ k.changed = j.changed
        /\ k.at = "loop"
        /\ k.status \in {"ready", "usable", "incomplete"}
        /\ k.status = "ready" => Complete(k)
        /\ k.status = "usable" => UsableNow(k)
        /\ SameCover(j, k) \/ (~k.stale /\ (k.covered <=> Supports(s)))
    BY <1>1, EvaluateIs
  <2>3. UsableNow(k) => Count(s) >= MinUsable /\ k.covered
    BY DEF UsableNow
  <2> HIDE DEF k, s
  <2>4. (k.covered => Supports(s)) /\ (~k.stale /\ Supports(s) => k.covered)
    BY <1>1, <1>3, <2>2 DEF SameCover
  <2>5. ReportOf(k, s, local)
    BY <2>2, <2>3, <2>4 DEF ReportOf, Complete, TargetReady
  <2>6. Clean(k, s, local)
    BY <1>1, <1>5, <2>2, <2>4, <2>5 DEF Clean, SameRoutes
  <2>7. Onward(f, k)
    BY <1>5, <2>2 DEF Onward, SameRoutes
  <2>8. Fine(k, s, local)
    BY <1>2, <2>2, <2>6, CleanFine
  <2> QED
    BY <2>1, <2>7, <2>8 DEF s
<1>10. CASE f.after = "finish"
  <2> DEFINE k == Close(j)
  <2>1. k = AfterFlush(f)
    BY <1>10, AfterFlushIs DEF j
  <2>2. /\ k \in Job /\ SameRoutes(j, k) /\ k.changed = j.changed
        /\ k.at = "close" /\ k.status = j.status /\ ~k.stale
        /\ SameCover(j, k) \/ (k.covered <=> Supports(s))
    BY <1>1, CloseIs
  <2> HIDE DEF k, s
  <2>3. (k.covered => Supports(s)) /\ (~k.stale /\ Supports(s) => k.covered)
    BY <1>1, <1>3, <2>2 DEF SameCover
  <2>4. Clean(k, s, local)
    BY <1>1, <1>5, <1>6, <2>2, <2>3 DEF Clean, ReportOf, SameRoutes
  <2>5. Onward(f, k)
    BY <1>5, <2>2 DEF Onward, SameRoutes
  <2>6. Fine(k, s, local)
    BY <1>2, <2>2, <2>4, CleanFine
  <2> QED
    BY <2>1, <2>5, <2>6 DEF s
<1> QED
  BY <1>4, <1>7, <1>8, <1>9, <1>10 DEF Afters

\* The routes on disk stay as they are for a job of the same scope.
LEMMA SavedStays ==
    ASSUME packs' = packs, job'.scope = job.scope
    PROVE  Saved' = Saved
  BY DEF Saved

\* A step of the action to a job whose routes are fine.
LEMMA StepFine ==
    ASSUME TypeInv, RouteInv, Busy, NEW k \in Job, job' = k,
           local' = local, graph' = graph, packs' = packs,
           journal' = journal \/ journal' = Persisted(job),
           Fine(k, Saved, local), Onward(job, k), k.at # "done",
           k.at = "trace" /\ local => job.scope <= k.routedOn /\ k.routedOn <= graph
    PROVE  RouteInv'
<1>1. JournalOf(job, journal) /\ GraphOf(job, local, graph)
  BY DEF RouteInv
<1>2. Saved' = Saved
  BY SavedStays DEF Onward
<1>3. Fine(job', Saved', local')
  BY <1>2
<1>4. JournalOf(k, journal')
  <2>1. job.round \in Nat /\ k.round \in Nat /\ journal.round \in Nat
    BY JobFields, Bounds DEF TypeInv, TypeOK, Journal, Good
  <2>2. CASE journal' = journal
    BY <1>1, <2>1, <2>2 DEF JournalOf, Onward
  <2>3. CASE journal' = Persisted(job)
    BY <2>3, <2>1 DEF JournalOf, Onward, Persisted
  <2> QED
    BY <2>2, <2>3
<1>5. GraphOf(k, local, graph)
  BY <1>1 DEF GraphOf, Onward
<1>6. Honest(job', Saved', local')
  BY DEF Honest
<1> QED
  BY <1>3, <1>4, <1>5, <1>6 DEF RouteInv

\* What the invariants say of a job at work.
LEMMA AtWork ==
    ASSUME TypeInv, RouteInv, Busy
    PROVE  /\ job \in Job /\ local \in BOOLEAN /\ packs \in Packs /\ Saved \in Catalogue
           /\ Fine(job, Saved, local) /\ KeptOf(job, Saved) /\ CoverOf(job, Saved)
           /\ ReportOf(job, Saved, local) /\ BatchOf(job, Saved, local)
           /\ job.unsaved \in Nat /\ job.round \in Nat
           /\ Good(job, local) /\ StageOf(job, local) /\ RequestOf(job, local) /\ AheadOf(job)
<1>1. job \in Job /\ local \in BOOLEAN /\ packs \in Packs /\ Good(job, local)
  BY DEF TypeInv, TypeOK
<1>2. Fine(job, Saved, local)
  BY DEF RouteInv
<1>3. Saved \in Catalogue
  BY <1>1, SavedIs
<1>4. KeptOf(job, Saved) /\ CoverOf(job, Saved) /\ ReportOf(job, Saved, local) /\ BatchOf(job, Saved, local)
  BY <1>2 DEF Fine
<1>5. StageOf(job, local) /\ RequestOf(job, local) /\ AheadOf(job)
  BY <1>1 DEF Good, CandidateOf
<1> QED
  BY <1>1, <1>2, <1>3, <1>4, <1>5, JobFields

\* The steps of the loop.
LEMMA LoopRoutes ==
    ASSUME TypeInv, RouteInv,
           LoopEnds \/ LoopCanceled \/ RoundEnds \/ \E aged \in BOOLEAN : Request(aged)
    PROVE  RouteInv'
<1> DEFINE s == Saved
<1>1. job.at = "loop" /\ Busy
  BY DEF LoopEnds, LoopCanceled, RoundEnds, Request, Busy
<1>2. /\ job \in Job /\ local \in BOOLEAN
      /\ Fine(job, s, local) /\ BatchOf(job, s, local)
      /\ job.unsaved \in Nat
  BY <1>1, AtWork
<1>3. /\ job.status \in Status /\ job.status # "geometry-limit" /\ AheadOf(job)
      /\ More(job) => job.status = "incomplete"
  BY <1>1, InLoop
<1>4. /\ job.unsaved <= BatchSize /\ (job.accepted = {} => job.unsaved = 0)
      /\ ~local => job.accepted = {}
  BY <1>1, <1>2 DEF BatchOf
<1> HIDE DEF s
<1>5. ASSUME NEW k \in Job, Same(job, k), Step(k),
             k.at = "flush" \/ (k.at = "fetch" /\ job.unsaved + MaxRoutes <= BatchSize),
             \/ k.status = job.status
             \/ job.status = "incomplete" /\ k.status \notin {"geometry-limit", "ready", "usable"}
      PROVE  RouteInv'
  <2>1. Fine(k, s, local) /\ Onward(job, k)
    BY <1>1, <1>2, <1>4, <1>5, SameFine
  <2>2. /\ job' = k /\ local' = local /\ graph' = graph /\ packs' = packs /\ journal' = journal
    BY <1>5 DEF Step
  <2>3. k.at # "done" /\ k.at # "trace"
    BY <1>5
  <2> QED
    BY <1>1, <1>5, <2>1, <2>2, <2>3, StepFine DEF s
<1>6. ASSUME NEW after \in Afters, Step(Flush(job, after)) PROVE RouteInv'
  <2> DEFINE k == Flush(job, after)
  <2>1. k \in Job /\ Same(job, k) /\ k.at = "flush" /\ k.status = job.status
    BY <1>2, FlushIs
  <2> HIDE DEF k
  <2>2. Step(k)
    BY <1>6 DEF k
  <2> QED
    BY <1>5, <2>1, <2>2
<1>7. ASSUME NEW status \in Status, Step(Finish(job, status)),
             \/ status = job.status
             \/ job.status = "incomplete" /\ status \in {"canceled", "candidates-exhausted"}
      PROVE  RouteInv'
  <2> DEFINE k == Finish(job, status)
  <2>1. k \in Job /\ Same(job, k) /\ k.at = "flush" /\ k.status = status
    BY <1>2, FinishIs
  <2> HIDE DEF k
  <2>2. Step(k)
    BY <1>7 DEF k
  <2> QED
    BY <1>5, <1>7, <2>1, <2>2
<1>8. /\ "advance" \in Afters /\ "request" \in Afters
      /\ "canceled" \in Status /\ "candidates-exhausted" \in Status
  BY Words
<1>9. CASE LoopEnds
  <2>1. Step(Flush(job, "advance")) \/ Step(Finish(job, job.status))
    BY <1>9 DEF LoopEnds
  <2> QED
    BY <1>3, <1>6, <1>7, <1>8, <2>1
<1>10. CASE LoopCanceled
  <2>1. Step(Finish(job, "canceled")) /\ job.status = "incomplete"
    BY <1>3, <1>10 DEF LoopCanceled
  <2> QED
    BY <1>7, <1>8, <2>1
<1>11. CASE RoundEnds
  <2>1. /\ Step(Flush(job, "advance")) \/ Step(Finish(job, "candidates-exhausted"))
        /\ job.status = "incomplete"
    BY <1>3, <1>11 DEF RoundEnds
  <2> QED
    BY <1>6, <1>7, <1>8, <2>1
<1>12. ASSUME NEW aged \in BOOLEAN, Request(aged) PROVE RouteInv'
  <2>1. job.ahead \ job.attempted # {}
    BY <1>12 DEF Request
  <2>2. CASE local /\ job.unsaved > 0 /\ (aged \/ NeedsFlush(job))
    <3>1. Step(Flush(job, "request"))
      BY <1>12, <2>2 DEF Request
    <3> QED
      BY <1>6, <1>8, <3>1
  <2>3. CASE ~(local /\ job.unsaved > 0 /\ (aged \/ NeedsFlush(job)))
    <3> DEFINE k == Ask(job)
    <3>1. k \in Job /\ Same(job, k) /\ k.at = "fetch" /\ k.status = job.status
      BY <1>2, <2>1, AskIs
    <3>2. Step(k)
      BY <1>12, <2>3 DEF Request
    <3> HIDE DEF k
    <3>3. job.unsaved + MaxRoutes <= BatchSize
      <4>1. CASE local /\ job.unsaved > 0
        BY <1>2, <2>3, <4>1, Bounds DEF NeedsFlush
      <4>2. CASE ~(local /\ job.unsaved > 0)
        BY <1>2, <1>4, <4>2, Bounds
      <4> QED
        BY <4>1, <4>2
    <3> QED
      BY <1>5, <3>1, <3>2, <3>3
  <2> QED
    BY <2>2, <2>3
<1> QED
  BY <1>9, <1>10, <1>11, <1>12

\* A candidate that is given up brought no route.
LEMMA RejectFine ==
    ASSUME NEW l \in BOOLEAN, NEW s \in Catalogue, NEW j \in Job, Fine(j, s, l), j.candidate \in Candidates,
           j.status = "incomplete", j.candidate \notin j.accepted, j.at \in {"fetch", "trace"},
           NEW k, k = Reject(j)
    PROVE  k \in Job /\ Fine(k, s, l) /\ Onward(j, k) /\ k.at \in {"reject", "loop"}
<1>1. KeptOf(j, s) /\ CoverOf(j, s) /\ ReportOf(j, s, l) /\ BatchOf(j, s, l)
  BY DEF Fine
<1>2. /\ k \in Job /\ SameCover(j, k) /\ SameCount(j, k)
      /\ k.scope = j.scope /\ k.milestone = j.milestone
      /\ k.kept = j.kept /\ k.accepted = j.accepted
      /\ k.unsaved = j.unsaved /\ k.round = j.round
      /\ k.attempted = j.attempted \cup {j.candidate}
      /\ k.at \in {"reject", "loop"}
      /\ k.status = j.status
  BY RejectIs
<1>3. ~(s[j.candidate] < j.kept[j.candidate])
  BY <1>1 DEF KeptOf
<1>4. KeptOf(k, s)
  BY <1>1, <1>2, <1>3 DEF KeptOf, SameCover
<1>5. CoverOf(k, s)
  BY <1>1, <1>2 DEF CoverOf, SameCover
<1>6. ReportOf(k, s, l)
  BY <1>1, <1>2 DEF ReportOf
<1>7. BatchOf(k, s, l)
  BY <1>1, <1>2 DEF BatchOf
<1>8. Onward(j, k)
  BY <1>2, JobFields DEF Onward
<1> QED
  BY <1>2, <1>4, <1>5, <1>6, <1>7, <1>8 DEF Fine

\* Counting requests changes no route.
LEMMA CountedFine ==
    ASSUME NEW l \in BOOLEAN, NEW s, NEW j \in Job, Fine(j, s, l), NEW n \in Nat,
           NEW k, k = Counted(j, n)
    PROVE  k \in Job /\ Fine(k, s, l) /\ Onward(j, k)
<1>1. /\ k \in Job /\ SameRoutes(j, k) /\ SameCover(j, k)
      /\ k.at = j.at /\ k.status = j.status
  BY CountedIs
<1>2. KeptOf(j, s) /\ CoverOf(j, s) /\ ReportOf(j, s, l) /\ BatchOf(j, s, l)
  BY DEF Fine
<1>3. KeptOf(k, s)
  BY <1>1, <1>2 DEF KeptOf, SameRoutes, SameCover
<1>4. CoverOf(k, s)
  BY <1>1, <1>2 DEF CoverOf, SameCover
<1>5. ReportOf(k, s, l)
  BY <1>1, <1>2 DEF ReportOf, SameRoutes
<1>6. BatchOf(k, s, l)
  BY <1>1, <1>2 DEF BatchOf, SameRoutes
<1>7. Onward(j, k)
  BY <1>1, JobFields DEF Onward, SameRoutes
<1> QED
  BY <1>1, <1>3, <1>4, <1>5, <1>6, <1>7 DEF Fine

\* A job that leaves the loop from a request.
LEMMA FinishFine ==
    ASSUME NEW l \in BOOLEAN, NEW s, NEW j \in Job, Fine(j, s, l), j.status = "incomplete",
           NEW status \in {"canceled", "blocked", "request-limit", "graph-changed"},
           j.at # "journal", NEW k, k = Finish(j, status)
    PROVE  k \in Job /\ Fine(k, s, l) /\ Onward(j, k) /\ k.at = "flush"
<1>1. status \in Status
  BY Words
<1>2. k \in Job /\ Same(j, k) /\ k.at = "flush" /\ k.status = status
  BY <1>1, FinishIs
<1> QED
  BY <1>2, SameFine

\* The answers of the provider that bring no route.
LEMMA AnswerRoutes ==
    ASSUME TypeInv, RouteInv,
           \/ Canceled \/ FetchRoute \/ FetchRejected \/ FetchForbidden \/ FetchFails
           \/ TraceRejected \/ TraceFails \/ GraphChanged
    PROVE  RouteInv'
<1> DEFINE s == Saved
<1>1. job.at \in {"fetch", "trace"} /\ Busy
  BY DEF Canceled, FetchRoute, FetchRejected, FetchForbidden, FetchFails, TraceRejected,
         TraceFails, GraphChanged, Busy
<1>2. /\ job \in Job /\ local \in BOOLEAN /\ s \in Catalogue /\ Fine(job, s, local)
      /\ BatchOf(job, s, local)
  BY <1>1, AtWork
<1>3. /\ job.status = "incomplete" /\ job.candidate \in Candidates
      /\ job.candidate \notin job.accepted
  BY <1>1, InRequest
<1> HIDE DEF s
<1>4. ASSUME NEW k \in Job, Fine(k, s, local), Onward(job, k), Step(k), k.at # "done",
             k.at = "trace" /\ local => job.scope <= k.routedOn /\ k.routedOn <= graph
      PROVE  RouteInv'
  <2>1. /\ job' = k /\ local' = local /\ graph' = graph /\ packs' = packs /\ journal' = journal
    BY <1>4 DEF Step
  <2> QED
    BY <1>1, <1>4, <2>1, StepFine DEF s
<1>5. ASSUME NEW j \in Job, Fine(j, s, local), Onward(job, j), j.status = "incomplete", j.at # "journal",
             NEW status \in {"canceled", "blocked", "request-limit", "graph-changed"},
             Step(Finish(j, status))
      PROVE  RouteInv'
  <2> DEFINE k == Finish(j, status)
  <2>1. k \in Job /\ Fine(k, s, local) /\ Onward(j, k) /\ k.at = "flush"
    BY <1>2, <1>5, FinishFine
  <2>2. Step(k)
    BY <1>5
  <2> HIDE DEF k
  <2>3. Onward(job, k)
    <3>1. job.round \in Nat /\ j.round \in Nat /\ k.round \in Nat
      BY <1>2, <1>5, <2>1, JobFields
    <3> QED
      BY <1>5, <2>1, <3>1 DEF Onward
  <2> QED
    BY <1>4, <2>1, <2>2, <2>3
<1>6. ASSUME NEW j \in Job, Fine(j, s, local), Onward(job, j), j.status = "incomplete",
             j.candidate \in Candidates, j.candidate \notin j.accepted, j.at \in {"fetch", "trace"},
             Step(Reject(j))
      PROVE  RouteInv'
  <2> DEFINE k == Reject(j)
  <2>1. k \in Job /\ Fine(k, s, local) /\ Onward(j, k) /\ k.at \in {"reject", "loop"}
    BY <1>2, <1>6, RejectFine
  <2>2. Step(k)
    BY <1>6
  <2> HIDE DEF k
  <2>3. Onward(job, k)
    <3>1. job.round \in Nat /\ j.round \in Nat /\ k.round \in Nat
      BY <1>2, <1>6, <2>1, JobFields
    <3> QED
      BY <1>6, <2>1, <3>1 DEF Onward
  <2> QED
    BY <1>4, <2>1, <2>2, <2>3
<1>7. Onward(job, job)
  BY <1>2, JobFields DEF Onward
<1> DEFINE j == Counted(job, 1)
<1>8. /\ j \in Job /\ Fine(j, s, local) /\ Onward(job, j)
  BY <1>2, CountedFine
<1>9. /\ SameRoutes(job, j) /\ SameCover(job, j)
      /\ j.at = job.at /\ j.status = job.status /\ j.candidate = job.candidate
  BY <1>2, CountedIs
<1>10. j.accepted = job.accepted
  BY <1>9 DEF SameRoutes
<1> HIDE DEF j
<1>11. CASE Canceled
  BY <1>1, <1>2, <1>3, <1>5, <1>7, <1>11 DEF Canceled
<1>12. CASE TraceFails
  BY <1>1, <1>2, <1>3, <1>5, <1>7, <1>12 DEF TraceFails
<1>13. CASE GraphChanged
  BY <1>1, <1>2, <1>3, <1>5, <1>7, <1>13 DEF GraphChanged
<1>14. CASE TraceRejected
  BY <1>1, <1>2, <1>3, <1>6, <1>7, <1>14 DEF TraceRejected
<1>15. CASE FetchRejected
  BY <1>1, <1>3, <1>6, <1>8, <1>9, <1>10, <1>15 DEF FetchRejected, j
<1>16. CASE FetchForbidden
  <2>1. PICK n \in {0, 1} : Step(Finish(Counted(job, n), "blocked"))
    BY <1>16 DEF FetchForbidden
  <2> DEFINE i == Counted(job, n)
  <2>2. n \in Nat
    OBVIOUS
  <2>3. i \in Job /\ Fine(i, s, local) /\ Onward(job, i)
    BY <1>2, <2>2, CountedFine
  <2>4. i.at = job.at /\ i.status = job.status
    BY <1>2, <2>2, CountedIs
  <2>5. Step(Finish(i, "blocked"))
    BY <2>1
  <2> HIDE DEF i
  <2> QED
    BY <1>1, <1>3, <1>5, <2>3, <2>4, <2>5
<1>17. CASE FetchRoute
  <2> DEFINE k == [j EXCEPT !.at = "trace", !.routedOn = Source]
  <2>1. job.at = "fetch" /\ Step(k)
    BY <1>17 DEF FetchRoute, j
  <2>2. Source \in Scope
    BY Bounds DEF TypeInv, TypeOK, Source, Scope, Public
  <2>3. k \in Job
    <3> DEFINE v == Source
    <3>1. v \in Scope
      BY <2>2
    <3> HIDE DEF v
    <3>2. [j EXCEPT !.at = "trace", !.routedOn = v] \in Job
      BY <1>8, <3>1, JobIs, Words
    <3> QED
      BY <3>2 DEF v
  <2>4. Same(j, k)
    BY <1>8, JobIs DEF Same, SameRoutes, SameCover, SameCount
  <2>5. k.at = "trace" /\ k.status = j.status /\ k.routedOn = Source
    BY <1>8, JobIs
  <2> HIDE DEF k
  <2>6. j.unsaved + MaxRoutes <= BatchSize /\ (~local => j.accepted = {})
    BY <1>1, <1>2, <1>9 DEF BatchOf, SameRoutes
  <2>7. Fine(k, s, local) /\ Onward(j, k)
    BY <1>1, <1>2, <1>8, <1>9, <2>3, <2>4, <2>5, <2>6, SameFine
  <2>8. Onward(job, k)
    <3>1. job.round \in Nat /\ j.round \in Nat /\ k.round \in Nat
      BY <1>2, <1>8, <2>3, JobFields
    <3> QED
      BY <1>8, <2>7, <3>1 DEF Onward
  <2>9. local => job.scope <= k.routedOn /\ k.routedOn <= graph
    BY <1>1, <2>5, Bounds DEF RouteInv, GraphOf, Source, TypeInv, TypeOK
  <2> QED
    BY <1>4, <2>1, <2>3, <2>5, <2>7, <2>8, <2>9
<1>18. CASE FetchFails
  <2>1. job.at = "fetch"
    BY <1>18 DEF FetchFails
  <2>2. CASE ~local \/ job.call >= MaxCalls
    <3>1. Step(Finish(j, "blocked"))
      BY <1>18, <2>2 DEF FetchFails, j
    <3> QED
      BY <1>1, <1>3, <1>5, <1>8, <1>9, <3>1
  <2>3. CASE ~(~local \/ job.call >= MaxCalls) /\ j.attempts >= j.budget
    <3>1. Step(Finish(j, "request-limit"))
      BY <1>18, <2>3 DEF FetchFails, j
    <3> QED
      BY <1>1, <1>3, <1>5, <1>8, <1>9, <3>1
  <2>4. CASE ~(~local \/ job.call >= MaxCalls) /\ ~(j.attempts >= j.budget)
    <3> DEFINE k == [j EXCEPT !.call = @ + 1]
    <3>1. Step(k)
      BY <1>18, <2>4 DEF FetchFails, j
    <3>2. k \in Job
      <4> DEFINE n == j.call + 1
      <4>1. n \in Nat
        BY <1>8, JobFields
      <4> HIDE DEF n
      <4>2. [j EXCEPT !.call = n] \in Job
        BY <1>8, <4>1, JobIs
      <4> QED
        BY <4>2 DEF n
    <3>3. Same(j, k)
      BY <1>8, JobIs DEF Same, SameRoutes, SameCover, SameCount
    <3>4. k.at = j.at /\ k.status = j.status
      BY <1>8, JobIs
    <3> HIDE DEF k
    <3>5. j.unsaved + MaxRoutes <= BatchSize /\ (~local => j.accepted = {})
      BY <1>1, <1>2, <1>9 DEF BatchOf, SameRoutes
    <3>6. Fine(k, s, local) /\ Onward(j, k)
      BY <1>1, <1>2, <1>8, <1>9, <2>1, <3>2, <3>3, <3>4, <3>5, SameFine
    <3>7. Onward(job, k)
      <4>1. job.round \in Nat /\ j.round \in Nat /\ k.round \in Nat
        BY <1>2, <1>8, <3>2, JobFields
      <4> QED
        BY <1>8, <3>6, <4>1 DEF Onward
    <3> QED
      BY <1>4, <1>9, <2>1, <3>1, <3>2, <3>4, <3>6, <3>7
  <2> QED
    BY <2>2, <2>3, <2>4
<1> QED
  BY <1>11, <1>12, <1>13, <1>14, <1>15, <1>16, <1>17, <1>18

\* Routes of the candidate in question are new: it is on no list, and what it
\* brings is counted.
LEMMA MoreRoutes ==
    ASSUME NEW l \in BOOLEAN, NEW s \in Catalogue, NEW j \in Job, Fine(j, s, l), NEW k \in Job,
           NEW n \in Nat,
           j.status = "incomplete", ~j.changed, j.round \in Nat,
           j.candidate \in Candidates, RoundOf(j.candidate) = j.round,
           j.candidate \notin j.attempted \cup j.accepted,
           k.kept[j.candidate] = j.kept[j.candidate] + n,
           \A c \in Candidates \ {j.candidate} : k.kept[c] = j.kept[c],
           k.attempted = j.attempted, k.round = j.round,
           \/ k.accepted = j.accepted /\ k.status = "geometry-limit"
           \/ k.accepted = j.accepted \cup {j.candidate} /\ n > 0,
           k.at \notin {"journal", "advance", "close"}
    PROVE  KeptOf(k, s) /\ Count(k.kept) = Count(j.kept) + n
<1>1. KeptOf(j, s)
  BY DEF Fine
<1>2. j.kept \in Catalogue /\ k.kept \in Catalogue
  BY JobFields
<1>3. Count(k.kept) = Count(j.kept) + n
  BY <1>2, Counts
<1>4. ASSUME NEW c \in Candidates
      PROVE  /\ s[c] <= k.kept[c]
             /\ s[c] < k.kept[c] =>
                 /\ c \notin k.attempted /\ k.round <= RoundOf(c)
                 /\ c \in k.accepted \/ k.status = "geometry-limit"
             /\ ~k.changed /\ c \in k.accepted => s[c] < k.kept[c]
  <2>1. s[c] \in Nat /\ j.kept[c] \in Nat
    BY <1>2, Bounds DEF Catalogue
  <2>2. /\ s[c] <= j.kept[c]
        /\ s[c] < j.kept[c] =>
            /\ c \notin j.attempted /\ j.round <= RoundOf(c)
            /\ c \in j.accepted \/ j.status = "geometry-limit"
        /\ c \in j.accepted => s[c] < j.kept[c]
    BY <1>1 DEF KeptOf
  <2>3. CASE c = j.candidate
    <3>1. k.kept[c] = j.kept[c] + n
      BY <2>3
    <3> QED
      BY <2>1, <2>2, <2>3, <3>1
  <2>4. CASE c # j.candidate
    <3>1. k.kept[c] = j.kept[c]
      BY <2>4
    <3> QED
      BY <2>1, <2>2, <2>4, <3>1
  <2> QED
    BY <2>3, <2>4
<1>5. KeptOf(k, s)
  BY <1>4 DEF KeptOf
<1> QED
  BY <1>3, <1>5

\* Routes that are taken in.
LEMMA TakenRoutes ==
    ASSUME TypeInv, RouteInv,
           \/ \E n \in 0 .. MaxRoutes : Overfull(n)
           \/ \E n \in 1 .. MaxRoutes, aged \in BOOLEAN : Accept(n, aged)
    PROVE  RouteInv'
<1> DEFINE s == Saved
           c0 == job.candidate
<1>1. job.at = "trace" /\ Busy
  BY DEF Overfull, Accept, Busy
<1>2. /\ job \in Job /\ local \in BOOLEAN /\ s \in Catalogue /\ Fine(job, s, local)
      /\ CoverOf(job, s) /\ BatchOf(job, s, local) /\ job.unsaved \in Nat /\ job.round \in Nat
  BY <1>1, AtWork
<1>3. /\ job.status = "incomplete" /\ ~job.changed
      /\ job.candidate \in Candidates /\ RoundOf(job.candidate) = job.round
      /\ job.candidate \notin job.attempted \cup job.accepted
  BY <1>1, InRequest
<1>4. Count(job.kept) \in Nat /\ Count(s) \in Nat
  BY <1>2, Counts, JobFields
<1>5. /\ Count(job.kept) <= Count(s) + job.unsaved
      /\ job.unsaved <= BatchSize /\ job.unsaved + MaxRoutes <= BatchSize
      /\ job.accepted = {} => job.unsaved = 0
  BY <1>1, <1>2, <1>3 DEF BatchOf
<1>6. (job.covered => Supports(s)) /\ (~job.stale /\ Supports(s) => job.covered)
  BY <1>2, <1>3 DEF CoverOf
<1>7. ASSUME NEW n \in Nat, n <= Room(job) PROVE n <= MaxRoutes
  <2>1. job.kept[job.candidate] \in 0 .. MaxRoutes
    BY <1>2, <1>3, JobFields DEF Catalogue
  <2> QED
    BY <1>7, <2>1, Bounds DEF Room
<1>8. ASSUME NEW k \in Job, Fine(k, s, local), Onward(job, k), Step(k), k.at \in {"flush", "loop"}
      PROVE  RouteInv'
  <2>1. /\ job' = k /\ local' = local /\ graph' = graph /\ packs' = packs /\ journal' = journal
    BY <1>8 DEF Step
  <2>2. k.at # "done" /\ k.at # "trace"
    BY <1>8
  <2> QED
    BY <1>1, <1>8, <2>1, <2>2, StepFine
<1>9. ASSUME NEW n \in 0 .. MaxRoutes, Overfull(n) PROVE RouteInv'
  <2> DEFINE w == With(job, n)
             k == Finish(w, "geometry-limit")
  <2>1. Step(k) /\ n < Room(job) /\ n \in Nat
    BY <1>9, Bounds DEF Overfull
  <2>2. n <= Room(job)
    <3>1. job.kept[job.candidate] \in 0 .. MaxRoutes
      BY <1>2, <1>3, JobFields DEF Catalogue
    <3> QED
      BY <2>1, <3>1, Bounds DEF Room
  <2>3. /\ w \in Job /\ SameCover(job, w)
        /\ w.scope = job.scope /\ w.milestone = job.milestone
        /\ w.attempted = job.attempted /\ w.accepted = job.accepted
        /\ w.unsaved = job.unsaved /\ w.round = job.round
        /\ w.kept[c0] = job.kept[c0] + n
        /\ \A c \in Candidates \ {c0} : w.kept[c] = job.kept[c]
    BY <1>2, <1>3, <2>1, <2>2, WithIs
  <2> HIDE DEF w
  <2>4. k \in Job /\ Same(w, k) /\ k.at = "flush" /\ k.status = "geometry-limit"
    <3>1. "geometry-limit" \in Status
      BY Words
    <3> QED
      BY <2>3, <3>1, FinishIs
  <2> HIDE DEF k, s
  <2>5. /\ k.scope = job.scope /\ k.milestone = job.milestone
        /\ k.attempted = job.attempted /\ k.accepted = job.accepted
        /\ k.unsaved = job.unsaved /\ k.round = job.round
        /\ k.kept[c0] = job.kept[c0] + n
        /\ \A c \in Candidates \ {c0} : k.kept[c] = job.kept[c]
        /\ SameCover(job, k)
    BY <2>3, <2>4 DEF Same, SameRoutes, SameCover
  <2>6. KeptOf(k, s) /\ Count(k.kept) = Count(job.kept) + n
    BY <1>2, <1>3, <2>1, <2>4, <2>5, MoreRoutes
  <2>7. CoverOf(k, s)
    BY <1>6, <2>4, <2>5 DEF CoverOf, SameCover
  <2>8. ReportOf(k, s, local)
    BY <2>4 DEF ReportOf
  <2>9. BatchOf(k, s, local)
    <3>1. Count(k.kept) <= Count(s) + BatchSize
      BY <1>2, <1>4, <1>5, <2>6, Bounds
    <3> QED
      BY <1>5, <2>4, <2>5, <3>1 DEF BatchOf
  <2>10. Onward(job, k)
    BY <1>2, <2>5 DEF Onward
  <2> QED
    BY <1>8, <2>1, <2>4, <2>6, <2>7, <2>8, <2>9, <2>10 DEF Fine
<1>10. ASSUME NEW n \in 1 .. MaxRoutes, NEW aged \in BOOLEAN, Accept(n, aged) PROVE RouteInv'
  <2> DEFINE j == Accepted(job, n)
  <2>1. n <= Room(job) /\ n \in Nat /\ n > 0
    <3>1. n <= Room(job)
      BY <1>10 DEF Accept
    <3> QED
      BY <3>1, Bounds
  <2>2. /\ j \in Job /\ SameCover(job, j)
        /\ j.scope = job.scope /\ j.milestone = job.milestone
        /\ j.attempted = job.attempted /\ j.accepted = job.accepted \cup {c0}
        /\ j.unsaved = job.unsaved + n /\ j.round = job.round
        /\ j.status = job.status
        /\ j.kept[c0] = job.kept[c0] + n
        /\ \A c \in Candidates \ {c0} : j.kept[c] = job.kept[c]
    BY <1>2, <1>3, <2>1, AcceptedIs
  <2>3. j.unsaved <= BatchSize
    BY <1>2, <1>5, <1>7, <2>1, <2>2, Bounds
  <2>4. Step(Flush(j, "evaluate")) \/ (local /\ Step(Evaluate(j)))
    BY <1>10 DEF Accept, Accepted
  <2> HIDE DEF j, s
  <2>5. ASSUME NEW k \in Job, SameRoutes(j, k), k.changed = j.changed, k.at \in {"flush", "loop"},
               k.at = "loop" => local, Step(k),
               k.status \in {"ready", "usable", "incomplete"},
               (k.covered => Supports(s)) /\ (~k.stale /\ Supports(s) => k.covered),
               ReportOf(k, s, local)
        PROVE  RouteInv'
    <3>1. /\ k.scope = job.scope /\ k.milestone = job.milestone
          /\ k.attempted = job.attempted /\ k.accepted = job.accepted \cup {c0}
          /\ k.unsaved = job.unsaved + n /\ k.round = job.round
          /\ k.kept[c0] = job.kept[c0] + n
          /\ \A c \in Candidates \ {c0} : k.kept[c] = job.kept[c]
          /\ ~k.changed
      BY <1>3, <2>2, <2>5 DEF SameRoutes, SameCover
    <3>2. KeptOf(k, s) /\ Count(k.kept) = Count(job.kept) + n
      BY <1>2, <1>3, <2>1, <2>5, <3>1, MoreRoutes
    <3>3. CoverOf(k, s)
      BY <2>5 DEF CoverOf
    <3>4. BatchOf(k, s, local)
      <4>1. Count(k.kept) <= Count(s) + k.unsaved
        BY <1>2, <1>4, <1>5, <2>1, <3>1, <3>2
      <4>2. k.unsaved <= BatchSize /\ k.accepted # {}
        BY <2>2, <2>3, <3>1
      <4> QED
        BY <2>5, <4>1, <4>2 DEF BatchOf
    <3>5. Onward(job, k)
      BY <1>2, <3>1 DEF Onward
    <3> QED
      BY <1>8, <2>5, <3>2, <3>3, <3>4, <3>5 DEF Fine
  <2>6. CASE Step(Flush(j, "evaluate"))
    <3> DEFINE k == Flush(j, "evaluate")
    <3>1. k \in Job /\ Same(j, k) /\ k.at = "flush" /\ k.status = j.status
      <4>1. "evaluate" \in Afters
        BY Words
      <4> QED
        BY <2>2, <4>1, FlushIs
    <3>2. Step(k)
      BY <2>6
    <3> HIDE DEF k
    <3>3. (k.covered => Supports(s)) /\ (~k.stale /\ Supports(s) => k.covered)
      BY <1>6, <2>2, <3>1 DEF Same, SameCover
    <3>4. ReportOf(k, s, local)
      BY <1>3, <2>2, <3>1 DEF ReportOf
    <3> QED
      BY <1>3, <2>2, <2>5, <3>1, <3>2, <3>3, <3>4 DEF Same, SameCover
  <2>7. CASE local /\ Step(Evaluate(j))
    <3> DEFINE k == Evaluate(j)
    <3>1. /\ k \in Job /\ SameRoutes(j, k) /\ k.changed = j.changed
          /\ k.at = "loop"
          /\ k.status \in {"ready", "usable", "incomplete"}
          /\ k.status = "ready" => Complete(k)
          /\ k.status = "usable" => UsableNow(k)
          /\ SameCover(j, k) \/ (~k.stale /\ (k.covered <=> Supports(s)))
      BY <2>2, EvaluateIs DEF s
    <3>2. Step(k)
      BY <2>7
    <3>3. UsableNow(k) => Count(s) >= MinUsable /\ k.covered
      BY DEF UsableNow, s
    <3> HIDE DEF k
    <3>4. (k.covered => Supports(s)) /\ (~k.stale /\ Supports(s) => k.covered)
      BY <1>6, <2>2, <3>1 DEF SameCover
    <3>5. ReportOf(k, s, local)
      BY <2>7, <3>1, <3>3, <3>4 DEF ReportOf, Complete, TargetReady
    <3> QED
      BY <2>5, <2>7, <3>1, <3>2, <3>4, <3>5
  <2> QED
    BY <2>4, <2>6, <2>7
<1> QED
  BY <1>9, <1>10

\* More routes on disk support no less.
LEMMA SupportsGrows ==
    ASSUME NEW s \in Catalogue, NEW t \in Catalogue, \A c \in Candidates : s[c] <= t[c], Supports(s)
    PROVE  Supports(t)
<1>1. \A c \in Candidates : s[c] \in Nat /\ t[c] \in Nat
  BY Bounds DEF Catalogue
<1>2. Served(t)
  <2> SUFFICES ASSUME NEW r \in Regions PROVE In(t, r) # {}
    BY DEF Served
  <2>1. PICK c \in Candidates : RegionOf(c) = r /\ s[c] > 0
    BY DEF Supports, Served, In
  <2>2. t[c] > 0
    BY <1>1, <2>1
  <2> QED
    BY <2>1, <2>2 DEF In
<1>3. Count(s) \in Nat /\ Count(t) \in Nat /\ Count(s) <= Count(t)
  BY Counts
<1> QED
  BY <1>2, <1>3, Bounds DEF Supports

\* A pack is written.
LEMMA PackRoutes ==
    ASSUME TypeInv, RouteInv, NEW r \in Regions, WritePack(r)
    PROVE  RouteInv'
<1> DEFINE s == Saved
           t == [c \in Candidates |-> IF RegionOf(c) = r THEN job.kept[c] ELSE s[c]]
           k == [job EXCEPT !.changed = TRUE]
<1>1. /\ job.at = "flush" /\ Busy /\ job' = k /\ local' = local /\ graph' = graph /\ journal' = journal
      /\ packs' = [scope |-> job.scope, kept |-> t]
  BY DEF WritePack, Busy
<1>2. /\ job \in Job /\ local \in BOOLEAN /\ s \in Catalogue
      /\ KeptOf(job, s) /\ CoverOf(job, s) /\ ReportOf(job, s, local) /\ BatchOf(job, s, local)
      /\ job.unsaved \in Nat
  BY <1>1, AtWork
<1>3. k \in Job
  BY <1>2, JobIs
<1>4. /\ SameRoutes(job, k) /\ k.covered = job.covered
      /\ k.at = job.at /\ k.status = job.status /\ k.changed = TRUE
  BY <1>2, JobIs DEF SameRoutes
<1> HIDE DEF k, s
<1>5. job.kept \in Catalogue
  BY <1>2, JobFields
<1>6. t \in Catalogue
  BY <1>2, <1>5 DEF Catalogue
<1>7. \A c \in Candidates : s[c] \in Nat /\ job.kept[c] \in Nat /\ s[c] <= job.kept[c]
  BY <1>2, <1>5, Bounds DEF Catalogue, KeptOf
<1>8. \A c \in Candidates : s[c] <= t[c] /\ t[c] <= job.kept[c] /\ t[c] \in Nat
                            /\ (t[c] = s[c] \/ t[c] = job.kept[c])
  BY <1>7
<1>9. job'.scope = job.scope
  BY <1>1, <1>4 DEF SameRoutes
<1>10. Saved' = t
  <2>1. packs'.scope = job.scope /\ packs'.kept = t
    BY <1>1
  <2> HIDE DEF t
  <2> QED
    BY <1>9, <2>1 DEF Saved
<1> HIDE DEF t
<1>11. KeptOf(k, t)
  <2>1. /\ k.kept = job.kept /\ k.attempted = job.attempted /\ k.accepted = job.accepted /\ k.round = job.round
    BY <1>4 DEF SameRoutes
  <2>2. ASSUME NEW c \in Candidates, t[c] < k.kept[c]
        PROVE  /\ c \notin k.attempted /\ k.round <= RoundOf(c)
               /\ c \in k.accepted \/ k.status = "geometry-limit"
    <3>1. s[c] < job.kept[c]
      BY <1>7, <1>8, <2>1, <2>2
    <3> QED
      BY <1>2, <1>4, <2>1, <3>1 DEF KeptOf
  <2> QED
    BY <1>1, <1>4, <1>8, <2>1, <2>2 DEF KeptOf
<1>12. Supports(s) => Supports(t)
  BY <1>2, <1>6, <1>8, SupportsGrows
<1>13. Count(s) \in Nat /\ Count(t) \in Nat /\ Count(s) <= Count(t) /\ Count(job.kept) \in Nat
  BY <1>2, <1>5, <1>6, <1>8, Counts
<1>14. CoverOf(k, t)
  BY <1>1, <1>2, <1>4, <1>12 DEF CoverOf
<1>15. ReportOf(k, t, local)
  BY <1>2, <1>4, <1>12, <1>13, Bounds DEF ReportOf, SameRoutes
<1>16. BatchOf(k, t, local)
  <2>1. Count(k.kept) <= Count(t) + (IF k.status = "geometry-limit" THEN BatchSize ELSE k.unsaved)
    BY <1>2, <1>4, <1>13, Bounds DEF BatchOf, SameRoutes
  <2> QED
    BY <1>1, <1>2, <1>4, <2>1 DEF BatchOf, SameRoutes
<1>17. JournalOf(k, journal) /\ GraphOf(k, local, graph)
  BY <1>1, <1>4 DEF RouteInv, JournalOf, GraphOf, SameRoutes
<1>18. Honest(k, t, local)
  BY <1>1, <1>4 DEF Honest
<1> QED
  BY <1>1, <1>10, <1>11, <1>14, <1>15, <1>16, <1>17, <1>18 DEF RouteInv, Fine

\* Nothing is left to save.
LEMMA NothingDirty ==
    ASSUME packs \in Packs, job \in Job, Dirty(job) = {}
    PROVE  job.kept = Saved
<1>1. \A c \in Candidates : RegionOf(c) \in Regions
  BY DEF Candidates, RegionOf
<1>2. \A c \in Candidates : job.kept[c] = Saved[c]
  BY <1>1 DEF Dirty
<1>3. job.kept \in Catalogue /\ Saved \in Catalogue
  BY SavedIs, JobFields
<1> DEFINE s == Saved
<1> HIDE DEF s
<1>4. \A c \in Candidates : job.kept[c] = s[c]
  BY <1>2 DEF s
<1>5. job.kept \in Catalogue /\ s \in Catalogue
  BY <1>3 DEF s
<1>6. job.kept = s
  BY <1>4, <1>5 DEF Catalogue
<1> QED
  BY <1>6 DEF s

\* A flush, and the job state after it.
LEMMA FlushRoutes ==
    ASSUME TypeInv, RouteInv, Flushed \/ SaveFlushed
    PROVE  RouteInv'
<1> DEFINE s == Saved
<1>1. job.at \in {"flush", "journal"} /\ Busy
  BY DEF Flushed, SaveFlushed, Busy
<1>2. /\ job \in Job /\ local \in BOOLEAN /\ packs \in Packs /\ s \in Catalogue
      /\ KeptOf(job, s) /\ CoverOf(job, s) /\ ReportOf(job, s, local) /\ BatchOf(job, s, local)
      /\ StageOf(job, local) /\ RequestOf(job, local) /\ AheadOf(job)
      /\ job.unsaved \in Nat /\ job.round \in Nat
  BY <1>1, AtWork
<1> HIDE DEF s
<1>3. ASSUME NEW k \in Job, Fine(k, s, local), Onward(job, k), k.at \notin {"done", "trace"}, job' = k,
             local' = local, graph' = graph, packs' = packs,
             journal' = journal \/ journal' = Persisted(job)
      PROVE  RouteInv'
  BY <1>1, <1>3, StepFine DEF s
<1>4. ASSUME NEW f \in Job, StageOf(f, local), RequestOf(f, local), AheadOf(f),
             f.at \in {"flush", "journal"}
      PROVE  AfterFlush(f) \in Job /\ AfterFlush(f).at \notin {"done", "trace"}
  <2> DEFINE j == Cleared(f)
  <2>1. j \in Job /\ SameRoutes(f, j) /\ j.ahead = f.ahead
    BY <1>4, ClearedIs
  <2> HIDE DEF j
  <2>2. f.after \in Afters
    BY <1>4, JobFields
  <2>3. CASE f.after = "request"
    <3>1. j.ahead \ j.attempted # {}
      BY <1>4, <2>1, <2>3 DEF RequestOf, Left, SameRoutes
    <3>2. Ask(j) \in Job /\ Ask(j).at = "fetch"
      BY <2>1, <3>1, AskIs
    <3> QED
      BY <2>3, <3>2, AfterFlushIs DEF j
  <2>4. CASE f.after = "advance"
    <3>1. Advance(j) \in Job /\ Advance(j).at = "advance"
      BY <2>1, AdvanceIs
    <3> QED
      BY <2>4, <3>1, AfterFlushIs DEF j
  <2>5. CASE f.after = "evaluate"
    <3>1. Evaluate(j) \in Job /\ Evaluate(j).at = "loop"
      BY <2>1, EvaluateIs
    <3> QED
      BY <2>5, <3>1, AfterFlushIs DEF j
  <2>6. CASE f.after = "finish"
    <3>1. Close(j) \in Job /\ Close(j).at = "close"
      BY <2>1, CloseIs
    <3> QED
      BY <1>4, <2>6, <3>1, AfterFlushIs DEF j
  <2> QED
    BY <2>2, <2>3, <2>4, <2>5, <2>6 DEF Afters
<1>5. CASE Flushed /\ job.changed
  <2> DEFINE k == Noted(job)
  <2>1. job.at = "flush" /\ Step(k) /\ Dirty(job) = {}
    BY <1>5 DEF Flushed, Noted
  <2>2. /\ k \in Job /\ SameCover(job, k)
        /\ k.scope = job.scope /\ k.milestone = job.milestone
        /\ k.kept = job.kept /\ k.unsaved = job.unsaved /\ k.round = job.round
        /\ k.attempted = job.attempted \cup job.accepted /\ k.accepted = {}
        /\ k.at = "journal" /\ k.status = job.status
    BY <1>2, NotedIs
  <2> HIDE DEF k
  <2>3. job.kept = s
    BY <1>2, <2>1, NothingDirty DEF s
  <2>4. KeptOf(k, s)
    <3>1. \A c \in Candidates : s[c] \in Nat
      BY <1>2, Bounds DEF Catalogue
    <3> QED
      BY <2>2, <2>3, <3>1 DEF KeptOf
  <2>5. CoverOf(k, s)
    BY <1>2, <2>1, <2>2 DEF CoverOf, SameCover
  <2>6. ReportOf(k, s, local)
    BY <1>2, <2>2 DEF ReportOf
  <2>7. BatchOf(k, s, local)
    BY <1>2, <2>2 DEF BatchOf
  <2>8. Onward(job, k)
    BY <1>2, <2>2 DEF Onward
  <2>9. /\ job' = k /\ local' = local /\ graph' = graph /\ packs' = packs /\ journal' = journal
    BY <2>1 DEF Step
  <2> QED
    BY <1>3, <2>2, <2>4, <2>5, <2>6, <2>7, <2>8, <2>9 DEF Fine
<1>6. CASE Flushed /\ ~job.changed
  <2>1. job.at = "flush" /\ Dirty(job) = {} /\ Step(AfterFlush(job))
    BY <1>6 DEF Flushed
  <2>2. job.kept = s
    BY <1>2, <2>1, NothingDirty DEF s
  <2>3. job.accepted = {}
    <3>1. \A c \in Candidates : s[c] \in Nat
      BY <1>2, Bounds DEF Catalogue
    <3>2. \A c \in Candidates : c \notin job.accepted
      BY <1>2, <1>6, <2>2, <3>1 DEF KeptOf
    <3> QED
      BY <1>2, <3>2, JobFields
  <2>4. job.unsaved = 0
    BY <1>2, <2>1, <2>3 DEF BatchOf
  <2>5. (job.covered => Supports(s)) /\ (~job.stale /\ Supports(s) => job.covered)
    BY <1>2, <1>6 DEF CoverOf
  <2>6. Fine(AfterFlush(job), s, local) /\ Onward(job, AfterFlush(job))
    BY <1>2, <2>1, <2>2, <2>3, <2>4, <2>5, AfterFlushFine DEF s
  <2>7. AfterFlush(job) \in Job /\ AfterFlush(job).at \notin {"done", "trace"}
    BY <1>2, <1>4, <2>1
  <2>8. /\ job' = AfterFlush(job) /\ local' = local /\ graph' = graph /\ packs' = packs /\ journal' = journal
    BY <2>1 DEF Step
  <2> QED
    BY <1>3, <2>6, <2>7, <2>8
<1>7. CASE SaveFlushed
  <2> DEFINE f == Journaled
  <2>1. /\ job.at = "journal" /\ journal' = Persisted(job) /\ job' = AfterFlush(f)
        /\ local' = local /\ graph' = graph /\ packs' = packs
    BY <1>7 DEF SaveFlushed, Journaled
  <2>2. /\ f \in Job /\ SameCount(job, f) /\ f.changed = job.changed
        /\ f.scope = job.scope /\ f.budget = job.budget /\ f.milestone = job.milestone
        /\ f.kept = job.kept /\ f.attempted = job.attempted /\ f.accepted = job.accepted
        /\ f.unsaved = 0 /\ f.round = job.round
        /\ f.at = job.at /\ f.after = job.after /\ f.status = job.status
        /\ f.ahead = job.ahead
        /\ local => f.stale /\ f.covered = job.covered
        /\ ~local => ~f.stale /\ (f.covered <=> Supports(s))
    BY <1>2, JournaledIs DEF s
  <2> HIDE DEF f
  <2>3. StageOf(f, local) /\ RequestOf(f, local) /\ AheadOf(f)
    <3>1. StageOf(f, local)
      BY <1>2, <2>2 DEF StageOf, Searching
    <3>2. RequestOf(f, local)
      BY <1>2, <2>1, <2>2 DEF RequestOf, Left, SameCount
    <3>3. AheadOf(f)
      BY <1>2, <2>2 DEF AheadOf
    <3> QED
      BY <3>1, <3>2, <3>3
  <2>4. f.kept = s /\ f.accepted = {}
    BY <1>2, <2>1, <2>2 DEF KeptOf
  <2>5. (f.covered => Supports(s)) /\ (~f.stale /\ Supports(s) => f.covered)
    BY <1>2, <2>2 DEF CoverOf
  <2>6. ReportOf(f, s, local)
    BY <1>2, <2>2 DEF ReportOf
  <2>7. Fine(AfterFlush(f), s, local) /\ Onward(f, AfterFlush(f))
    BY <1>2, <2>1, <2>2, <2>3, <2>4, <2>5, <2>6, AfterFlushFine DEF s
  <2>8. AfterFlush(f) \in Job /\ AfterFlush(f).at \notin {"done", "trace"}
    BY <1>4, <2>1, <2>2, <2>3
  <2>9. Onward(job, AfterFlush(f))
    BY <2>2, <2>7 DEF Onward
  <2> QED
    BY <1>3, <2>1, <2>7, <2>8, <2>9
<1> QED
  BY <1>5, <1>6, <1>7

\* The job state after rejected candidates, and the next round.
LEMMA JournalRoutes ==
    ASSUME TypeInv, RouteInv, SaveRejected \/ \E proposed \in SUBSET Candidates : NextRound(proposed)
    PROVE  RouteInv'
<1> DEFINE s == Saved
           j == [job EXCEPT !.rejected = 0, !.at = "loop"]
<1>1. job.at \in {"reject", "advance"} /\ Busy
  BY DEF SaveRejected, NextRound, Busy
<1>2. /\ job \in Job /\ local \in BOOLEAN /\ s \in Catalogue
      /\ Fine(job, s, local) /\ KeptOf(job, s) /\ BatchOf(job, s, local) /\ StageOf(job, local)
      /\ job.unsaved \in Nat /\ job.round \in Nat
  BY <1>1, AtWork
<1>3. j \in Job
  BY <1>2, JobIs, Words
<1>4. Same(job, j) /\ j.at = "loop" /\ j.status = job.status
  BY <1>2, JobIs DEF Same, SameRoutes, SameCover, SameCount
<1> HIDE DEF s, j
<1>5. job.status = "incomplete" /\ (~local => job.accepted = {})
  BY <1>1, <1>2 DEF StageOf, Searching, BatchOf
<1>6. ASSUME NEW k \in Job, Same(job, k), k.at = "loop",
             k.status \in {"incomplete", "candidates-exhausted", "search-stalled"},
             job' = k, local' = local, graph' = graph, packs' = packs, journal' = Persisted(job)
      PROVE  RouteInv'
  <2>1. Fine(k, s, local) /\ Onward(job, k)
    BY <1>1, <1>2, <1>5, <1>6, SameFine
  <2>2. k.at # "done" /\ k.at # "trace"
    BY <1>6
  <2> QED
    BY <1>1, <1>6, <2>1, <2>2, StepFine DEF s
<1>7. CASE SaveRejected
  <2>1. job' = j /\ local' = local /\ graph' = graph /\ packs' = packs /\ journal' = Persisted(job)
    BY <1>7 DEF SaveRejected, j
  <2> QED
    BY <1>3, <1>4, <1>5, <1>6, <2>1
<1>8. ASSUME NEW proposed \in SUBSET Candidates, NextRound(proposed) PROVE RouteInv'
  <2> DEFINE over == j.round >= MaxRounds \/ j.empty >= EmptyRounds
             status == IF over THEN "candidates-exhausted"
                       ELSE IF j.noGain >= RoundsNoGain THEN "search-stalled" ELSE j.status
  <2>1. /\ journal' = Persisted(job)
        /\ local' = local /\ graph' = graph /\ packs' = packs
        /\ IF status = "incomplete" /\ j.attempts < j.budget
           THEN proposed \in Proposed(j.round) /\ job' = LoadRound(j, proposed)
           ELSE proposed = {} /\ job' = [j EXCEPT !.status = status]
    BY <1>8 DEF NextRound, j
  <2>2. status \in {"incomplete", "candidates-exhausted", "search-stalled"}
    BY <1>4, <1>5
  <2> HIDE DEF status
  <2>3. CASE job' = LoadRound(j, proposed)
    <3> DEFINE k == LoadRound(j, proposed)
    <3>1. k \in Job /\ Same(j, k) /\ k.at = j.at /\ k.status = j.status
      BY <1>3, LoadRoundIs
    <3>2. job' = k
      BY <2>3
    <3> HIDE DEF k
    <3>3. Same(job, k)
      BY <1>4, <3>1 DEF Same, SameRoutes, SameCover, SameCount
    <3> QED
      BY <1>4, <1>5, <1>6, <2>1, <3>1, <3>2, <3>3
  <2>4. CASE job' = [j EXCEPT !.status = status]
    <3> DEFINE k == [j EXCEPT !.status = status]
    <3>1. status \in Status
      BY <2>2, Words
    <3>2. k \in Job
      BY <1>3, <3>1, JobIs
    <3>3. Same(j, k) /\ k.at = j.at /\ k.status = status
      BY <1>3, JobIs DEF Same, SameRoutes, SameCover, SameCount
    <3>4. job' = k
      BY <2>4
    <3> HIDE DEF k
    <3>5. Same(job, k)
      BY <1>4, <3>3 DEF Same, SameRoutes, SameCover, SameCount
    <3> QED
      BY <1>4, <1>6, <2>1, <2>2, <3>2, <3>3, <3>4, <3>5
  <2> QED
    BY <2>1, <2>3, <2>4
<1> QED
  BY <1>7, <1>8

\* The routes an action starts with are on disk.
LEMMA BeginRoutes ==
    ASSUME TypeInv, NEW budget \in Budgets, NEW milestone \in BOOLEAN,
           NEW proposed \in SUBSET Candidates, Begin(budget, milestone, proposed)
    PROVE  RouteInv'
<1> DEFINE n == Started(budget, milestone)
           s == Found
<1>1. budget \in Nat
  BY CountsAssumption
<1>2. /\ n \in Job /\ n.scope = Source /\ n.kept = s /\ (n.covered <=> Supports(s))
      /\ n.attempted = Known.attempted /\ n.round = Known.round
      /\ n.at = "idle" /\ n.status = "incomplete" /\ ~n.changed /\ ~n.stale
      /\ n.accepted = {} /\ n.unsaved = 0 /\ n.milestone = milestone
  BY <1>1, StartedIs
<1>3. /\ local' = local /\ graph' = graph /\ packs' = packs /\ journal' = journal
      /\ \/ \E v \in {"ready", "usable", "search-stalled", "incomplete", "candidates-exhausted"} :
                    /\ job' = Finish(n, v)
                    /\ v = "ready" => Complete(n)
                    /\ v = "usable" => Count(s) >= MinUsable /\ Supports(s)
         \/ job' = LoadRound([n EXCEPT !.at = "loop"], proposed)
  BY BeginIs
<1>4. /\ local \in BOOLEAN /\ packs \in Packs /\ journal \in Journal /\ graph \in 1 .. MaxGraph
  BY DEF TypeInv, TypeOK
<1>5. s \in Catalogue
  <2>1. packs.kept \in Catalogue /\ NoRoutes \in Catalogue
    BY <1>4, Bounds DEF Packs, NoRoutes, Catalogue
  <2> QED
    BY <2>1 DEF Found
<1>6. packs.scope = n.scope => s = packs.kept
  BY <1>2 DEF Found
<1>7. packs.scope # n.scope => s = NoRoutes
  BY <1>2 DEF Found
<1>8. journal.scope = n.scope => n.attempted = journal.attempted /\ n.round = journal.round
  BY <1>2 DEF Known
<1> HIDE DEF n, s
<1>9. ASSUME NEW k \in Job, Same(n, k), k.at \in {"flush", "loop"}, job' = k, ReportOf(k, s, local)
      PROVE  RouteInv'
  <2>1. /\ k.scope = n.scope /\ k.kept = s /\ k.accepted = {} /\ k.unsaved = 0 /\ ~k.changed
        /\ ~k.stale /\ (k.covered <=> Supports(s))
        /\ k.attempted = n.attempted /\ k.round = n.round
    BY <1>2, <1>9 DEF Same, SameRoutes, SameCover
  <2>2. Saved' = s
    BY <1>3, <1>6, <1>7, <1>9, <2>1 DEF Saved
  <2>3. Clean(k, s, local)
    BY <1>9, <2>1 DEF Clean
  <2>4. Fine(k, s, local)
    BY <1>4, <1>5, <1>9, <2>1, <2>3, CleanFine
  <2>5. JournalOf(k, journal)
    <3>1. k.round \in Nat
      BY <1>9, JobFields
    <3> QED
      BY <1>8, <2>1, <3>1 DEF JournalOf
  <2>6. GraphOf(k, local, graph)
    BY <1>2, <1>4, <1>9, <2>1, Bounds DEF GraphOf, Source
  <2>7. Honest(k, s, local)
    BY <1>9 DEF Honest
  <2> QED
    BY <1>3, <1>9, <2>2, <2>4, <2>5, <2>6, <2>7 DEF RouteInv
<1>10. ASSUME NEW v \in {"ready", "usable", "search-stalled", "incomplete", "candidates-exhausted"},
              job' = Finish(n, v), v = "ready" => Complete(n),
              v = "usable" => Count(s) >= MinUsable /\ Supports(s)
       PROVE  RouteInv'
  <2> DEFINE k == Finish(n, v)
  <2>1. v \in Status
    BY Words
  <2>2. k \in Job /\ Same(n, k) /\ k.at = "flush" /\ k.status = v
    BY <1>2, <2>1, FinishIs
  <2>3. job' = k
    BY <1>10
  <2> HIDE DEF k
  <2>4. ReportOf(k, s, local)
    BY <1>2, <1>10, <2>2 DEF ReportOf, Complete, TargetReady, Same, SameRoutes
  <2> QED
    BY <1>9, <2>2, <2>3, <2>4
<1>11. ASSUME job' = LoadRound([n EXCEPT !.at = "loop"], proposed) PROVE RouteInv'
  <2> DEFINE j == [n EXCEPT !.at = "loop"]
             k == LoadRound(j, proposed)
  <2>1. j \in Job /\ Same(n, j) /\ j.at = "loop" /\ j.status = n.status
    BY <1>2, JobIs, Words DEF Same, SameRoutes, SameCover, SameCount
  <2> HIDE DEF j
  <2>2. k \in Job /\ Same(j, k) /\ k.at = j.at /\ k.status = j.status
    BY <2>1, LoadRoundIs
  <2>3. job' = k
    BY <1>11 DEF j
  <2> HIDE DEF k
  <2>4. Same(n, k)
    BY <2>1, <2>2 DEF Same, SameRoutes, SameCover, SameCount
  <2>5. ReportOf(k, s, local)
    BY <1>2, <2>1, <2>2 DEF ReportOf
  <2> QED
    BY <1>9, <2>1, <2>2, <2>3, <2>4, <2>5
<1> QED
  BY <1>3, <1>10, <1>11

\* What is reported when an action returns.
LEMMA ReturnRoutes ==
    ASSUME TypeInv, RouteInv, Return
    PROVE  RouteInv'
<1> DEFINE s == Saved
           r == Result(job)
           k == Returned(job, r)
<1>1. job.at = "close" /\ Busy
  BY DEF Return, Busy
<1>2. /\ job \in Job /\ local \in BOOLEAN
      /\ KeptOf(job, s) /\ CoverOf(job, s) /\ ReportOf(job, s, local)
  BY <1>1, AtWork
<1>3. r \in Status
  BY <1>2, ResultIs
<1>4. /\ job' = k /\ local' = local /\ packs' = packs
  BY DEF Return, Returned
<1>5. k.at = "done" /\ k.status = r /\ k.scope = job.scope /\ k.milestone = job.milestone
  BY <1>2, <1>3, ReturnedIs
<1>6. Saved' = s
  BY <1>4, <1>5, SavedStays
<1>7. job.kept = s /\ (job.covered => Supports(s)) /\ (Supports(s) => job.covered)
  BY <1>1, <1>2 DEF KeptOf, CoverOf
<1>8. UsableNow(job) <=> Count(s) >= MinUsable /\ Supports(s)
  BY <1>7 DEF UsableNow, Supports
<1>9. TargetReady(job) <=> local /\ Count(s) >= Target
  BY <1>7 DEF TargetReady
<1>10. /\ r = "ready" => (local /\ Count(s) >= Target) \/ job.status = "ready"
       /\ r = "usable" => UsableNow(job) \/ job.status = "usable"
       /\ r = "request-limit" /\ job.milestone => ~UsableNow(job)
  <2> DEFINE w == IF job.status = "incomplete" /\ job.budget > 0 /\ job.attempts >= job.budget
                  THEN "request-limit" ELSE job.status
  <2>1. r = IF TargetReady(job) THEN "ready"
            ELSE IF job.milestone /\ w \in {"incomplete", "request-limit"} /\ UsableNow(job)
            THEN "usable" ELSE w
    BY DEF Result
  <2>2. (w = "ready" => job.status = "ready") /\ (w = "usable" => job.status = "usable")
    OBVIOUS
  <2> HIDE DEF w, r, s
  <2>3. CASE TargetReady(job)
    BY <1>9, <2>1, <2>3
  <2>4. CASE ~TargetReady(job) /\ job.milestone /\ w \in {"incomplete", "request-limit"} /\ UsableNow(job)
    BY <2>1, <2>4
  <2>5. CASE ~TargetReady(job) /\ ~(job.milestone /\ w \in {"incomplete", "request-limit"} /\ UsableNow(job))
    <3>1. r = w
      BY <2>1, <2>5
    <3> QED
      BY <2>2, <2>5, <3>1
  <2> QED
    BY <2>3, <2>4, <2>5
<1>11. /\ job.status = "ready" => IF local THEN Count(s) >= Target ELSE Supports(s)
       /\ job.status = "usable" => Count(s) >= MinUsable /\ Supports(s)
  BY <1>2, <1>7 DEF ReportOf
<1> HIDE DEF s, r, k
<1>12. Honest(k, s, local)
  <2>1. r = "ready" => IF local THEN Count(s) >= Target ELSE Supports(s)
    BY <1>10, <1>11
  <2>2. r = "usable" => Count(s) >= MinUsable /\ Supports(s)
    BY <1>8, <1>10, <1>11
  <2>3. r = "request-limit" /\ job.milestone => ~(Count(s) >= MinUsable /\ Supports(s))
    BY <1>8, <1>10
  <2> QED
    BY <1>5, <2>1, <2>2, <2>3 DEF Honest
<1>13. ~Busy'
  BY <1>4, <1>5 DEF Busy
<1>14. Honest(job', Saved', local')
  BY <1>4, <1>6, <1>12
<1> QED
  BY <1>13, <1>14 DEF RouteInv

\* What may happen at any time.
LEMMA AnyTimeRoutes ==
    ASSUME TypeInv, RouteInv, Cancel \/ Crash \/ Rebuild \/ UNCHANGED vars
    PROVE  RouteInv'
<1>1. CASE Cancel
  <2> DEFINE k == [job EXCEPT !.aborted = TRUE]
             s == Saved
  <2>1. Busy /\ job' = k /\ local' = local /\ graph' = graph /\ packs' = packs /\ journal' = journal
    BY <1>1 DEF Cancel, Step
  <2>2. job \in Job /\ Fine(job, s, local) /\ KeptOf(job, s) /\ CoverOf(job, s)
        /\ ReportOf(job, s, local) /\ BatchOf(job, s, local) /\ job.round \in Nat
    BY <2>1, AtWork
  <2>3. k \in Job
    BY <2>2, JobIs
  <2>4. /\ SameRoutes(job, k) /\ SameCover(job, k)
        /\ k.at = job.at /\ k.status = job.status /\ k.routedOn = job.routedOn
    BY <2>2, JobIs DEF SameRoutes, SameCover
  <2> HIDE DEF k, s
  <2>5. KeptOf(k, s)
    BY <2>2, <2>4 DEF KeptOf, SameRoutes, SameCover
  <2>6. CoverOf(k, s)
    BY <2>2, <2>4 DEF CoverOf, SameCover
  <2>7. ReportOf(k, s, local)
    BY <2>2, <2>4 DEF ReportOf, SameRoutes
  <2>8. BatchOf(k, s, local)
    BY <2>2, <2>4 DEF BatchOf, SameRoutes
  <2>9. Onward(job, k)
    BY <2>2, <2>4 DEF Onward, SameRoutes
  <2>10. k.at # "done" /\ (k.at = "trace" /\ local => job.scope <= k.routedOn /\ k.routedOn <= graph)
    BY <2>1, <2>4 DEF Busy, RouteInv, GraphOf
  <2>11. Fine(k, s, local)
    BY <2>5, <2>6, <2>7, <2>8 DEF Fine
  <2> QED
    BY <2>1, <2>3, <2>9, <2>10, <2>11, StepFine DEF s
<1>2. CASE Crash
  <2>1. job'.at = "idle"
    BY <1>2, IdleIs DEF Crash, Step
  <2> QED
    BY <2>1 DEF RouteInv, Busy, Honest
<1>3. CASE Rebuild
  <2>1. /\ graph' = graph + 1 /\ local' = local /\ packs' = packs /\ journal' = journal /\ job' = job
    BY <1>3 DEF Rebuild
  <2>2. (Busy' <=> Busy) /\ Saved' = Saved
    BY <2>1 DEF Busy, Saved
  <2>3. graph \in Nat /\ job.scope \in Nat /\ job.routedOn \in Nat
    BY Bounds, JobFields DEF TypeInv, TypeOK, Scope, Public
  <2>4. GraphOf(job, local, graph) => GraphOf(job, local, graph')
    BY <2>1, <2>3 DEF GraphOf
  <2> QED
    BY <2>1, <2>2, <2>4 DEF RouteInv
<1>4. CASE UNCHANGED vars
  <2>1. /\ graph' = graph /\ local' = local /\ packs' = packs /\ journal' = journal /\ job' = job
    BY <1>4 DEF vars
  <2>2. (Busy' <=> Busy) /\ Saved' = Saved
    BY <2>1 DEF Busy, Saved
  <2> QED
    BY <2>1, <2>2 DEF RouteInv
<1> QED
  BY <1>1, <1>2, <1>3, <1>4

\* Every step keeps what is said of the routes.
LEMMA RouteStep ==
    ASSUME TypeInv, RouteInv, [Next]_vars
    PROVE  RouteInv'
<1>1. CASE \E budget \in Budgets, milestone \in BOOLEAN, proposed \in SUBSET Candidates :
             Begin(budget, milestone, proposed)
  BY <1>1, BeginRoutes
<1>2. CASE Work
  <2>1. CASE LoopEnds \/ LoopCanceled \/ RoundEnds \/ \E aged \in BOOLEAN : Request(aged)
    BY <2>1, LoopRoutes
  <2>2. CASE \/ Canceled \/ FetchRoute \/ FetchRejected \/ FetchForbidden \/ FetchFails
             \/ TraceRejected \/ TraceFails \/ GraphChanged
    BY <2>2, AnswerRoutes
  <2>3. CASE \/ \E n \in 0 .. MaxRoutes : Overfull(n)
             \/ \E n \in 1 .. MaxRoutes, aged \in BOOLEAN : Accept(n, aged)
    BY <2>3, TakenRoutes
  <2>4. CASE \E r \in Regions : WritePack(r)
    BY <2>4, PackRoutes
  <2>5. CASE Flushed \/ SaveFlushed
    BY <2>5, FlushRoutes
  <2>6. CASE SaveRejected \/ \E proposed \in SUBSET Candidates : NextRound(proposed)
    BY <2>6, JournalRoutes
  <2>7. CASE Return
    BY <2>7, ReturnRoutes
  <2> QED
    BY <1>2, <2>1, <2>2, <2>3, <2>4, <2>5, <2>6, <2>7 DEF Work
<1>3. CASE Cancel \/ Crash \/ Rebuild \/ UNCHANGED vars
  BY <1>3, AnyTimeRoutes
<1> QED
  BY <1>1, <1>2, <1>3 DEF Next

\* Both invariants hold.
LEMMA RouteInvariant == Spec => [](TypeInv /\ RouteInv)
<1>1. Init => RouteInv
  <2>1. Init => job.at = "idle"
    BY IdleIs DEF Init
  <2> QED
    BY <2>1 DEF RouteInv, Busy, Honest
<1>2. TypeInv /\ RouteInv /\ [Next]_vars => TypeInv' /\ RouteInv'
  BY TypeStep, RouteStep
<1> QED
  BY <1>1, <1>2, TypeInit, PTL DEF Spec

\* Whenever the process ends or a write fails, a candidate whose routes are not
\* all in a pack will be taken up again: persistAttempted writes a candidate on
\* the list of those to skip only after its pack is selected, and advanceRound
\* leaves a round only after a flush.
THEOREM RoutesAreResumable == Spec => []ResumeSafe
<1>1. ASSUME TypeInv, RouteInv, Busy, journal.scope = job.scope, NEW c \in Candidates,
             job.kept[c] > Saved[c]
      PROVE  c \notin journal.attempted /\ RoundOf(c) >= journal.round
  <2>1. job \in Job /\ KeptOf(job, Saved) /\ Saved \in Catalogue /\ job.round \in Nat
    BY <1>1, AtWork
  <2>2. job.kept[c] \in Nat /\ Saved[c] \in Nat
    BY <2>1, JobFields, Bounds DEF Catalogue
  <2>3. c \notin job.attempted /\ job.round <= RoundOf(c)
    BY <1>1, <2>1, <2>2 DEF KeptOf
  <2>4. journal.attempted \subseteq job.attempted /\ journal.round <= job.round
    BY <1>1 DEF RouteInv, JournalOf
  <2>5. journal.round \in Nat
    BY <1>1, Bounds DEF TypeInv, TypeOK, Journal
  <2> QED
    BY <2>1, <2>3, <2>4, <2>5, RoundIs
<1>2. TypeInv /\ RouteInv => ResumeSafe
  BY <1>1 DEF ResumeSafe
<1> QED
  BY <1>2, RouteInvariant, PTL

\* Never more than LOCAL_BATCH_SIZE routes are in memory only, and an action
\* makes no more requests than maxRequests, its retries included.
THEOREM BatchesAreBounded == Spec => []WithinLimits
<1>1. ASSUME TypeInv, RouteInv, Busy
      PROVE  Count(job.kept) <= Count(Saved) + BatchSize /\ job.attempts <= job.budget
  <2>1. /\ job \in Job /\ Saved \in Catalogue /\ BatchOf(job, Saved, local)
        /\ RequestOf(job, local) /\ job.unsaved \in Nat
    BY <1>1, AtWork
  <2>2. Count(job.kept) \in Nat /\ Count(Saved) \in Nat
    BY <2>1, JobFields, Counts
  <2>3. Count(job.kept) <= Count(Saved) + BatchSize
    BY <2>1, <2>2, Bounds DEF BatchOf
  <2>4. job.attempts <= job.budget
    BY <2>1 DEF RequestOf
  <2> QED
    BY <2>3, <2>4
<1>2. TypeInv /\ RouteInv => WithinLimits
  BY <1>1 DEF WithinLimits
<1> QED
  BY <1>2, RouteInvariant, PTL

\* The status prepare() returns is true of the packs on disk, although the
\* coverage it rests on was assessed before, or found stale and assessed again.
THEOREM ResultsAreTrue == Spec => []ResultHonest
<1>1. RouteInv => ResultHonest
  BY DEF RouteInv, Honest, ResultHonest
<1> QED
  BY <1>1, RouteInvariant, PTL

\* The operators that bring no route leave the catalogue in memory as it is.
LEMMA KeptStays ==
    ASSUME NEW j \in Job
    PROVE  /\ \A after \in Afters : Flush(j, after).kept = j.kept
           /\ \A status \in Status : Finish(j, status).kept = j.kept
           /\ \A n \in Nat : Counted(j, n) \in Job /\ Counted(j, n).kept = j.kept
           /\ Reject(j).kept = j.kept /\ Ask(j).kept = j.kept
           /\ AfterFlush(j).kept = j.kept
<1>1. \A after \in Afters : Flush(j, after).kept = j.kept
  BY FlushIs DEF Same, SameRoutes
<1>2. \A status \in Status : Finish(j, status).kept = j.kept
  BY FinishIs DEF Same, SameRoutes
<1>3. \A n \in Nat : Counted(j, n) \in Job /\ Counted(j, n).kept = j.kept
  BY CountedIs DEF SameRoutes
<1>4. ASSUME NEW i \in Job PROVE Ask(i).kept = i.kept
  BY JobIs DEF Ask
<1>5. Reject(j).kept = j.kept
  BY JobIs DEF Reject, Settled
<1>6. AfterFlush(j).kept = j.kept
  <2> DEFINE i == Cleared(j)
  <2>1. i \in Job /\ i.kept = j.kept
    BY ClearedIs DEF SameRoutes
  <2> HIDE DEF i
  <2>2. Ask(i).kept = i.kept
    BY <1>4, <2>1
  <2>3. Advance(i).kept = i.kept
    BY <2>1, AdvanceIs
  <2>4. Evaluate(i).kept = i.kept
    BY <2>1, EvaluateIs DEF SameRoutes
  <2>5. Close(i).kept = i.kept
    BY <2>1, CloseIs DEF SameRoutes
  <2>6. j.after \in Afters
    BY JobFields
  <2> QED
    BY <2>1, <2>2, <2>3, <2>4, <2>5, <2>6, AfterFlushIs DEF Afters, i
<1> QED
  BY <1>1, <1>2, <1>3, <1>4, <1>5, <1>6

\* A route that an action takes in was routed on the graph it started with: the
\* router's graph is asked for before and after the request, and a restart in
\* between can only have made it a later one.
LEMMA OneGraphStep ==
    ASSUME TypeInv, RouteInv, Next, local, job'.kept # job.kept, Busy, Busy'
    PROVE  job.routedOn = job.scope
<1>1. job \in Job
  BY AtWork
<1>2. /\ "request" \in Afters /\ "advance" \in Afters /\ "evaluate" \in Afters
      /\ "canceled" \in Status /\ "candidates-exhausted" \in Status /\ "blocked" \in Status
      /\ "request-limit" \in Status /\ "graph-changed" \in Status /\ job.status \in Status
  BY <1>1, Words, JobFields
<1>3. ASSUME NEW k, k.kept = job.kept PROVE job' # k
  BY <1>3
<1>4. ~ (LoopEnds \/ LoopCanceled \/ RoundEnds \/ \E aged \in BOOLEAN : Request(aged))
  <2>1. \A after \in Afters : job' # Flush(job, after)
    BY <1>1, KeptStays
  <2>2. \A status \in Status : job' # Finish(job, status)
    BY <1>1, KeptStays
  <2>3. job' # Ask(job)
    BY <1>1, KeptStays
  <2>4. ~LoopEnds
    BY <1>2, <2>1, <2>2 DEF LoopEnds, Step
  <2>5. ~LoopCanceled
    BY <1>2, <2>2 DEF LoopCanceled, Step
  <2>6. ~RoundEnds
    BY <1>2, <2>1, <2>2 DEF RoundEnds, Step
  <2>7. ~ \E aged \in BOOLEAN : Request(aged)
    BY <1>2, <2>1, <2>3 DEF Request, Step
  <2> QED
    BY <2>4, <2>5, <2>6, <2>7
<1>5. ~ (\/ Canceled \/ FetchRoute \/ FetchRejected \/ FetchForbidden \/ FetchFails
         \/ TraceRejected \/ TraceFails \/ GraphChanged)
  <2> DEFINE j(n) == Counted(job, n)
  <2>1. \A n \in {0, 1} : j(n) \in Job /\ j(n).kept = job.kept
    BY <1>1, KeptStays
  <2>2. \A status \in Status : job' # Finish(job, status) /\ \A n \in {0, 1} : job' # Finish(j(n), status)
    BY <1>1, <2>1, KeptStays
  <2>3. job' # Reject(job) /\ job' # Reject(j(1))
    BY <1>1, <2>1, KeptStays
  <2>4. \A v : job' # [j(1) EXCEPT !.at = "trace", !.routedOn = v]
    <3>1. \A v : [j(1) EXCEPT !.at = "trace", !.routedOn = v].kept = j(1).kept
      BY <2>1, JobIs
    <3> QED
      BY <2>1, <3>1
  <2>5. job' # [j(1) EXCEPT !.call = @ + 1]
    <3>1. [j(1) EXCEPT !.call = @ + 1].kept = j(1).kept
      BY <2>1, JobIs
    <3> QED
      BY <2>1, <3>1
  <2>6. ~Canceled /\ ~TraceFails /\ ~GraphChanged
    BY <1>2, <2>2 DEF Canceled, TraceFails, GraphChanged, Step
  <2>7. ~FetchRejected /\ ~TraceRejected
    BY <2>3 DEF FetchRejected, TraceRejected, Step
  <2>8. ~FetchForbidden
    BY <1>2, <2>2 DEF FetchForbidden, Step
  <2>9. ~FetchRoute
    BY <2>4 DEF FetchRoute, Step
  <2>10. ~FetchFails
    BY <1>2, <2>2, <2>5 DEF FetchFails, Step
  <2> QED
    BY <2>6, <2>7, <2>8, <2>9, <2>10
<1>6. CASE \/ \E n \in 0 .. MaxRoutes : Overfull(n)
           \/ \E n \in 1 .. MaxRoutes, aged \in BOOLEAN : Accept(n, aged)
  <2>1. job.at = "trace" /\ graph = job.scope
    BY <1>6 DEF Overfull, Accept, SameGraph
  <2>2. job.scope <= job.routedOn /\ job.routedOn <= graph
    BY <2>1 DEF RouteInv, GraphOf
  <2>3. job.scope \in Nat /\ job.routedOn \in Nat
    BY <1>1, JobFields, Bounds DEF Scope, Public
  <2> QED
    BY <2>1, <2>2, <2>3
<1>7. ~ ((\E r \in Regions : WritePack(r)) \/ Flushed \/ SaveFlushed \/ SaveRejected)
  <2>1. job' # [job EXCEPT !.changed = TRUE]
    <3>1. [job EXCEPT !.changed = TRUE].kept = job.kept
      BY <1>1, JobIs
    <3> QED
      BY <3>1
  <2>2. job' # [job EXCEPT !.rejected = 0, !.at = "loop"]
    <3>1. [job EXCEPT !.rejected = 0, !.at = "loop"].kept = job.kept
      BY <1>1, JobIs
    <3> QED
      BY <3>1
  <2>3. job' # Noted(job) /\ job' # AfterFlush(job)
    BY <1>1, NotedIs, KeptStays
  <2>4. job' # AfterFlush(Journaled)
    BY <1>1, JournaledIs, KeptStays
  <2>5. ~ \E r \in Regions : WritePack(r)
    BY <2>1 DEF WritePack
  <2>6. ~Flushed
    BY <2>3 DEF Flushed, Noted, Step
  <2>7. ~SaveFlushed
    BY <2>4 DEF SaveFlushed, Journaled
  <2>8. ~SaveRejected
    BY <2>2 DEF SaveRejected
  <2> QED
    BY <2>5, <2>6, <2>7, <2>8
<1>8. ~ \E proposed \in SUBSET Candidates : NextRound(proposed)
  <2> DEFINE j == [job EXCEPT !.rejected = 0, !.at = "loop"]
  <2>1. j \in Job /\ j.kept = job.kept
    BY <1>1, JobIs, Words
  <2> HIDE DEF j
  <2>2. \A proposed \in SUBSET Candidates : job' # LoadRound(j, proposed)
    BY <2>1, LoadRoundIs DEF Same, SameRoutes
  <2>3. \A status : job' # [j EXCEPT !.status = status]
    <3>1. \A status : [j EXCEPT !.status = status].kept = j.kept
      BY <2>1, JobIs
    <3> QED
      BY <2>1, <3>1
  <2> QED
    BY <2>2, <2>3 DEF NextRound, j
<1>9. ~Return /\ ~Crash
  <2>1. ~Return
    <3>1. ASSUME Return PROVE job'.at = "done"
      <4>1. Result(job) \in Status /\ job' = Returned(job, Result(job))
        BY <1>1, <3>1, ResultIs DEF Return, Returned
      <4> QED
        BY <1>1, <4>1, ReturnedIs
    <3> QED
      BY <3>1 DEF Busy
  <2>2. ~Crash
    BY IdleIs DEF Crash, Step, Busy
  <2> QED
    BY <2>1, <2>2
<1>10. ~Cancel /\ ~Rebuild
  <2>1. [job EXCEPT !.aborted = TRUE].kept = job.kept
    BY <1>1, JobIs
  <2>2. ~Cancel
    BY <2>1 DEF Cancel, Step
  <2> QED
    BY <2>2 DEF Rebuild
<1>11. ~ \E budget \in Budgets, milestone \in BOOLEAN, proposed \in SUBSET Candidates :
             Begin(budget, milestone, proposed)
  BY DEF Begin
<1>12. Work
  BY <1>9, <1>10, <1>11 DEF Next
<1> QED
  BY <1>4, <1>5, <1>6, <1>7, <1>8, <1>9, <1>12 DEF Work

\* Routes of two graphs are never mixed: whatever enters the catalogue of an
\* action was routed on the graph its packs name.
THEOREM GraphsAreNotMixed == Spec => OneGraph
<1> DEFINE A == local /\ job'.kept # job.kept /\ Busy /\ Busy' => job.routedOn = job.scope
<1>1. TypeInv /\ RouteInv /\ [Next]_vars => [A]_vars
  <2>1. TypeInv /\ RouteInv /\ Next => A
    BY OneGraphStep
  <2> QED
    BY <2>1
<1>2. [][TypeInv /\ RouteInv /\ [Next]_vars]_vars => [][A]_vars
  BY <1>1, PTL
<1> HIDE DEF A
<1>3. Spec => [][A]_vars
  BY <1>1, RouteInvariant, PTL DEF Spec
<1> QED
  BY <1>3 DEF OneGraph, A
=============================================================================
