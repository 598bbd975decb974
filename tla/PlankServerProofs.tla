-------------------------- MODULE PlankServerProofs --------------------------
(***************************************************************************)
(* Proofs about PlankServer, for all services, calls, bridges, paths,      *)
(* methods and requests: what is proved of the routes of services, of the  *)
(* endpoints of the HTTP router and of the responses to requests.          *)
(***************************************************************************)
EXTENDS PlankServer, FiniteSetTheorems, TLAPS

(***************************************************************************)
(* Least and greatest members of sets of natural numbers.                  *)
(***************************************************************************)
\* A set of natural numbers has a least member (SelectInSeq, Drained).
LEMMA SmallestOf ==
  ASSUME NEW S, S \subseteq Nat, S # {}
  PROVE  \E n \in S : \A m \in S : n <= m
<1> DEFINE Less == OpToRel(<, Nat)
           IsLess(m, n) == <<m, n>> \in Less
<1>1. \A m, n \in Nat : m < n => IsLess(m, n)
  BY DEF OpToRel
<1>2. IsWellFoundedOn(Less, Nat)
  BY NatLessThanWellFounded
<1> HIDE DEF Less
<1>3. PICK n \in S : \A m \in S : ~IsLess(m, n)
  BY <1>2, WFMin
<1> HIDE DEF IsLess
<1>4. \A m \in S : n <= m
  BY <1>1, <1>3
<1> QED
  BY <1>4

\* One with a bound has a greatest (Named, Dispatch).
LEMMA LargestOf ==
  ASSUME NEW S, S \subseteq Nat, S # {}, NEW b \in Nat, \A n \in S : n <= b
  PROVE  \E n \in S : \A m \in S : m <= n
<1> DEFINE Below == {m \in 0..b : b - m \in S}
<1>1. Below \subseteq Nat /\ Below # {}
  <2>1. PICK n \in S : n <= b
    OBVIOUS
  <2>2. b - n \in 0..b /\ b - (b - n) = n
    BY <2>1
  <2>3. b - n \in Below /\ \A m \in Below : m \in Nat
    BY <2>2
  <2> HIDE DEF Below
  <2> QED
    BY <2>3
<1>2. PICK d \in Below : \A m \in Below : d <= m
  <2> HIDE DEF Below
  <2> QED
    BY <1>1, SmallestOf
<1>3. \A m \in S : m <= b - d
  <2> SUFFICES ASSUME NEW m \in S PROVE m <= b - d
    OBVIOUS
  <2>1. b - m \in 0..b /\ b - (b - m) = m
    OBVIOUS
  <2>2. d <= b - m
    BY <1>2, <2>1
  <2> QED
    BY <1>2, <2>2
<1> QED
  BY <1>2, <1>3

\* The elements of two sequences, one after the other.
LEMMA Concatenation ==
  ASSUME NEW S, NEW a \in Seq(S), NEW b \in Seq(S)
  PROVE  /\ a \o b \in Seq(S) /\ Len(a \o b) = Len(a) + Len(b)
         /\ \A i \in 1..(Len(a) + Len(b)) :
              (a \o b)[i] = IF i <= Len(a) THEN a[i] ELSE b[i - Len(a)]
OBVIOUS

(***************************************************************************)
(* How often a service is pending.                                         *)
(***************************************************************************)
Occurrences(q, s) == Cardinality({i \in DOMAIN q : q[i] = s})

LEMMA OccurrencesType ==
  ASSUME NEW S, NEW q \in Seq(S), NEW s
  PROVE  /\ IsFiniteSet({i \in DOMAIN q : q[i] = s})
         /\ Occurrences(q, s) \in Nat
<1>1. IsFiniteSet(1..Len(q))
  BY FS_Interval
<1>2. {i \in DOMAIN q : q[i] = s} \in SUBSET (1..Len(q))
  OBVIOUS
<1>3. IsFiniteSet({i \in DOMAIN q : q[i] = s})
  BY <1>1, <1>2, FS_Subset
<1> QED
  BY <1>3, FS_CardinalityType DEF Occurrences

LEMMA NoOccurrence ==
  ASSUME NEW q, NEW s, \A i \in DOMAIN q : q[i] # s
  PROVE  Occurrences(q, s) = 0
<1>1. {i \in DOMAIN q : q[i] = s} = {}
  OBVIOUS
<1> QED
  BY <1>1, FS_EmptySet DEF Occurrences

\* A service is pending once more when it is appended.
LEMMA OccurrencesAppend ==
  ASSUME NEW S, NEW q \in Seq(S), NEW e \in S, NEW s
  PROVE  Occurrences(Append(q, e), s) = Occurrences(q, s) + (IF e = s THEN 1 ELSE 0)
<1> DEFINE I == {i \in DOMAIN q : q[i] = s}
           J == {i \in DOMAIN Append(q, e) : Append(q, e)[i] = s}
<1>1. IsFiniteSet(I) /\ Cardinality(I) \in Nat
  BY OccurrencesType DEF Occurrences
<1>4. Occurrences(q, s) = Cardinality(I) /\ Occurrences(Append(q, e), s) = Cardinality(J)
  BY DEF Occurrences
<1>2. CASE e = s
  <2>1. J = I \cup {Len(q) + 1} /\ Len(q) + 1 \notin I
    BY <1>2
  <2> HIDE DEF I, J
  <2>2. Cardinality(J) = Cardinality(I) + 1
    BY <1>1, <2>1, FS_AddElement
  <2> QED
    BY <1>2, <1>4, <2>2
<1>3. CASE e # s
  <2>1. J = I
    BY <1>3
  <2> HIDE DEF I, J
  <2>2. Cardinality(J) = Cardinality(I) /\ Cardinality(I) \in Nat
    BY <1>1, <2>1
  <2> QED
    BY <1>3, <1>4, <2>2
<1> QED
  BY <1>2, <1>3

\* RemoveFirst leaves a sequence without the element as it is.
LEMMA RemovingNone ==
  ASSUME NEW S, NEW q \in Seq(S), NEW e, ~\E i \in 1..Len(q) : q[i] = e
  PROVE  RemoveFirst(q, e) = q
BY DEF RemoveFirst

\* RemoveFirst takes one element out, and the rest moves up.
LEMMA RemovingFirst ==
  ASSUME NEW S, NEW q \in Seq(S), NEW e, \E i \in 1..Len(q) : q[i] = e
  PROVE  \E k \in 1..Len(q) :
           /\ q[k] = e
           /\ RemoveFirst(q, e) \in Seq(S) /\ Len(RemoveFirst(q, e)) = Len(q) - 1
           /\ \A i \in 1..(Len(q) - 1) :
                RemoveFirst(q, e)[i] = IF i < k THEN q[i] ELSE q[i + 1]
<1> DEFINE I == {i \in 1..Len(q) : q[i] = e}
<1>1. SelectInSeq(q, LAMBDA v : v = e) = Min(I)
  BY DEF SelectInSeq
<1>2. I \subseteq Nat /\ I # {}
  OBVIOUS
<1>3. \E n \in I : \A m \in I : n <= m
  <2> HIDE DEF I
  <2> QED
    BY <1>2, SmallestOf
<1>4. Min(I) \in I
  <2> HIDE DEF I
  <2> QED
    BY <1>3 DEF Min
<1> DEFINE k == Min(I)
<1>5. k \in 1..Len(q) /\ q[k] = e
  BY <1>4
<1>6. RemoveFirst(q, e) = SubSeq(q, 1, k - 1) \o SubSeq(q, k + 1, Len(q))
  BY <1>1 DEF RemoveFirst, RemoveAt
<1> HIDE DEF k, I
<1>7. /\ SubSeq(q, 1, k - 1) \in Seq(S) /\ Len(SubSeq(q, 1, k - 1)) = k - 1
      /\ \A i \in 1..(k - 1) : SubSeq(q, 1, k - 1)[i] = q[i]
      /\ SubSeq(q, k + 1, Len(q)) \in Seq(S) /\ Len(SubSeq(q, k + 1, Len(q))) = Len(q) - k
      /\ \A i \in 1..(Len(q) - k) : SubSeq(q, k + 1, Len(q))[i] = q[k + i]
  BY <1>5
<1> DEFINE a == SubSeq(q, 1, k - 1)
           b == SubSeq(q, k + 1, Len(q))
<1>8. /\ a \in Seq(S) /\ Len(a) = k - 1 /\ \A i \in 1..(k - 1) : a[i] = q[i]
      /\ b \in Seq(S) /\ Len(b) = Len(q) - k /\ \A i \in 1..(Len(q) - k) : b[i] = q[k + i]
  BY <1>7
<1> HIDE DEF a, b
<1>9. /\ a \o b \in Seq(S) /\ Len(a \o b) = Len(q) - 1
      /\ \A i \in 1..(Len(q) - 1) : (a \o b)[i] = IF i < k THEN a[i] ELSE b[i - (k - 1)]
  <2>1. Len(a) + Len(b) = Len(q) - 1 /\ \A i \in 1..(Len(q) - 1) : i < k <=> i <= Len(a)
    BY <1>5, <1>8
  <2> QED
    BY <1>8, <2>1, Concatenation
<1>10. \A i \in 1..(Len(q) - 1) : (a \o b)[i] = IF i < k THEN q[i] ELSE q[i + 1]
  <2> SUFFICES ASSUME NEW i \in 1..(Len(q) - 1)
               PROVE  (a \o b)[i] = IF i < k THEN q[i] ELSE q[i + 1]
    OBVIOUS
  <2>1. CASE i < k
    BY <1>5, <1>8, <1>9, <2>1
  <2>2. CASE ~(i < k)
    <3>1. i - (k - 1) \in 1..(Len(q) - k) /\ k + (i - (k - 1)) = i + 1
      BY <1>5, <2>2
    <3>2. b[i - (k - 1)] = q[k + (i - (k - 1))]
      BY <1>8, <3>1
    <3> QED
      BY <1>9, <2>2, <3>1, <3>2
  <2> QED
    BY <2>1, <2>2
<1>11. RemoveFirst(q, e) = a \o b
  BY <1>6 DEF a, b
<1> QED
  BY <1>5, <1>9, <1>10, <1>11

\* ... so that this element is there once less, and any other as often.
LEMMA OccurrencesRemoveFirst ==
  ASSUME NEW S, NEW q \in Seq(S), NEW e, \E i \in 1..Len(q) : q[i] = e, NEW s
  PROVE  /\ RemoveFirst(q, e) \in Seq(S)
         /\ Occurrences(RemoveFirst(q, e), s)
              = Occurrences(q, s) - (IF e = s THEN 1 ELSE 0)
<1> DEFINE r == RemoveFirst(q, e)
<1>1. PICK k \in 1..Len(q) :
           /\ q[k] = e
           /\ r \in Seq(S) /\ Len(r) = Len(q) - 1
           /\ \A i \in 1..(Len(q) - 1) : r[i] = IF i < k THEN q[i] ELSE q[i + 1]
  BY RemovingFirst
<1> HIDE DEF r
<1> DEFINE I == {i \in DOMAIN q : q[i] = s}
           J == {i \in DOMAIN r : r[i] = s}
           f == [i \in J |-> IF i < k THEN i ELSE i + 1]
<1>2. f \in Bijection(J, I \ {k})
  <2>1. f \in [J -> I \ {k}]
    BY <1>1
  <2>2. \A i, j \in J : f[i] = f[j] => i = j
    BY <1>1
  <2>3. \A j \in I \ {k} : \E i \in J : f[i] = j
    <3> SUFFICES ASSUME NEW j \in I \ {k} PROVE \E i \in J : f[i] = j
      OBVIOUS
    <3>1. CASE j < k
      <4>1. j \in J /\ f[j] = j
        BY <1>1, <3>1
      <4> QED
        BY <4>1
    <3>2. CASE ~(j < k)
      <4>1. j - 1 \in J /\ f[j - 1] = j
        BY <1>1, <3>2
      <4> QED
        BY <4>1
    <3> QED
      BY <3>1, <3>2
  <2> HIDE DEF f, I, J
  <2> QED
    BY <2>1, <2>2, <2>3 DEF Bijection, Injection, IsInjective, Surjection
<1>3. IsFiniteSet(I) /\ IsFiniteSet(J) /\ Cardinality(I) \in Nat
  BY <1>1, OccurrencesType DEF Occurrences
<1>4. k \in I <=> e = s
  BY <1>1
<1> HIDE DEF f, I, J
<1>5. Cardinality(J) = Cardinality(I \ {k})
  BY <1>2, <1>3, FS_Bijection DEF ExistsBijection
<1>6. Cardinality(I \ {k}) = IF k \in I THEN Cardinality(I) - 1 ELSE Cardinality(I)
  BY <1>3, FS_RemoveElement
<1>7. Occurrences(q, s) = Cardinality(I) /\ Occurrences(r, s) = Cardinality(J)
  BY DEF Occurrences, I, J
<1>8. Occurrences(r, s) = Occurrences(q, s) - (IF e = s THEN 1 ELSE 0)
  BY <1>3, <1>4, <1>5, <1>6, <1>7
<1> QED
  BY <1>1, <1>8 DEF r

(***************************************************************************)
(* The HTTP router: clones, names, and the route that answers a request.   *)
(***************************************************************************)
\* The routes of a clone are those of the router without some, in some order,
\* each once.
LEMMA ClonedRoutes ==
  ASSUME NEW R, NEW routes \in Seq(R), NEW names
  PROVE  LET clone == CloneExcluding(routes, names)
         IN  /\ clone \in Seq(R)
             /\ \E f \in [DOMAIN clone -> DOMAIN routes] :
                  /\ \A n \in DOMAIN clone : /\ clone[n] = routes[f[n]]
                                             /\ routes[f[n]].name \notin names
                  /\ \A m, n \in DOMAIN clone : f[m] = f[n] => m = n
                  /\ \A i \in DOMAIN routes :
                       routes[i].name \notin names => \E n \in DOMAIN clone : f[n] = i
<1> DEFINE clone == CloneExcluding(routes, names)
           kept == {i \in DOMAIN routes : routes[i].name \notin names}
           K == Cardinality(kept)
           Earlier(i) == {j \in kept : j < i}
           g == [i \in kept |-> Cardinality(Earlier(i)) + 1]
<1>1. IsFiniteSet(kept) /\ K \in Nat /\ kept \subseteq Nat
  <2>1. IsFiniteSet(1..Len(routes)) /\ kept \in SUBSET (1..Len(routes))
    BY FS_Interval
  <2> QED
    BY <2>1, FS_Subset, FS_CardinalityType
<1>2. \A i \in kept : /\ IsFiniteSet(Earlier(i)) /\ Cardinality(Earlier(i)) \in Nat
                      /\ Cardinality(Earlier(i)) + 1 <= K
  <2> SUFFICES ASSUME NEW i \in kept
               PROVE  /\ IsFiniteSet(Earlier(i)) /\ Cardinality(Earlier(i)) \in Nat
                      /\ Cardinality(Earlier(i)) + 1 <= K
    OBVIOUS
  <2>1. Earlier(i) \in SUBSET kept /\ i \notin Earlier(i) /\ i \in kept
    BY <1>1
  <2> HIDE DEF Earlier, kept
  <2>2. /\ IsFiniteSet(Earlier(i)) /\ Cardinality(Earlier(i)) \in Nat
        /\ Cardinality(Earlier(i)) <= K /\ Cardinality(Earlier(i)) # K
    BY <1>1, <2>1, FS_Subset, FS_CardinalityType
  <2> QED
    BY <1>1, <2>2
<1>3. \A i, j \in kept : i < j => Cardinality(Earlier(i)) < Cardinality(Earlier(j))
  <2> SUFFICES ASSUME NEW i \in kept, NEW j \in kept, i < j
               PROVE  Cardinality(Earlier(i)) < Cardinality(Earlier(j))
    OBVIOUS
  <2>1. /\ Earlier(i) \in SUBSET Earlier(j) /\ i \notin Earlier(i) /\ i \in Earlier(j)
    BY <1>1
  <2> HIDE DEF Earlier, kept
  <2>2. /\ Cardinality(Earlier(i)) <= Cardinality(Earlier(j))
        /\ Cardinality(Earlier(i)) # Cardinality(Earlier(j))
    BY <1>2, <2>1, FS_Subset
  <2> QED
    BY <1>2, <2>2
<1>4. g \in Injection(kept, 1..K)
  <2>1. g \in [kept -> 1..K]
    <3> HIDE DEF Earlier, kept
    <3> QED
      BY <1>1, <1>2
  <2>2. \A i, j \in kept : g[i] = g[j] => i = j
    <3> HIDE DEF Earlier, kept
    <3> QED
      BY <1>1, <1>2, <1>3
  <2> HIDE DEF g, kept
  <2> QED
    BY <2>1, <2>2 DEF Injection, IsInjective
<1>5. \A n \in 1..K : \E i \in kept : g[i] = n
  <2>1. IsFiniteSet(1..K) /\ Cardinality(1..K) = K
    BY <1>1, FS_Interval
  <2> HIDE DEF g, kept
  <2>2. g \in Surjection(kept, 1..K)
    BY <1>4, <2>1, FS_Injection
  <2> QED
    BY <2>2 DEF Surjection
<1> DEFINE f == [n \in 1..K |-> CHOOSE i \in kept : Cardinality(Earlier(i)) = n - 1]
<1>6. \A n \in 1..K : f[n] \in kept /\ Cardinality(Earlier(f[n])) = n - 1
  <2> SUFFICES ASSUME NEW n \in 1..K
               PROVE  f[n] \in kept /\ Cardinality(Earlier(f[n])) = n - 1
    OBVIOUS
  <2>1. PICK i \in kept : g[i] = n
    BY <1>5
  <2>2. Cardinality(Earlier(i)) = n - 1
    <3> HIDE DEF Earlier, kept
    <3> QED
      BY <1>2, <2>1
  <2>3. f[n] = CHOOSE j \in kept : Cardinality(Earlier(j)) = n - 1
    OBVIOUS
  <2> HIDE DEF f, Earlier, kept
  <2> QED
    BY <2>2, <2>3
<1>7. clone = [n \in 1..K |-> routes[f[n]]]
  BY DEF CloneExcluding
<1> HIDE DEF clone, f
<1>8. DOMAIN clone = 1..K /\ \A n \in 1..K : clone[n] = routes[f[n]]
  BY <1>7
<1>9. \A n \in 1..K : f[n] \in DOMAIN routes /\ routes[f[n]].name \notin names
  BY <1>6
<1>10. clone \in Seq(R)
  <2>1. \A n \in 1..K : routes[f[n]] \in R
    BY <1>9
  <2> QED
    BY <1>1, <1>7, <2>1
<1>11. f \in [DOMAIN clone -> DOMAIN routes]
  BY <1>8, <1>9 DEF f
<1>12. \A m, n \in DOMAIN clone : f[m] = f[n] => m = n
  <2> SUFFICES ASSUME NEW m \in 1..K, NEW n \in 1..K, f[m] = f[n] PROVE m = n
    BY <1>8
  <2>1. m - 1 = n - 1
    BY <1>6
  <2> QED
    BY <1>1, <2>1
<1>13. \A i \in kept : \E n \in 1..K : f[n] = i
  <2> SUFFICES ASSUME NEW i \in kept PROVE \E n \in 1..K : f[n] = i
    OBVIOUS
  <2> DEFINE n == Cardinality(Earlier(i)) + 1
  <2>1. n \in 1..K /\ n - 1 = Cardinality(Earlier(i))
    <3> HIDE DEF Earlier, kept
    <3> QED
      BY <1>1, <1>2
  <2>2. f[n] \in kept /\ Cardinality(Earlier(f[n])) = Cardinality(Earlier(i))
    BY <1>6, <2>1
  <2> HIDE DEF n, Earlier, kept
  <2>3. ~(f[n] < i) /\ ~(i < f[n])
    BY <1>2, <1>3, <2>2
  <2>4. f[n] \in Nat /\ i \in Nat
    BY <1>1, <2>2
  <2>5. f[n] = i
    BY <2>3, <2>4
  <2> QED
    BY <2>1, <2>5
<1>14. \A i \in DOMAIN routes :
         routes[i].name \notin names => \E n \in DOMAIN clone : f[n] = i
  BY <1>8, <1>13
<1> QED
  BY <1>8, <1>9, <1>10, <1>11, <1>12, <1>14 DEF clone

\* Get returns a route of the name, if there is one.
LEMMA NamedRoute ==
  ASSUME NEW R, NEW routes \in Seq(R), NEW k, Named(routes, k) # 0
  PROVE  Named(routes, k) \in DOMAIN routes /\ routes[Named(routes, k)].name = k
<1> DEFINE having == {i \in DOMAIN routes : routes[i].name = k}
<1>1. having # {} /\ having \subseteq Nat /\ \A i \in having : i <= Len(routes)
  BY DEF Named
<1>2. Named(routes, k) = CHOOSE i \in having : \A j \in having : j <= i
  BY <1>1 DEF Named
<1>3. Len(routes) \in Nat
  OBVIOUS
<1>4. Named(routes, k) \in having
  <2> HIDE DEF having
  <2>1. \E i \in having : \A j \in having : j <= i
    BY <1>1, <1>3, LargestOf
  <2> QED
    BY <1>2, <2>1
<1> QED
  BY <1>4

\* What the routes of the server are: those for one method have no prefix, and
\* those with a prefix take every method (registerHttpBridgeRoute).
Routed(rt) ==
  /\ rt.path \in Seq(STRING) /\ rt.prefix \in BOOLEAN
  /\ AnyMethod \notin rt.methods /\ (rt.prefix <=> rt.methods = {})

LEMMA PatternFields ==
  ASSUME NEW m, NEW path, NEW t
  PROVE  /\ Pattern(m, path, t).method = m /\ Pattern(m, path, t).path = path
         /\ Pattern(m, path, t).subtree = t
BY DEF Pattern

\* The patterns of a route have its path, and one of its methods or none.
LEMMA PatternsOfRoute ==
  ASSUME NEW rt, Routed(rt), NEW p
  PROVE  p \in DispatchPatterns(rt) <=>
           /\ p = Pattern(p.method, rt.path, p.subtree) /\ p.path = rt.path
           /\ p.subtree \in BOOLEAN
           /\ IF rt.prefix THEN p.method = AnyMethod /\ (~p.subtree => rt.path # <<>>)
              ELSE p.method \in rt.methods /\ ~p.subtree
<1>0. /\ rt.methods = {} => rt.prefix = TRUE
      /\ rt.methods # {} => rt.prefix = FALSE
  BY DEF Routed
<1>1. \A q : q \in PathPatterns(rt) <=>
               \E t \in BOOLEAN : /\ IF t THEN rt.prefix ELSE ~rt.prefix \/ rt.path # <<>>
                                  /\ q = Pattern(AnyMethod, rt.path, t)
  BY DEF PathPatterns
<1>4. \A m, t : p = Pattern(m, rt.path, t) => p.method = m /\ p.path = rt.path /\ p.subtree = t
  BY DEF Pattern
<1>2. CASE rt.methods = {}
  <2>1. DispatchPatterns(rt) = PathPatterns(rt)
    BY <1>2 DEF DispatchPatterns
  <2>2. rt.prefix = TRUE
    BY <1>0, <1>2
  <2>3. p \in DispatchPatterns(rt) <=>
          \E t \in BOOLEAN : (~t => rt.path # <<>>) /\ p = Pattern(AnyMethod, rt.path, t)
    BY <1>1, <2>1, <2>2
  <2> QED
    BY <1>4, <2>2, <2>3
<1>3. CASE rt.methods # {}
  <2>1. p \in DispatchPatterns(rt) <=>
          \E q \in PathPatterns(rt), m \in rt.methods : p = Pattern(m, q.path, q.subtree)
    BY <1>3 DEF DispatchPatterns
  <2>2. rt.prefix = FALSE
    BY <1>0, <1>3
  <2>3. \A q : q \in PathPatterns(rt) <=> q = Pattern(AnyMethod, rt.path, FALSE)
    BY <1>1, <2>2
  <2>4. /\ Pattern(AnyMethod, rt.path, FALSE).path = rt.path
        /\ Pattern(AnyMethod, rt.path, FALSE).subtree = FALSE
    BY DEF Pattern
  <2>5. p \in DispatchPatterns(rt) <=> \E m \in rt.methods : p = Pattern(m, rt.path, FALSE)
    BY <2>1, <2>3, <2>4
  <2> QED
    BY <1>4, <2>2, <2>5
<1> QED
  BY <1>2, <1>3

\* A pattern that takes a path as a subtree ranks below one that is the path.
LEMMA Ranks ==
  ASSUME NEW p, NEW method, NEW path \in Seq(STRING),
         p.path \in Seq(STRING), p.subtree \in BOOLEAN, TakesPath(p, path)
  PROVE  /\ Rank(p, method, path) \in Nat /\ Rank(p, method, path) <= 3 * Len(path) + 5
         /\ p.subtree => Rank(p, method, path) <= 3 * Len(path) + 2
         /\ ~p.subtree => /\ p.path = path
                          /\ Rank(p, method, path) >= 3 * Len(path) + 3
                          /\ Rank(p, method, path) = 3 * Len(path) + 5 <=> p.method = method
<1>1. p.subtree => Len(p.path) <= Len(path)
  BY DEF TakesPath, IsStrictPrefix, IsPrefix
<1>2. Len(p.path) \in Nat /\ Len(path) \in Nat
  OBVIOUS
<1> DEFINE l == Len(p.path)
           n == Len(path)
<1>3. Rank(p, method, path) =
        3 * (IF p.subtree THEN l ELSE n + 1)
          + (IF p.method = method THEN 2 ELSE IF p.method = "GET" THEN 1 ELSE 0)
  BY DEF Rank
<1>4. ~p.subtree => p.path = path
  BY DEF TakesPath
<1> HIDE DEF l, n
<1>5. l \in Nat /\ n \in Nat /\ (p.subtree => l <= n)
  BY <1>1, <1>2 DEF l, n
<1>6. /\ Rank(p, method, path) \in Nat /\ Rank(p, method, path) <= 3 * n + 5
      /\ p.subtree => Rank(p, method, path) <= 3 * n + 2
      /\ ~p.subtree => /\ Rank(p, method, path) >= 3 * n + 3
                       /\ Rank(p, method, path) = 3 * n + 5 <=> p.method = method
  BY <1>3, <1>5
<1> QED
  BY <1>4, <1>6 DEF n

LEMMA RegisteredRoutes ==
  ASSUME NEW R, NEW routes \in Seq(R), NEW e
  PROVE  e \in Registered(routes) <=>
           /\ e = [route |-> e.route, pattern |-> e.pattern]
           /\ e.route \in DOMAIN routes /\ First(routes, e.route, e.pattern)
BY DEF Registered, First, Claims

\* What is known of a route that is considered for a request.
LEMMA MatchingRoutes ==
  ASSUME NEW R, NEW routes \in Seq(R), \A i \in DOMAIN routes : Routed(routes[i]),
         NEW method, NEW path, NEW e \in Matching(routes, method, path)
  PROVE  /\ e.route \in DOMAIN routes
         /\ e.pattern.path = routes[e.route].path /\ e.pattern.path \in Seq(STRING)
         /\ e.pattern.subtree \in BOOLEAN
         /\ TakesMethod(e.pattern, method) /\ TakesPath(e.pattern, path)
         /\ routes[e.route].handler # Nil
         /\ IF routes[e.route].prefix THEN e.pattern.method = AnyMethod
            ELSE e.pattern.method \in routes[e.route].methods
<1>1. /\ e \in Registered(routes)
      /\ TakesMethod(e.pattern, method) /\ TakesPath(e.pattern, path)
  BY DEF Matching
<1>2. e.route \in DOMAIN routes /\ First(routes, e.route, e.pattern)
  BY <1>1, RegisteredRoutes
<1>3. /\ e.pattern \in DispatchPatterns(routes[e.route]) /\ Routed(routes[e.route])
      /\ routes[e.route].handler # Nil
  BY <1>2 DEF First, Claims
<1>4. /\ e.pattern.path = routes[e.route].path
      /\ e.pattern.subtree \in BOOLEAN
      /\ IF routes[e.route].prefix THEN e.pattern.method = AnyMethod
         ELSE e.pattern.method \in routes[e.route].methods
  BY <1>3, PatternsOfRoute
<1>5. e.pattern.path \in Seq(STRING)
  BY <1>3, <1>4 DEF Routed
<1> QED
  BY <1>1, <1>2, <1>3, <1>4, <1>5

\* A route of the highest rank answers, with its handler or with 405.
IsBest(routes, method, path, best) ==
  /\ \A e \in Matching(routes, method, path) :
       Rank(e.pattern, method, path) <= Rank(best.pattern, method, path)
  /\ Dispatch(routes, method, path) =
       LET rt == routes[best.route]
       IN  IF rt.methods = {} \/ method \in rt.methods
           THEN Answer(200, rt.handler) ELSE Answer(405, Nil)

LEMMA BestAnswers ==
  ASSUME NEW R, NEW routes \in Seq(R), \A i \in DOMAIN routes : Routed(routes[i]),
         NEW method, NEW path \in Seq(STRING), NEW some \in Matching(routes, method, path)
  PROVE  \E best \in Matching(routes, method, path) : IsBest(routes, method, path, best)
<1> DEFINE M == Matching(routes, method, path)
           rank(e) == Rank(e.pattern, method, path)
           S == {rank(e) : e \in M}
           Best(e) == \A f \in M : rank(f) <= rank(e)
           b == 3 * Len(path) + 5
<1>1. \A e \in M : rank(e) \in Nat /\ rank(e) <= b
  <2> SUFFICES ASSUME NEW e \in M PROVE rank(e) \in Nat /\ rank(e) <= b
    OBVIOUS
  <2>1. /\ e.pattern.path \in Seq(STRING) /\ e.pattern.subtree \in BOOLEAN
        /\ TakesPath(e.pattern, path)
    BY MatchingRoutes
  <2> QED
    BY <2>1, Ranks
<1>2. b \in Nat
  OBVIOUS
<1> HIDE DEF M, rank, b
<1>3. some \in M
  BY DEF M
<1>4. S # {} /\ S \subseteq Nat /\ \A n \in S : n <= b
  BY <1>1, <1>3
<1>5. \E n \in S : \A m \in S : m <= n
  <2> HIDE DEF S
  <2> QED
    BY <1>2, <1>4, LargestOf
<1>6. \E e \in M : Best(e)
  BY <1>5
<1> DEFINE best == CHOOSE e \in M : Best(e)
<1>7. best \in M /\ Best(best)
  <2> HIDE DEF Best
  <2> QED
    BY <1>6
<1>8. Dispatch(routes, method, path) =
        LET rt == routes[best.route]
        IN  IF rt.methods = {} \/ method \in rt.methods
            THEN Answer(200, rt.handler) ELSE Answer(405, Nil)
  <2>1. M # {}
    BY <1>3
  <2> QED
    BY <2>1 DEF Dispatch, M, rank
<1> HIDE DEF best
<1> QED
  BY <1>7, <1>8 DEF M, rank, IsBest

\* What answers a request is the handler of a route that takes its method,
\* or none.
AnsweredBy(routes, method, answer) ==
  \E i \in DOMAIN routes : /\ routes[i].methods = {} \/ method \in routes[i].methods
                           /\ routes[i].handler # Nil
                           /\ answer = Answer(200, routes[i].handler)

LEMMA AnswerIsOfRoute ==
  ASSUME NEW R, NEW routes \in Seq(R), \A i \in DOMAIN routes : Routed(routes[i]),
         NEW method, NEW path \in Seq(STRING)
  PROVE  \/ /\ Dispatch(routes, method, path).code # 200
            /\ Dispatch(routes, method, path).handler = Nil
         \/ AnsweredBy(routes, method, Dispatch(routes, method, path))
<1>1. CASE Matching(routes, method, path) = {}
  BY <1>1 DEF Dispatch, Answer
<1>2. CASE Matching(routes, method, path) # {}
  <2>1. PICK best \in Matching(routes, method, path) : IsBest(routes, method, path, best)
    BY <1>2, BestAnswers
  <2>2. best.route \in DOMAIN routes /\ routes[best.route].handler # Nil
    BY MatchingRoutes
  <2>3. Answer(405, Nil).handler = Nil /\ Answer(405, Nil).code # 200
    BY DEF Answer
  <2> QED
    BY <2>1, <2>2, <2>3 DEF IsBest, AnsweredBy
<1> QED
  BY <1>1, <1>2

\* The other routes of one path may take a method before a route does: those
\* for the method, those for GET when it is HEAD, and a prefix before another.
NoRival(routes, i, method) ==
  \A j \in DOMAIN routes \ {i} :
    routes[j].path = routes[i].path =>
      /\ method \notin routes[j].methods
      /\ ~(method = "HEAD" /\ "GET" \in routes[j].methods)
      /\ ~(routes[j].methods = {} /\ routes[i].methods = {})

LEMMA EarlierRoutes ==
  ASSUME NEW R, NEW routes \in Seq(R), NEW i \in DOMAIN routes
  PROVE  \A j \in 1..(i - 1) : j \in DOMAIN routes /\ j # i
<1>1. DOMAIN routes = 1..Len(routes) /\ Len(routes) \in Nat
  OBVIOUS
<1>2. i \in 1..Len(routes)
  BY <1>1
<1> QED
  BY <1>1, <1>2

LEMMA NoPathBefore ==
  ASSUME NEW path \in Seq(STRING), NEW p \in Seq(STRING), path = <<>>
  PROVE  ~IsStrictPrefix(p, path)
<1>1. Len(p) <= Len(path) => p = path
  OBVIOUS
<1> QED
  BY <1>1 DEF IsStrictPrefix, IsPrefix

\* A pattern that ranks as high as one for the path itself is for this path,
\* and for the method if that one is.
LEMMA HighestRank ==
  ASSUME NEW path \in Seq(STRING), NEW method, NEW q, NEW p,
         q.path = path, q.subtree \in BOOLEAN, q.subtree => path = <<>>,
         p.path \in Seq(STRING), p.subtree \in BOOLEAN, TakesPath(q, path), TakesPath(p, path),
         Rank(q, method, path) <= Rank(p, method, path)
  PROVE  /\ p.path = path
         /\ ~q.subtree /\ q.method = method => p.method = method
<1> DEFINE n == 3 * Len(path)
           rp == Rank(p, method, path)
           rq == Rank(q, method, path)
<1>1. /\ rp \in Nat
      /\ rp <= n + 5
      /\ p.subtree => rp <= n + 2
      /\ ~p.subtree => p.path = path
      /\ ~p.subtree => (rp = n + 5 <=> p.method = method)
  BY Ranks
<1>2. /\ rq \in Nat
      /\ ~q.subtree => rq >= n + 3
      /\ ~q.subtree => (rq = n + 5 <=> q.method = method)
  BY Ranks
<1>3. n \in Nat /\ rq <= rp
  OBVIOUS
<1> HIDE DEF n, rp, rq
<1>4. ~q.subtree => ~p.subtree
  BY <1>1, <1>2, <1>3
<1>5. rq = n + 5 => rp = n + 5
  BY <1>1, <1>2, <1>3
<1>6. CASE path = <<>>
  <2>1. p.path = path \/ IsStrictPrefix(p.path, path)
    BY <1>6 DEF TakesPath
  <2>2. p.path = path
    BY <1>6, <2>1, NoPathBefore
  <2> QED
    BY <1>1, <1>2, <1>4, <1>5, <2>2
<1>7. CASE path # <<>>
  BY <1>1, <1>2, <1>4, <1>5, <1>7
<1> QED
  BY <1>6, <1>7

\* A pattern of a route without rivals is registered, and matches at its path.
LEMMA OwnPattern ==
  ASSUME NEW R, NEW routes \in Seq(R), \A j \in DOMAIN routes : Routed(routes[j]),
         NEW method, method # AnyMethod, NEW i \in DOMAIN routes, NoRival(routes, i, method),
         routes[i].handler # Nil,
         NEW q, q \in DispatchPatterns(routes[i]), NEW path, TakesPath(q, path),
         q.method = method \/ (q.method = AnyMethod /\ routes[i].methods = {})
  PROVE  \E e \in Matching(routes, method, path) : e.route = i /\ e.pattern = q
<1>1. \A j \in DOMAIN routes : Claims(routes[j], q) =>
        /\ routes[j].path = routes[i].path
        /\ IF routes[j].prefix THEN q.method = AnyMethod ELSE q.method \in routes[j].methods
  <2> SUFFICES ASSUME NEW j \in DOMAIN routes, Claims(routes[j], q)
               PROVE  /\ routes[j].path = routes[i].path
                      /\ IF routes[j].prefix THEN q.method = AnyMethod ELSE q.method \in routes[j].methods
    OBVIOUS
  <2>1. Routed(routes[i]) /\ Routed(routes[j]) /\ q \in DispatchPatterns(routes[j])
    BY DEF Claims
  <2>2. q.path = routes[i].path
    BY <2>1, PatternsOfRoute
  <2>3. /\ q.path = routes[j].path
        /\ IF routes[j].prefix THEN q.method = AnyMethod ELSE q.method \in routes[j].methods
    BY <2>1, PatternsOfRoute
  <2> QED
    BY <2>2, <2>3
<1>2. \A j \in DOMAIN routes : AnyMethod \notin routes[j].methods /\ (routes[j].prefix <=> routes[j].methods = {})
  BY DEF Routed
<1>3. \A j \in DOMAIN routes : Claims(routes[j], q) => j = i
  <2> SUFFICES ASSUME NEW j \in DOMAIN routes, Claims(routes[j], q), j # i PROVE FALSE
    OBVIOUS
  <2>1. /\ routes[j].path = routes[i].path
        /\ IF routes[j].methods = {} THEN q.method = AnyMethod ELSE q.method \in routes[j].methods
    BY <1>1, <1>2
  <2> QED
    BY <1>2, <2>1 DEF NoRival
<1>4. Claims(routes[i], q)
  BY DEF Claims
<1>5. \A j \in 1..(i - 1) : j \in DOMAIN routes /\ j # i
  BY EarlierRoutes
<1>6. First(routes, i, q)
  BY <1>3, <1>4, <1>5 DEF First
<1> DEFINE e == [route |-> i, pattern |-> q]
<1>7. e.route = i /\ e.pattern = q /\ e = [route |-> e.route, pattern |-> e.pattern]
  OBVIOUS
<1> HIDE DEF e
<1>8. e \in Registered(routes)
  BY <1>6, <1>7, RegisteredRoutes
<1>9. TakesMethod(q, method)
  BY DEF TakesMethod
<1> QED
  BY <1>7, <1>8, <1>9 DEF Matching

\* Route i has a handler, is asked for at its own path, with a method that it
\* takes, and has no rivals.
Asked(routes, i, method, path) ==
  /\ i \in DOMAIN routes /\ path = routes[i].path /\ method # AnyMethod /\ routes[i].handler # Nil
  /\ routes[i].methods = {} \/ method \in routes[i].methods
  /\ NoRival(routes, i, method)

LEMMA AskedPattern ==
  ASSUME NEW R, NEW routes \in Seq(R), \A j \in DOMAIN routes : Routed(routes[j]),
         NEW method, NEW i, NEW path \in Seq(STRING), Asked(routes, i, method, path)
  PROVE  \E e \in Matching(routes, method, path) :
           /\ e.route = i /\ TakesPath(e.pattern, path)
           /\ e.pattern.path = path /\ e.pattern.subtree \in BOOLEAN
           /\ e.pattern.subtree => path = <<>>
           /\ routes[i].methods # {} => e.pattern.method = method /\ ~e.pattern.subtree
<1> DEFINE q == IF routes[i].methods = {} THEN Pattern(AnyMethod, path, path = <<>>)
                ELSE Pattern(method, path, FALSE)
<1>1. i \in DOMAIN routes /\ Routed(routes[i]) /\ path = routes[i].path
  BY DEF Asked
<1>2. /\ q = Pattern(q.method, path, q.subtree) /\ q.path = path
      /\ IF routes[i].methods = {} THEN q.method = AnyMethod /\ (q.subtree <=> path = <<>>) /\ q.subtree \in BOOLEAN
         ELSE q.method = method /\ q.subtree = FALSE
  BY DEF Pattern
<1> HIDE DEF q
<1>3. q \in DispatchPatterns(routes[i])
  <2>1. routes[i].prefix <=> routes[i].methods = {}
    BY <1>1 DEF Routed
  <2>2. routes[i].methods # {} => method \in routes[i].methods
    BY DEF Asked
  <2> QED
    BY <1>1, <1>2, <2>1, <2>2, PatternsOfRoute
<1>4. TakesPath(q, path)
  BY <1>2 DEF TakesPath
<1>5. /\ method # AnyMethod /\ NoRival(routes, i, method) /\ routes[i].handler # Nil
      /\ q.method = method \/ (q.method = AnyMethod /\ routes[i].methods = {})
  BY <1>2 DEF Asked
<1>6. \E e \in Matching(routes, method, path) : e.route = i /\ e.pattern = q
  BY <1>1, <1>3, <1>4, <1>5, OwnPattern
<1> QED
  BY <1>2, <1>4, <1>6

\* At its own path a route without rivals answers what it takes.
LEMMA RouteAnswers ==
  ASSUME NEW R, NEW routes \in Seq(R), \A j \in DOMAIN routes : Routed(routes[j]),
         NEW method, NEW i, NEW path \in Seq(STRING), Asked(routes, i, method, path)
  PROVE  Dispatch(routes, method, path) = Answer(200, routes[i].handler)
<1>1. PICK own \in Matching(routes, method, path) :
         /\ own.route = i /\ TakesPath(own.pattern, path)
         /\ own.pattern.path = path /\ own.pattern.subtree \in BOOLEAN
         /\ own.pattern.subtree => path = <<>>
         /\ routes[i].methods # {} => own.pattern.method = method /\ ~own.pattern.subtree
  BY AskedPattern
<1>3. PICK best \in Matching(routes, method, path) : IsBest(routes, method, path, best)
  BY <1>1, BestAnswers
<1>4. /\ best.route \in DOMAIN routes
      /\ best.pattern.path = routes[best.route].path /\ best.pattern.path \in Seq(STRING)
      /\ best.pattern.subtree \in BOOLEAN
      /\ TakesMethod(best.pattern, method) /\ TakesPath(best.pattern, path)
      /\ IF routes[best.route].prefix THEN best.pattern.method = AnyMethod
         ELSE best.pattern.method \in routes[best.route].methods
  BY MatchingRoutes
<1>5. Rank(own.pattern, method, path) <= Rank(best.pattern, method, path)
  BY <1>1, <1>3 DEF IsBest
<1>6. /\ best.pattern.path = path
      /\ routes[i].methods # {} => best.pattern.method = method
  <2> DEFINE p == best.pattern
             q == own.pattern
  <2>1. /\ q.path = path /\ TakesPath(q, path) /\ q.subtree \in BOOLEAN
        /\ q.subtree => path = <<>>
        /\ p.path \in Seq(STRING) /\ p.subtree \in BOOLEAN /\ TakesPath(p, path)
        /\ Rank(q, method, path) <= Rank(p, method, path)
        /\ routes[i].methods # {} => q.method = method /\ ~q.subtree
    BY <1>1, <1>4, <1>5
  <2> HIDE DEF p, q
  <2>2. p.path = path /\ (~q.subtree /\ q.method = method => p.method = method)
    BY <2>1, HighestRank
  <2> QED
    BY <2>1, <2>2 DEF p
<1>7. best.route = i
  <2> SUFFICES ASSUME best.route # i PROVE FALSE
    OBVIOUS
  <2>1. routes[best.route].path = routes[i].path
    BY <1>4, <1>6 DEF Asked
  <2>2. Routed(routes[best.route])
    BY <1>4
  <2>3. /\ AnyMethod \notin routes[best.route].methods
        /\ IF routes[best.route].methods = {} THEN best.pattern.method = AnyMethod
           ELSE best.pattern.method \in routes[best.route].methods
    BY <1>4, <2>2 DEF Routed
  <2>4. best.pattern.method \in {AnyMethod, method} \/ (best.pattern.method = "GET" /\ method = "HEAD")
    BY <1>4 DEF TakesMethod
  <2> QED
    BY <1>4, <1>6, <2>1, <2>3, <2>4 DEF NoRival, Asked
<1> QED
  BY <1>3, <1>7 DEF Asked, IsBest

(***************************************************************************)
(* Calls between their two locks, and the routes of services.              *)
(***************************************************************************)
CallsTyped == call \in [Calls -> CallRecord]

\* What a call may be at, by what it does.
Stages == {"fetched", "checked", "written"}
CallForm ==
  \A c \in Calls :
    /\ call[c].kind \in {"register", "unregister", "override", "bridge"}
         => call[c].service \in Services
    /\ call[c].at \in {"registered", "announced", "refused"} => call[c].kind = "register"
    /\ call[c].at = "removed" => call[c].kind = "unregister"
    /\ call[c].at \in Stages => call[c].kind \in {"wrap", "unwrap"}
    /\ call[c].kind = "unused" => call[c] = Unused

\* The handles are those of the routes until the router is closed.
HandlesMatch ==
  /\ fabric \in {"off", "set", "on", "failing"} => handles = routed
  /\ fabric = "on" => pending = <<>>

\* What a service has too many of, or too few, a running call makes up for: a
\* registration that has taken the first lock will add a route, or take the
\* service out again; one that unregisters will take a route away.
Balanced(s) ==
  /\ \A c, d \in Running("register", s) : c = d
  /\ Running("register", s) # {} => s \in registered
  /\ fabric \in {"off", "set", "on"} =>
       Occurrences(pending, s) + (IF s \in routed THEN 1 ELSE 0)
           + Cardinality(Running("register", s))
         = (IF s \in registered THEN 1 ELSE 0) + Cardinality(Running("unregister", s))
Balance == \A s \in Services \ overtaken : Balanced(s)

\* A call that is made, or goes on, runs for its own service only.
LEMMA MadeRuns ==
  ASSUME CallsTyped, NEW c \in Calls, NEW kind, NEW s, NEW at, Make(c, kind, s, at),
         NEW k, NEW t
  PROVE  /\ c \notin Running(k, t)
         /\ Running(k, t)' =
              IF k = kind /\ t = s /\ at # "done" THEN Running(k, t) \cup {c} ELSE Running(k, t)
<1>1. call[c].at = "done" /\ DOMAIN call = Calls
  BY DEF Make, Unused, CallsTyped
<1>2. /\ call'[c] = [kind |-> kind, service |-> s, at |-> at]
      /\ \A d \in Calls : d # c => call'[d] = call[d]
  BY <1>1 DEF Make
<1> QED
  BY <1>1, <1>2 DEF Running

LEMMA ProceedingRuns ==
  ASSUME CallsTyped, NEW c \in Calls, NEW at, Proceed(c, at), call[c].at # "done",
         NEW k, NEW t
  PROVE  Running(k, t)' = IF at = "done" THEN Running(k, t) \ {c} ELSE Running(k, t)
<1>1. /\ call'[c].kind = call[c].kind /\ call'[c].service = call[c].service /\ call'[c].at = at
      /\ \A d \in Calls : d # c => call'[d] = call[d]
  BY DEF Proceed, CallsTyped, CallRecord
<1> QED
  BY <1>1 DEF Running

LEMMA RunningIsFinite ==
  ASSUME NEW k, NEW t
  PROVE  IsFiniteSet(Running(k, t)) /\ Cardinality(Running(k, t)) \in Nat
<1>1. Running(k, t) \in SUBSET Calls
  BY DEF Running
<1> QED
  BY <1>1, CallsAssumption, FS_Subset, FS_CardinalityType

\* What a call does, and for which service, stays once it is made.
CallsMove ==
  \A c \in Calls : call[c] # Unused =>
    /\ call'[c].kind = call[c].kind /\ call'[c].service = call[c].service
    /\ call[c].at = "done" => call'[c].at = "done"
    /\ call[c].at = "written" => call'[c].at \in {"written", "done"}
    /\ call[c].at # "registered" => call'[c].at # "registered"

LEMMA MakeMoves ==
  ASSUME CallsTyped, CallForm, NEW c \in Calls, NEW kind, NEW s, NEW at, Make(c, kind, s, at),
         [kind |-> kind, service |-> s, at |-> at] \in CallRecord, kind # "unused",
         kind \in {"register", "unregister", "override", "bridge"} => s \in Services,
         at \in {"registered", "announced", "refused"} => kind = "register",
         at = "removed" => kind = "unregister",
         at \in Stages => kind \in {"wrap", "unwrap"}
  PROVE  CallsTyped' /\ CallForm' /\ CallsMove
<1>1. /\ call[c] = Unused
      /\ call' = [call EXCEPT ![c] = [kind |-> kind, service |-> s, at |-> at]]
  BY DEF Make
<1>2. CallsTyped'
  BY <1>1 DEF CallsTyped
<1>3. /\ call'[c].kind = kind /\ call'[c].service = s /\ call'[c].at = at
      /\ \A d \in Calls : d # c => call'[d] = call[d]
  BY <1>1 DEF CallsTyped
<1>4. CallForm'
  BY <1>3 DEF CallForm
<1>5. CallsMove
  BY <1>1, <1>3 DEF CallsMove
<1> QED
  BY <1>2, <1>4, <1>5

LEMMA ProceedMoves ==
  ASSUME CallsTyped, CallForm, NEW c \in Calls, NEW at, Proceed(c, at), call[c].at # "done",
         at \in {"done", "announced", "refused", "checked", "written"},
         at \in {"announced", "refused"} => call[c].kind = "register",
         at \in {"checked", "written"} => call[c].kind \in {"wrap", "unwrap"},
         call[c].at = "written" => at = "done"
  PROVE  CallsTyped' /\ CallForm' /\ CallsMove
<1>1. call' = [call EXCEPT ![c].at = at]
  BY DEF Proceed
<1>2. CallsTyped'
  BY <1>1 DEF CallsTyped, CallRecord
<1>3. /\ call'[c].kind = call[c].kind /\ call'[c].service = call[c].service /\ call'[c].at = at
      /\ \A d \in Calls : d # c => call'[d] = call[d]
  BY <1>1 DEF CallsTyped, CallRecord
<1>4. call[c].kind # "unused"
  BY DEF CallForm, Unused
<1>5. CallForm'
  BY <1>3, <1>4 DEF CallForm, Stages
<1>6. CallsMove
  BY <1>3 DEF CallsMove
<1> QED
  BY <1>2, <1>5, <1>6

RoutesInv == RoutesTypeOK /\ CallForm /\ HandlesMatch /\ Balance

\* Nothing changes for a service.
LEMMA BalanceKept ==
  ASSUME NEW s, Balanced(s),
         Running("register", s)' = Running("register", s),
         Running("unregister", s)' = Running("unregister", s),
         s \in registered' <=> s \in registered,
         s \in routed' <=> s \in routed,
         Occurrences(pending, s)' = Occurrences(pending, s),
         fabric' \in {"off", "set", "on"} => fabric \in {"off", "set", "on"}
  PROVE  Balanced(s)'
BY DEF Balanced

LEMMA InitRoutes == RoutesInit => RoutesInv
<1> SUFFICES ASSUME RoutesInit PROVE RoutesInv
  OBVIOUS
<1> USE DEF RoutesInit
<1>1. RoutesTypeOK
  BY DEF RoutesTypeOK, CallRecord, Unused
<1>2. CallForm
  BY DEF CallForm, Unused, Stages
<1>3. HandlesMatch
  BY DEF HandlesMatch
<1>4. \A s : Running("register", s) = {} /\ Running("unregister", s) = {}
  BY DEF Running, Unused
<1>5. Cardinality({}) = 0
  BY FS_EmptySet
<1>6. \A s : Occurrences(pending, s) = 0
  BY NoOccurrence
<1>7. ASSUME NEW s PROVE Balanced(s)
  <2>1. 0 + 0 + 0 = 0 + 0
    OBVIOUS
  <2> QED
    BY <1>4, <1>5, <1>6, <2>1 DEF Balanced
<1> QED
  BY <1>1, <1>2, <1>3, <1>7 DEF RoutesInv, Balance

\* What the steps below use of the invariant.
LEMMA RoutesFacts ==
  ASSUME RoutesInv
  PROVE  /\ CallsTyped /\ CallForm /\ HandlesMatch
         /\ \A s \in Services \ overtaken : Balanced(s)
         /\ registered \subseteq channels /\ channels \subseteq Services
         /\ fabric \in {"off", "set", "on", "closing", "stopped", "failing", "failed"}
         /\ pending \in Seq(Services)
         /\ routed \subseteq handles /\ handles \subseteq Services /\ overtaken \subseteq Services
BY DEF RoutesInv, RoutesTypeOK, CallsTyped, Balance

LEMMA RoutesFrom ==
  ASSUME CallsTyped, CallForm, HandlesMatch,
         \A s \in Services \ overtaken : Balanced(s),
         registered \subseteq channels, channels \subseteq Services,
         fabric \in {"off", "set", "on", "closing", "stopped", "failing", "failed"},
         pending \in Seq(Services),
         routed \subseteq handles, handles \subseteq Services, overtaken \subseteq Services
  PROVE  RoutesInv
BY DEF RoutesInv, RoutesTypeOK, CallsTyped, Balance

\* A step that only moves a call, and no call between its locks ends.
LEMMA CallStep ==
  ASSUME RoutesInv, CallsTyped', CallForm',
         \A s : /\ Running("register", s)' = Running("register", s)
                /\ Running("unregister", s)' = Running("unregister", s),
         UNCHANGED <<registered, channels, fabric, pending, handles, routed, overtaken>>
  PROVE  RoutesInv'
<1>1. \A s \in Services \ overtaken : Balanced(s)'
  <2> SUFFICES ASSUME NEW s \in Services \ overtaken PROVE Balanced(s)'
    OBVIOUS
  <2>1. Balanced(s)
    BY RoutesFacts
  <2> QED
    BY <2>1, BalanceKept DEF Occurrences
<1>2. HandlesMatch'
  BY RoutesFacts DEF HandlesMatch
<1> QED
  BY <1>1, <1>2, RoutesFacts DEF RoutesInv, RoutesTypeOK, Balance, CallsTyped

LEMMA UnchangedRoutes ==
  ASSUME RoutesInv, UNCHANGED routeVars
  PROVE  RoutesInv' /\ CallsMove
<1>1. CallsTyped' /\ CallForm' /\ CallsMove
  BY RoutesFacts DEF CallsTyped, CallForm, CallsMove, routeVars
<1>2. \A s : /\ Running("register", s)' = Running("register", s)
             /\ Running("unregister", s)' = Running("unregister", s)
  BY DEF Running, routeVars
<1> QED
  BY <1>1, <1>2, CallStep DEF routeVars

LEMMA RegisterStep ==
  ASSUME RoutesInv, NEW c \in Calls, NEW s \in Services, Register(c, s)
  PROVE  RoutesInv' /\ CallsMove
<1>0. /\ CallsTyped /\ CallForm /\ HandlesMatch
      /\ \A t \in Services \ overtaken : Balanced(t)
      /\ registered \subseteq channels /\ channels \subseteq Services
      /\ Make(c, "register", s, "registered")
  BY RoutesFacts DEF Register
<1>1. CallsTyped' /\ CallForm' /\ CallsMove
  <2>1. [kind |-> "register", service |-> s, at |-> "registered"] \in CallRecord
    BY DEF CallRecord
  <2> QED
    BY <1>0, <2>1, MakeMoves DEF Stages
<1>2. /\ s \notin registered /\ registered' = registered \cup {s} /\ channels' = channels \cup {s}
      /\ UNCHANGED <<fabric, pending, handles, routed, overtaken>>
  BY DEF Register
<1>3. \A t : /\ Running("register", t)' =
                  IF t = s THEN Running("register", t) \cup {c} ELSE Running("register", t)
             /\ Running("unregister", t)' = Running("unregister", t)
             /\ c \notin Running("register", t)
  BY <1>0, MadeRuns
<1>4. ASSUME NEW t \in Services \ overtaken PROVE Balanced(t)'
  <2>1. Balanced(t) /\ Occurrences(pending, t)' = Occurrences(pending, t)
    BY <1>0, <1>2
  <2>2. CASE t # s
    <3>1. t \in registered' <=> t \in registered
      BY <1>2, <2>2
    <3> QED
      BY <1>2, <1>3, <2>1, <2>2, <3>1, BalanceKept
  <2>3. CASE t = s
    <3>1. Running("register", t) = {}
      BY <1>2, <2>1, <2>3 DEF Balanced
    <3>2. Running("register", t)' = {c}
      BY <1>3, <2>3, <3>1
    <3>3. Cardinality({}) = 0 /\ Cardinality({c}) = 1
      BY FS_EmptySet, FS_Singleton
    <3>4. /\ Occurrences(pending, t) \in Nat
          /\ Cardinality(Running("unregister", t)) \in Nat
      BY RoutesFacts, OccurrencesType, RunningIsFinite
    <3> DEFINE o == Occurrences(pending, t)
               u == Cardinality(Running("unregister", t))
               x == IF t \in routed THEN 1 ELSE 0
    <3>5. ASSUME fabric \in {"off", "set", "on"} PROVE o + x + 1 = 1 + u
      <4>1. o + x + 0 = 0 + u
        BY <1>2, <2>1, <2>3, <3>1, <3>3, <3>5 DEF Balanced
      <4>2. o \in Nat /\ u \in Nat /\ x \in Nat
        BY <3>4
      <4> HIDE DEF o, u, x
      <4> QED
        BY <4>1, <4>2
    <3>6. t \in registered' /\ (t \in routed' <=> t \in routed) /\ fabric' = fabric
      BY <1>2, <2>3
    <3> QED
      BY <1>3, <2>1, <2>3, <3>2, <3>3, <3>5, <3>6 DEF Balanced
  <2> QED
    BY <2>2, <2>3
<1>5. HandlesMatch'
  BY <1>0, <1>2 DEF HandlesMatch
<1>6. registered' \subseteq channels' /\ channels' \subseteq Services
  BY <1>0, <1>2
<1> QED
  BY <1>1, <1>2, <1>4, <1>5, <1>6, RoutesFacts, RoutesFrom DEF RoutesInv, RoutesTypeOK, Balance, CallsTyped

\* The account of a service: what it has and what its calls make up for.
Has(s) == IF s \in routed THEN 1 ELSE 0
Needs(s) == IF s \in registered THEN 1 ELSE 0
Coming(s) == Cardinality(Running("register", s))
Going(s) == Cardinality(Running("unregister", s))

LEMMA AccountTypes ==
  ASSUME RoutesInv, NEW s
  PROVE  /\ Occurrences(pending, s) \in Nat /\ Has(s) \in Nat /\ Needs(s) \in Nat
         /\ Coming(s) \in Nat /\ Going(s) \in Nat
<1>1. Occurrences(pending, s) \in Nat
  BY RoutesFacts, OccurrencesType
<1>2. Coming(s) \in Nat /\ Going(s) \in Nat
  BY RunningIsFinite DEF Coming, Going
<1> QED
  BY <1>1, <1>2 DEF Has, Needs

\* It stays even if both sides change by the same.
LEMMA BalanceMoves ==
  ASSUME RoutesInv, NEW s, Balanced(s),
         \A c, d \in Running("register", s)' : c = d,
         Running("register", s)' # {} => s \in registered',
         fabric' \in {"off", "set", "on"} => fabric \in {"off", "set", "on"},
         NEW o \in Int, NEW h \in Int, NEW n \in Int, NEW a \in Int, NEW g \in Int,
         Occurrences(pending, s)' = Occurrences(pending, s) + o,
         Has(s)' = Has(s) + h, Needs(s)' = Needs(s) + n,
         Coming(s)' = Coming(s) + a, Going(s)' = Going(s) + g,
         o + h + a = n + g
  PROVE  Balanced(s)'
<1>1. /\ Occurrences(pending, s) \in Nat /\ Has(s) \in Nat /\ Needs(s) \in Nat
      /\ Coming(s) \in Nat /\ Going(s) \in Nat
  BY AccountTypes
<1>2. fabric \in {"off", "set", "on"} =>
        Occurrences(pending, s) + Has(s) + Coming(s) = Needs(s) + Going(s)
  BY DEF Balanced, Has, Needs, Coming, Going
<1>3. fabric' \in {"off", "set", "on"} =>
        Occurrences(pending, s)' + Has(s)' + Coming(s)' = Needs(s)' + Going(s)'
  BY <1>1, <1>2
<1> QED
  BY <1>3 DEF Balanced, Has, Needs, Coming, Going

\* A registering call that ends was the only one of its service.
LEMMA LastRegister ==
  ASSUME RoutesInv, NEW c \in Calls, NEW at, Proceed(c, at), at = "done",
         call[c].at # "done", call[c].kind = "register", NEW s, s = call[c].service
  PROVE  /\ CallsTyped' /\ CallForm' /\ CallsMove
         /\ \A t : /\ Going(t)' = Going(t)
                   /\ t # s => Running("register", t)' = Running("register", t)
         /\ s \in Services
         /\ s \notin overtaken => /\ Running("register", s) # {} /\ Running("register", s)' = {}
                                  /\ Coming(s) = 1 /\ Coming(s)' = 0
<1>0. CallsTyped /\ CallForm /\ \A t \in Services \ overtaken : Balanced(t)
  BY RoutesFacts
<1>1. CallsTyped' /\ CallForm' /\ CallsMove
  BY <1>0, ProceedMoves
<1>2. \A k, t : Running(k, t)' = Running(k, t) \ {c}
  BY <1>0, ProceedingRuns
<1>3. s \in Services
  BY <1>0 DEF CallForm
<1>4. \A t : /\ c \notin Running("unregister", t)
             /\ t # s => c \notin Running("register", t)
  BY DEF Running
<1>5. \A t : /\ Running("unregister", t)' = Running("unregister", t)
             /\ t # s => Running("register", t)' = Running("register", t)
  BY <1>2, <1>4
<1>6. ASSUME s \notin overtaken
      PROVE  Running("register", s) = {c} /\ Running("register", s)' = {}
  <2>1. c \in Running("register", s)
    BY DEF Running
  <2>2. Balanced(s)
    BY <1>0, <1>3, <1>6
  <2>3. Running("register", s) = {c}
    BY <2>1, <2>2 DEF Balanced
  <2> QED
    BY <1>2, <2>3
<1>7. Cardinality({}) = 0 /\ Cardinality({c}) = 1
  BY FS_EmptySet, FS_Singleton
<1>8. s \notin overtaken => Coming(s) = 1 /\ Coming(s)' = 0
  BY <1>6, <1>7 DEF Coming
<1> QED
  BY <1>1, <1>3, <1>5, <1>6, <1>8 DEF Going

LEMMA PendRouteStep ==
  ASSUME RoutesInv, NEW c \in Calls, PendRoute(c)
  PROVE  RoutesInv' /\ CallsMove
<1> PICK s : s = call[c].service
  OBVIOUS
<1>0. /\ CallsTyped /\ CallForm /\ HandlesMatch /\ pending \in Seq(Services)
      /\ \A t \in Services \ overtaken : Balanced(t)
      /\ fabric \in {"off", "set", "on", "closing", "stopped", "failing", "failed"}
  BY RoutesFacts
<1>1. /\ call[c].at = "announced" /\ Proceed(c, "done") /\ fabric \in {"off", "stopped"}
      /\ pending' = Append(pending, s)
      /\ UNCHANGED <<registered, channels, fabric, handles, routed, overtaken>>
  BY DEF PendRoute, EndpointIsSet
<1>2. call[c].kind = "register"
  BY <1>0, <1>1 DEF CallForm
<1>3. /\ CallsTyped' /\ CallForm' /\ CallsMove
      /\ \A t : /\ Going(t)' = Going(t)
                /\ t # s => Running("register", t)' = Running("register", t)
      /\ s \in Services
      /\ s \notin overtaken => /\ Running("register", s) # {} /\ Running("register", s)' = {}
                               /\ Coming(s) = 1 /\ Coming(s)' = 0
  BY <1>1, <1>2, LastRegister
<1>4. \A t : Has(t)' = Has(t) /\ Needs(t)' = Needs(t)
  BY <1>1 DEF Has, Needs
<1>5. \A t : Occurrences(pending, t)' = Occurrences(pending, t) + (IF s = t THEN 1 ELSE 0)
  <2> SUFFICES ASSUME NEW t
               PROVE  Occurrences(pending, t)' = Occurrences(pending, t) + (IF s = t THEN 1 ELSE 0)
    OBVIOUS
  <2>1. Occurrences(pending, t)' = Occurrences(pending', t)
    BY DEF Occurrences
  <2> QED
    BY <1>0, <1>1, <1>3, <2>1, OccurrencesAppend
<1>6. ASSUME NEW t \in Services \ overtaken PROVE Balanced(t)'
  <2>1. /\ Balanced(t) /\ Occurrences(pending, t) \in Nat /\ Has(t) \in Nat
        /\ Needs(t) \in Nat /\ Coming(t) \in Nat /\ Going(t) \in Nat
    BY <1>0, AccountTypes
  <2>2. fabric' = fabric /\ registered' = registered
    BY <1>1
  <2>3. CASE t # s
    <3>1. /\ Running("register", t)' = Running("register", t)
          /\ Coming(t)' = Coming(t) + 0 /\ Going(t)' = Going(t) + 0
          /\ Has(t)' = Has(t) + 0 /\ Needs(t)' = Needs(t) + 0
          /\ Occurrences(pending, t)' = Occurrences(pending, t) + 0
      BY <1>3, <1>4, <1>5, <2>1, <2>3 DEF Coming
    <3>2. /\ \A d, e \in Running("register", t)' : d = e
          /\ Running("register", t)' # {} => t \in registered'
      BY <2>1, <2>2, <3>1 DEF Balanced
    <3>3. 0 + 0 + 0 = 0 + 0
      OBVIOUS
    <3> QED
      BY <2>1, <2>2, <3>1, <3>2, <3>3, BalanceMoves
  <2>4. CASE t = s
    <3>1. /\ Running("register", t)' = {}
          /\ Coming(t)' = Coming(t) + (-1) /\ Going(t)' = Going(t) + 0
          /\ Has(t)' = Has(t) + 0 /\ Needs(t)' = Needs(t) + 0
          /\ Occurrences(pending, t)' = Occurrences(pending, t) + 1
      BY <1>1, <1>3, <1>4, <1>5, <2>1, <2>4
    <3>2. 1 + 0 + (-1) = 0 + 0
      OBVIOUS
    <3> QED
      BY <2>1, <2>2, <3>1, <3>2, BalanceMoves
  <2> QED
    BY <2>3, <2>4
<1>7. HandlesMatch'
  BY <1>0, <1>1 DEF HandlesMatch
<1>8. pending' \in Seq(Services)
  BY <1>0, <1>1, <1>3
<1> QED
  BY <1>1, <1>3, <1>6, <1>7, <1>8, RoutesFacts, RoutesFrom
     DEF RoutesInv, RoutesTypeOK, Balance, CallsTyped

LEMMA AnnounceStep ==
  ASSUME RoutesInv, NEW c \in Calls, Announce(c)
  PROVE  RoutesInv' /\ CallsMove
<1>0. /\ CallsTyped /\ CallForm /\ call[c].at = "registered" /\ Proceed(c, "announced")
  BY RoutesFacts DEF Announce
<1>1. CallsTyped' /\ CallForm' /\ CallsMove
  <2>1. call[c].kind = "register"
    BY <1>0 DEF CallForm
  <2> QED
    BY <1>0, <2>1, ProceedMoves
<1>2. \A s : /\ Running("register", s)' = Running("register", s)
             /\ Running("unregister", s)' = Running("unregister", s)
  BY <1>0, ProceedingRuns
<1> QED
  BY <1>1, <1>2, CallStep DEF Announce

LEMMA RefuseRouteStep ==
  ASSUME RoutesInv, NEW c \in Calls, RefuseRoute(c)
  PROVE  RoutesInv' /\ CallsMove
<1>0. /\ CallsTyped /\ CallForm /\ call[c].at = "announced" /\ Proceed(c, "refused")
  BY RoutesFacts DEF RefuseRoute
<1>1. CallsTyped' /\ CallForm' /\ CallsMove
  <2>1. call[c].kind = "register"
    BY <1>0 DEF CallForm
  <2> QED
    BY <1>0, <2>1, ProceedMoves
<1>2. \A s : /\ Running("register", s)' = Running("register", s)
             /\ Running("unregister", s)' = Running("unregister", s)
  BY <1>0, ProceedingRuns
<1> QED
  BY <1>1, <1>2, CallStep DEF RefuseRoute

LEMMA RegisterRouteStep ==
  ASSUME RoutesInv, NEW c \in Calls, RegisterRoute(c)
  PROVE  RoutesInv' /\ CallsMove
<1> PICK s : s = call[c].service
  OBVIOUS
<1>0. /\ CallsTyped /\ CallForm /\ HandlesMatch /\ pending \in Seq(Services)
      /\ routed \subseteq handles /\ handles \subseteq Services
      /\ \A t \in Services \ overtaken : Balanced(t)
  BY RoutesFacts
<1>1. /\ call[c].at = "announced" /\ Proceed(c, "done") /\ fabric \in {"set", "on", "failing"}
      /\ s \notin routed /\ routed' = routed \cup {s} /\ handles' = handles \cup {s}
      /\ UNCHANGED <<registered, channels, fabric, pending, overtaken>>
  BY DEF RegisterRoute, RouterIsOpen
<1>2. call[c].kind = "register"
  BY <1>0, <1>1 DEF CallForm
<1>3. /\ CallsTyped' /\ CallForm' /\ CallsMove
      /\ \A t : /\ Going(t)' = Going(t)
                /\ t # s => Running("register", t)' = Running("register", t)
      /\ s \in Services
      /\ s \notin overtaken => /\ Running("register", s) # {} /\ Running("register", s)' = {}
                               /\ Coming(s) = 1 /\ Coming(s)' = 0
  BY <1>1, <1>2, LastRegister
<1>4. \A t : /\ Has(t)' = Has(t) + (IF t = s THEN 1 ELSE 0) /\ Needs(t)' = Needs(t)
             /\ Occurrences(pending, t)' = Occurrences(pending, t)
  BY <1>1 DEF Has, Needs
<1>6. ASSUME NEW t \in Services \ overtaken PROVE Balanced(t)'
  <2>1. /\ Balanced(t) /\ Occurrences(pending, t) \in Nat /\ Has(t) \in Nat
        /\ Needs(t) \in Nat /\ Coming(t) \in Nat /\ Going(t) \in Nat
    BY <1>0, AccountTypes
  <2>2. fabric' = fabric /\ registered' = registered
    BY <1>1
  <2>3. CASE t # s
    <3>1. /\ Running("register", t)' = Running("register", t)
          /\ Coming(t)' = Coming(t) + 0 /\ Going(t)' = Going(t) + 0
          /\ Has(t)' = Has(t) + 0 /\ Needs(t)' = Needs(t) + 0
          /\ Occurrences(pending, t)' = Occurrences(pending, t) + 0
      BY <1>3, <1>4, <2>1, <2>3 DEF Coming
    <3>2. /\ \A d, e \in Running("register", t)' : d = e
          /\ Running("register", t)' # {} => t \in registered'
      BY <2>1, <2>2, <3>1 DEF Balanced
    <3>3. 0 + 0 + 0 = 0 + 0
      OBVIOUS
    <3> QED
      BY <2>1, <2>2, <3>1, <3>2, <3>3, BalanceMoves
  <2>4. CASE t = s
    <3>1. /\ Running("register", t)' = {}
          /\ Coming(t)' = Coming(t) + (-1) /\ Going(t)' = Going(t) + 0
          /\ Has(t)' = Has(t) + 1 /\ Needs(t)' = Needs(t) + 0
          /\ Occurrences(pending, t)' = Occurrences(pending, t) + 0
      BY <1>1, <1>3, <1>4, <2>1, <2>4
    <3>2. 0 + 1 + (-1) = 0 + 0
      OBVIOUS
    <3> QED
      BY <2>1, <2>2, <3>1, <3>2, BalanceMoves
  <2> QED
    BY <2>3, <2>4
<1>7. HandlesMatch'
  BY <1>0, <1>1 DEF HandlesMatch
<1>8. routed' \subseteq handles' /\ handles' \subseteq Services
  BY <1>0, <1>1, <1>3
<1> QED
  BY <1>1, <1>3, <1>6, <1>7, <1>8, RoutesFacts, RoutesFrom
     DEF RoutesInv, RoutesTypeOK, Balance, CallsTyped

LEMMA WithdrawStep ==
  ASSUME RoutesInv, NEW c \in Calls, Withdraw(c)
  PROVE  RoutesInv' /\ CallsMove
<1> PICK s : s = call[c].service
  OBVIOUS
<1>0. /\ CallsTyped /\ CallForm /\ HandlesMatch /\ registered \subseteq channels
      /\ \A t \in Services \ overtaken : Balanced(t)
  BY RoutesFacts
<1>1. /\ call[c].at = "refused" /\ Proceed(c, "done")
      /\ registered' = registered \ {s}
      /\ UNCHANGED <<channels, fabric, pending, handles, routed, overtaken>>
  BY DEF Withdraw
<1>2. call[c].kind = "register"
  BY <1>0, <1>1 DEF CallForm
<1>3. /\ CallsTyped' /\ CallForm' /\ CallsMove
      /\ \A t : /\ Going(t)' = Going(t)
                /\ t # s => Running("register", t)' = Running("register", t)
      /\ s \in Services
      /\ s \notin overtaken => /\ Running("register", s) # {} /\ Running("register", s)' = {}
                               /\ Coming(s) = 1 /\ Coming(s)' = 0
  BY <1>1, <1>2, LastRegister
<1>4. \A t : /\ Has(t)' = Has(t) /\ Occurrences(pending, t)' = Occurrences(pending, t)
             /\ t # s => Needs(t)' = Needs(t)
             /\ t = s => Needs(t)' = 0
             /\ t \in registered => Needs(t) = 1
  BY <1>1 DEF Has, Needs
<1>6. ASSUME NEW t \in Services \ overtaken PROVE Balanced(t)'
  <2>1. /\ Balanced(t) /\ Occurrences(pending, t) \in Nat /\ Has(t) \in Nat
        /\ Needs(t) \in Nat /\ Coming(t) \in Nat /\ Going(t) \in Nat
    BY <1>0, AccountTypes
  <2>2. fabric' = fabric
    BY <1>1
  <2>3. CASE t # s
    <3>1. /\ Running("register", t)' = Running("register", t)
          /\ Coming(t)' = Coming(t) + 0 /\ Going(t)' = Going(t) + 0
          /\ Has(t)' = Has(t) + 0 /\ Needs(t)' = Needs(t) + 0
          /\ Occurrences(pending, t)' = Occurrences(pending, t) + 0
      BY <1>3, <1>4, <2>1, <2>3 DEF Coming
    <3>2. /\ \A d, e \in Running("register", t)' : d = e
          /\ Running("register", t)' # {} => t \in registered'
      BY <1>1, <2>1, <2>3, <3>1 DEF Balanced
    <3>3. 0 + 0 + 0 = 0 + 0
      OBVIOUS
    <3> QED
      BY <2>1, <2>2, <3>1, <3>2, <3>3, BalanceMoves
  <2>4. CASE t = s
    <3>0. t \in registered
      BY <1>1, <1>3, <2>1, <2>4 DEF Balanced
    <3>1. /\ Running("register", t)' = {}
          /\ Coming(t)' = Coming(t) + (-1) /\ Going(t)' = Going(t) + 0
          /\ Has(t)' = Has(t) + 0 /\ Needs(t)' = Needs(t) + (-1)
          /\ Occurrences(pending, t)' = Occurrences(pending, t) + 0
      BY <1>1, <1>3, <1>4, <2>1, <2>4, <3>0
    <3>2. 0 + 0 + (-1) = (-1) + 0
      OBVIOUS
    <3> QED
      BY <2>1, <2>2, <3>1, <3>2, BalanceMoves
  <2> QED
    BY <2>3, <2>4
<1>7. HandlesMatch'
  BY <1>0, <1>1 DEF HandlesMatch
<1>8. registered' \subseteq channels'
  BY <1>0, <1>1
<1> QED
  BY <1>1, <1>3, <1>6, <1>7, <1>8, RoutesFacts, RoutesFrom
     DEF RoutesInv, RoutesTypeOK, Balance, CallsTyped

LEMMA UnregisterStep ==
  ASSUME RoutesInv, NEW c \in Calls, NEW s \in Services, Unregister(c, s)
  PROVE  RoutesInv' /\ CallsMove
<1>0. /\ CallsTyped /\ CallForm /\ HandlesMatch /\ registered \subseteq channels
      /\ overtaken \subseteq Services
      /\ \A t \in Services \ overtaken : Balanced(t)
      /\ Make(c, "unregister", s, "removed")
  BY RoutesFacts DEF Unregister
<1>1. /\ s \in registered /\ registered' = registered \ {s}
      /\ overtaken' = overtaken \cup {t \in {s} : Running("register", t) # {}}
      /\ UNCHANGED <<channels, fabric, pending, handles, routed>>
  BY DEF Unregister
<1>2. CallsTyped' /\ CallForm' /\ CallsMove
  <2>1. [kind |-> "unregister", service |-> s, at |-> "removed"] \in CallRecord
    BY DEF CallRecord
  <2> QED
    BY <1>0, <2>1, MakeMoves DEF Stages
<1>3. \A t : /\ Running("register", t)' = Running("register", t)
             /\ Coming(t)' = Coming(t)
             /\ t # s => Going(t)' = Going(t)
             /\ c \notin Running("unregister", s)
             /\ Running("unregister", s)' = Running("unregister", s) \cup {c}
  BY <1>0, MadeRuns DEF Coming, Going
<1>4. Going(s)' = Going(s) + 1
  <2>1. IsFiniteSet(Running("unregister", s))
    BY RunningIsFinite
  <2> QED
    BY <1>3, <2>1, FS_AddElement DEF Going
<1>5. \A t : /\ Has(t)' = Has(t) /\ Occurrences(pending, t)' = Occurrences(pending, t)
             /\ t # s => Needs(t)' = Needs(t)
             /\ t = s => Needs(t)' = 0 /\ Needs(t) = 1
  BY <1>1 DEF Has, Needs
<1>6. ASSUME NEW t \in Services \ overtaken' PROVE Balanced(t)'
  <2>1. /\ Balanced(t) /\ Occurrences(pending, t) \in Nat /\ Has(t) \in Nat
        /\ Needs(t) \in Nat /\ Coming(t) \in Nat /\ Going(t) \in Nat
    BY <1>0, <1>1, AccountTypes
  <2>2. fabric' = fabric
    BY <1>1
  <2>3. \A d, e \in Running("register", t)' : d = e
    BY <1>3, <2>1 DEF Balanced
  <2>4. Running("register", t)' # {} => t \in registered'
    BY <1>1, <1>3, <2>1 DEF Balanced
  <2>5. CASE t # s
    <3>1. /\ Coming(t)' = Coming(t) + 0 /\ Going(t)' = Going(t) + 0
          /\ Has(t)' = Has(t) + 0 /\ Needs(t)' = Needs(t) + 0
          /\ Occurrences(pending, t)' = Occurrences(pending, t) + 0
      BY <1>3, <1>5, <2>1, <2>5
    <3>2. 0 + 0 + 0 = 0 + 0
      OBVIOUS
    <3> QED
      BY <2>1, <2>2, <2>3, <2>4, <3>1, <3>2, BalanceMoves
  <2>6. CASE t = s
    <3>1. /\ Coming(t)' = Coming(t) + 0 /\ Going(t)' = Going(t) + 1
          /\ Has(t)' = Has(t) + 0 /\ Needs(t)' = Needs(t) + (-1)
          /\ Occurrences(pending, t)' = Occurrences(pending, t) + 0
      BY <1>3, <1>4, <1>5, <2>1, <2>6
    <3>2. 0 + 0 + 0 = (-1) + 1
      OBVIOUS
    <3> QED
      BY <2>1, <2>2, <2>3, <2>4, <3>1, <3>2, BalanceMoves
  <2> QED
    BY <2>5, <2>6
<1>7. HandlesMatch'
  BY <1>0, <1>1 DEF HandlesMatch
<1>8. registered' \subseteq channels' /\ overtaken' \subseteq Services
  BY <1>0, <1>1
<1> QED
  BY <1>1, <1>2, <1>6, <1>7, <1>8, RoutesFacts, RoutesFrom
     DEF RoutesInv, RoutesTypeOK, Balance, CallsTyped

LEMMA RemoveRouteStep ==
  ASSUME RoutesInv, NEW c \in Calls, RemoveRoute(c)
  PROVE  RoutesInv' /\ CallsMove
<1> PICK s : s = call[c].service
  OBVIOUS
<1>0. /\ CallsTyped /\ CallForm /\ HandlesMatch /\ pending \in Seq(Services)
      /\ routed \subseteq handles /\ handles \subseteq Services
      /\ \A t \in Services \ overtaken : Balanced(t)
  BY RoutesFacts
<1>1. /\ call[c].at = "removed" /\ Proceed(c, "done")
      /\ handles' = handles \ {s}
      /\ routed' = IF s \in handles THEN routed \ {s} ELSE routed
      /\ pending' = IF s \in handles THEN pending ELSE RemoveFirst(pending, s)
      /\ UNCHANGED <<registered, channels, fabric, overtaken>>
  BY DEF RemoveRoute
<1>2. CallsTyped' /\ CallForm' /\ CallsMove
  BY <1>0, <1>1, ProceedMoves
<1>3. call[c].kind = "unregister"
  BY <1>0, <1>1 DEF CallForm
<1>4. \A t : /\ Running("register", t)' = Running("register", t)
             /\ Coming(t)' = Coming(t)
             /\ t # s => Going(t)' = Going(t)
             /\ c \in Running("unregister", s)
             /\ Running("unregister", s)' = Running("unregister", s) \ {c}
  <2>1. \A k, t : Running(k, t)' = Running(k, t) \ {c}
    BY <1>0, <1>1, ProceedingRuns
  <2>2. c \in Running("unregister", s)
    BY <1>1, <1>3 DEF Running
  <2>3. \A t : c \notin Running("register", t) /\ (t # s => c \notin Running("unregister", t))
    BY <1>3 DEF Running
  <2> QED
    BY <2>1, <2>2, <2>3 DEF Coming, Going
<1>5. Going(s)' = Going(s) - 1 /\ Going(s) >= 1
  <2>1. IsFiniteSet(Running("unregister", s)) /\ Going(s) \in Nat
    BY RunningIsFinite DEF Going
  <2>2. Going(s)' = Going(s) - 1
    BY <1>4, <2>1, FS_RemoveElement DEF Going
  <2>3. Going(s) # 0
    BY <1>4, <2>1, FS_EmptySet DEF Going
  <2> QED
    BY <2>1, <2>2, <2>3
<1>6. \A t : Needs(t)' = Needs(t) /\ Has(t)' = IF t = s /\ s \in handles THEN 0 ELSE Has(t)
  BY <1>1 DEF Has, Needs
<1>7. /\ pending' \in Seq(Services)
      /\ \A t : t # s => Occurrences(pending, t)' = Occurrences(pending, t)
      /\ s \in handles => Occurrences(pending, s)' = Occurrences(pending, s)
      /\ s \notin handles /\ (\E i \in 1..Len(pending) : pending[i] = s) =>
           Occurrences(pending, s)' = Occurrences(pending, s) - 1
  <2>0. \A t : Occurrences(pending, t)' = Occurrences(pending', t)
    BY DEF Occurrences
  <2>1. CASE s \in handles
    BY <1>0, <1>1, <2>0, <2>1
  <2>2. CASE s \notin handles /\ \E i \in 1..Len(pending) : pending[i] = s
    <3>1. \A t : /\ pending' \in Seq(Services)
                 /\ Occurrences(pending', t) = Occurrences(pending, t) - (IF s = t THEN 1 ELSE 0)
      BY <1>0, <1>1, <2>2, OccurrencesRemoveFirst
    <3>2. \A t : Occurrences(pending, t) \in Nat
      BY <1>0, OccurrencesType
    <3> QED
      BY <2>0, <2>2, <3>1, <3>2
  <2>3. CASE s \notin handles /\ ~\E i \in 1..Len(pending) : pending[i] = s
    <3>1. RemoveFirst(pending, s) = pending
      BY <1>0, <2>3, RemovingNone
    <3> QED
      BY <1>0, <1>1, <2>0, <2>3, <3>1
  <2> QED
    BY <2>1, <2>2, <2>3
<1>8. ASSUME NEW t \in Services \ overtaken PROVE Balanced(t)'
  <2>1. /\ Balanced(t) /\ Occurrences(pending, t) \in Nat /\ Has(t) \in Nat
        /\ Needs(t) \in Nat /\ Coming(t) \in Nat /\ Going(t) \in Nat
    BY <1>0, AccountTypes
  <2>2. fabric' = fabric /\ registered' = registered
    BY <1>1
  <2>3. \A d, e \in Running("register", t)' : d = e
    BY <1>4, <2>1 DEF Balanced
  <2>4. Running("register", t)' # {} => t \in registered'
    BY <1>4, <2>1, <2>2 DEF Balanced
  <2>5. CASE t # s
    <3>1. /\ Coming(t)' = Coming(t) + 0 /\ Going(t)' = Going(t) + 0
          /\ Has(t)' = Has(t) + 0 /\ Needs(t)' = Needs(t) + 0
          /\ Occurrences(pending, t)' = Occurrences(pending, t) + 0
      BY <1>4, <1>6, <1>7, <2>1, <2>5
    <3>2. 0 + 0 + 0 = 0 + 0
      OBVIOUS
    <3> QED
      BY <2>1, <2>2, <2>3, <2>4, <3>1, <3>2, BalanceMoves
  <2>6. CASE t = s /\ fabric \notin {"off", "set", "on"}
    BY <2>2, <2>3, <2>4, <2>6 DEF Balanced
  <2>7. CASE t = s /\ fabric \in {"off", "set", "on"}
    <3>0. /\ Occurrences(pending, t) + Has(t) + Coming(t) = Needs(t) + Going(t)
          /\ Has(t) = IF t \in handles THEN 1 ELSE 0
      BY <1>0, <2>1, <2>7 DEF Balanced, Has, Needs, Coming, Going, HandlesMatch
    <3>1. CASE s \in handles
      <4>1. /\ Coming(t)' = Coming(t) + 0 /\ Going(t)' = Going(t) + (-1)
            /\ Has(t)' = Has(t) + (-1) /\ Needs(t)' = Needs(t) + 0
            /\ Occurrences(pending, t)' = Occurrences(pending, t) + 0
        BY <1>4, <1>5, <1>6, <1>7, <2>1, <2>7, <3>0, <3>1
      <4>2. 0 + (-1) + 0 = 0 + (-1)
        OBVIOUS
      <4> QED
        BY <2>1, <2>2, <2>3, <2>4, <4>1, <4>2, BalanceMoves
    <3>2. CASE s \notin handles
      <4>1. Coming(t) <= Needs(t)
        <5>1. CASE Running("register", t) = {}
          BY <2>1, <5>1, FS_EmptySet DEF Coming
        <5>2. CASE Running("register", t) # {}
          <6>1. PICK d : Running("register", t) = {d}
            BY <2>1, <5>2 DEF Balanced
          <6>2. Coming(t) = 1 /\ Needs(t) = 1
            BY <2>1, <5>2, <6>1, FS_Singleton DEF Balanced, Coming, Needs
          <6> QED
            BY <6>2
        <5> QED
          BY <5>1, <5>2
      <4>2. Occurrences(pending, t) # 0
        BY <1>5, <2>1, <2>7, <3>0, <3>2, <4>1
      <4>3. \E i \in 1..Len(pending) : pending[i] = s
        <5>1. DOMAIN pending = 1..Len(pending)
          BY <1>0
        <5> QED
          BY <2>7, <4>2, <5>1, NoOccurrence
      <4>4. /\ Coming(t)' = Coming(t) + 0 /\ Going(t)' = Going(t) + (-1)
            /\ Has(t)' = Has(t) + 0 /\ Needs(t)' = Needs(t) + 0
            /\ Occurrences(pending, t)' = Occurrences(pending, t) + (-1)
        BY <1>4, <1>5, <1>6, <1>7, <2>1, <2>7, <3>2, <4>3
      <4>5. (-1) + 0 + 0 = 0 + (-1)
        OBVIOUS
      <4> QED
        BY <2>1, <2>2, <2>3, <2>4, <4>4, <4>5, BalanceMoves
    <3> QED
      BY <3>1, <3>2
  <2> QED
    BY <2>5, <2>6, <2>7
<1>9. HandlesMatch'
  <2>1. fabric' \in {"off", "set", "on", "failing"} => handles' = routed'
    BY <1>0, <1>1 DEF HandlesMatch
  <2>2. fabric' = "on" => pending' = <<>>
    <3> SUFFICES ASSUME fabric' = "on" PROVE pending' = <<>>
      OBVIOUS
    <3>1. pending = <<>>
      BY <1>0, <1>1 DEF HandlesMatch
    <3>2. ~\E i \in 1..Len(pending) : pending[i] = s
      BY <3>1
    <3>3. RemoveFirst(pending, s) = pending
      BY <1>0, <3>2, RemovingNone
    <3> QED
      BY <1>1, <3>1, <3>3
  <2> QED
    BY <2>1, <2>2 DEF HandlesMatch
<1>10. routed' \subseteq handles' /\ handles' \subseteq Services
  BY <1>0, <1>1
<1> QED
  BY <1>1, <1>2, <1>7, <1>8, <1>9, <1>10, RoutesFacts, RoutesFrom
     DEF RoutesInv, RoutesTypeOK, Balance, CallsTyped

LEMMA SetEndpointStep ==
  ASSUME RoutesInv, SetEndpoint
  PROVE  RoutesInv' /\ CallsMove
<1>0. /\ CallsTyped /\ CallForm /\ HandlesMatch
      /\ \A t \in Services \ overtaken : Balanced(t)
  BY RoutesFacts
<1>1. /\ fabric = "off" /\ fabric' = "set"
      /\ UNCHANGED <<call, registered, channels, pending, handles, routed, overtaken>>
  BY DEF SetEndpoint
<1>2. CallsTyped' /\ CallForm' /\ CallsMove
  BY <1>0, <1>1 DEF CallsTyped, CallForm, CallsMove
<1>3. \A t \in Services \ overtaken : Balanced(t)'
  <2> SUFFICES ASSUME NEW t \in Services \ overtaken PROVE Balanced(t)'
    OBVIOUS
  <2>1. Balanced(t)
    BY <1>0
  <2> QED
    BY <1>1, <2>1, BalanceKept DEF Running, Occurrences
<1>4. HandlesMatch'
  BY <1>0, <1>1 DEF HandlesMatch
<1> QED
  BY <1>1, <1>2, <1>3, <1>4, RoutesFacts, RoutesFrom
     DEF RoutesInv, RoutesTypeOK, Balance, CallsTyped

\* If all pending routes are taken, none is of a service that has one already,
\* and there are no two of one service.
LEMMA DrainedRoutes ==
  ASSUME pending \in Seq(Services)
  PROVE  /\ Drained \in 0..Len(pending)
         /\ Drained = Len(pending) =>
              \A i \in 1..Len(pending) : /\ pending[i] \notin routed
                                         /\ \A j \in 1..(i - 1) : pending[j] # pending[i]
<1> DEFINE Fits(n) == \A i \in 1..n : pending[i] \notin routed
                                        /\ \A j \in 1..(i - 1) : pending[j] # pending[i]
           Taken(n) == Fits(n) /\ (n = Len(pending) \/ ~Fits(n + 1))
           S == {n \in 0..Len(pending) : ~Fits(n)}
<1>0. Len(pending) \in Nat /\ Fits(0)
  OBVIOUS
<1>1. Drained = CHOOSE n \in 0..Len(pending) : Taken(n)
  BY DEF Drained
<1> HIDE DEF Fits
<1>2. \E n \in 0..Len(pending) : Taken(n)
  <2>1. CASE S = {}
    BY <1>0, <2>1
  <2>2. CASE S # {}
    <3>1. S \subseteq Nat
      OBVIOUS
    <3>2. PICK m \in S : \A k \in S : m <= k
      <4> HIDE DEF S
      <4> QED
        BY <2>2, <3>1, SmallestOf
    <3>3. m \in 0..Len(pending) /\ ~Fits(m) /\ m # 0
      BY <1>0
    <3>4. m - 1 \in 0..Len(pending) /\ m - 1 \notin S /\ (m - 1) + 1 = m
      BY <1>0, <3>2, <3>3
    <3>5. Fits(m - 1) /\ ~Fits((m - 1) + 1)
      BY <3>3, <3>4
    <3> QED
      BY <3>4, <3>5
  <2> QED
    BY <2>1, <2>2
<1>3. Drained \in 0..Len(pending) /\ Fits(Drained)
  <2> HIDE DEF Taken
  <2>1. Drained \in 0..Len(pending) /\ Taken(Drained)
    BY <1>1, <1>2
  <2> QED
    BY <2>1 DEF Taken
<1>4. Drained = Len(pending) => Fits(Len(pending))
  BY <1>3
<1> QED
  BY <1>3, <1>4 DEF Fits

\* A service that is pending at most once.
LEMMA OnceEach ==
  ASSUME NEW S, NEW q \in Seq(S), \A i \in 1..Len(q) : \A j \in 1..(i - 1) : q[j] # q[i], NEW s
  PROVE  Occurrences(q, s) = IF s \in {q[i] : i \in 1..Len(q)} THEN 1 ELSE 0
<1>1. DOMAIN q = 1..Len(q) /\ Len(q) \in Nat
  OBVIOUS
<1>2. CASE s \notin {q[i] : i \in 1..Len(q)}
  BY <1>1, <1>2, NoOccurrence
<1>3. CASE s \in {q[i] : i \in 1..Len(q)}
  <2>1. PICK i \in 1..Len(q) : q[i] = s
    BY <1>3
  <2>2. ASSUME NEW j \in 1..Len(q), q[j] = s PROVE j = i
    <3>1. ~(j < i) /\ ~(i < j)
      <4>1. j < i => j \in 1..(i - 1)
        BY <1>1
      <4>2. i < j => i \in 1..(j - 1)
        BY <1>1
      <4> QED
        BY <2>1, <2>2, <4>1, <4>2
    <3> QED
      BY <1>1, <3>1
  <2>3. {j \in DOMAIN q : q[j] = s} = {i}
    BY <1>1, <2>1, <2>2
  <2> QED
    BY <1>3, <2>3, FS_Singleton DEF Occurrences
<1> QED
  BY <1>2, <1>3

LEMMA DrainStep ==
  ASSUME RoutesInv, DrainPendingRoutes
  PROVE  RoutesInv' /\ CallsMove
<1> PICK taken : taken = {pending[i] : i \in 1..Drained}
  OBVIOUS
<1>0. /\ CallsTyped /\ CallForm /\ HandlesMatch /\ pending \in Seq(Services)
      /\ routed \subseteq handles /\ handles \subseteq Services
      /\ \A t \in Services \ overtaken : Balanced(t)
  BY RoutesFacts
<1>1. /\ fabric = "set" /\ handles' = handles \cup taken /\ routed' = routed \cup taken
      /\ pending' = IF Drained = Len(pending) THEN <<>> ELSE pending
      /\ fabric' = IF Drained = Len(pending) THEN "on" ELSE "failing"
      /\ UNCHANGED <<call, registered, channels, overtaken>>
  BY DEF DrainPendingRoutes
<1>2. CallsTyped' /\ CallForm' /\ CallsMove
  BY <1>0, <1>1 DEF CallsTyped, CallForm, CallsMove
<1>3. Drained \in 0..Len(pending) /\ taken \subseteq Services
  <2>1. Drained \in 0..Len(pending)
    BY <1>0, DrainedRoutes
  <2>2. \A i \in 1..Drained : i \in 1..Len(pending) /\ pending[i] \in Services
    BY <1>0, <2>1
  <2> QED
    BY <2>1, <2>2
<1>4. \A k, t : Running(k, t)' = Running(k, t)
  BY <1>1 DEF Running
<1>5. ASSUME NEW t \in Services \ overtaken PROVE Balanced(t)'
  <2>1. /\ Balanced(t) /\ Occurrences(pending, t) \in Nat /\ Has(t) \in Nat
        /\ Needs(t) \in Nat /\ Coming(t) \in Nat /\ Going(t) \in Nat
    BY <1>0, AccountTypes
  <2>2. /\ \A d, e \in Running("register", t)' : d = e
        /\ Running("register", t)' # {} => t \in registered'
    BY <1>1, <1>4, <2>1 DEF Balanced
  <2>3. CASE Drained # Len(pending)
    BY <1>1, <2>2, <2>3 DEF Balanced
  <2>4. CASE Drained = Len(pending)
    <3>1. \A i \in 1..Len(pending) : /\ pending[i] \notin routed
                                     /\ \A j \in 1..(i - 1) : pending[j] # pending[i]
      BY <1>0, <2>4, DrainedRoutes
    <3>2. Occurrences(pending, t) = IF t \in taken THEN 1 ELSE 0
      BY <1>0, <2>4, <3>1, OnceEach
    <3>3. Occurrences(pending, t)' = 0
      <4>1. Occurrences(pending, t)' = Occurrences(pending', t) /\ DOMAIN pending' = {}
        BY <1>1, <2>4 DEF Occurrences
      <4> QED
        BY <4>1, NoOccurrence
    <3>4. t \in taken => t \notin routed
      BY <2>4, <3>1
    <3>5. Has(t)' = Has(t) + Occurrences(pending, t)
      BY <1>1, <3>2, <3>4 DEF Has
    <3>6. PICK o \in Nat : o = Occurrences(pending, t)
      BY <2>1
    <3>7. /\ Occurrences(pending, t)' = Occurrences(pending, t) + (0 - o)
          /\ Has(t)' = Has(t) + o /\ Needs(t)' = Needs(t) + 0
          /\ Coming(t)' = Coming(t) + 0 /\ Going(t)' = Going(t) + 0
      <4>1. Coming(t)' = Coming(t) /\ Going(t)' = Going(t) /\ Needs(t)' = Needs(t)
        BY <1>1, <1>4 DEF Coming, Going, Needs
      <4> QED
        BY <2>1, <3>3, <3>5, <3>6, <4>1
    <3>8. (0 - o) + o + 0 = 0 + 0 /\ (0 - o) \in Int
      OBVIOUS
    <3>9. fabric \in {"off", "set", "on"}
      BY <1>1
    <3> QED
      BY <2>1, <2>2, <3>7, <3>8, <3>9, BalanceMoves
  <2> QED
    BY <2>3, <2>4
<1>6. HandlesMatch'
  BY <1>0, <1>1 DEF HandlesMatch
<1>7. routed' \subseteq handles' /\ handles' \subseteq Services
  BY <1>0, <1>1, <1>3
<1>8. pending' \in Seq(Services)
  BY <1>0, <1>1
<1> QED
  BY <1>1, <1>2, <1>5, <1>6, <1>7, <1>8, RoutesFacts, RoutesFrom
     DEF RoutesInv, RoutesTypeOK, Balance, CallsTyped

LEMMA StopStep ==
  ASSUME RoutesInv, CloseRouter \/ DropEndpoint
  PROVE  RoutesInv' /\ CallsMove
<1>0. CallsTyped /\ CallForm /\ \A t \in Services \ overtaken : Balanced(t)
  BY RoutesFacts
<1>1. /\ fabric' \in {"closing", "failed", "stopped"} /\ routed' \subseteq routed
      /\ UNCHANGED <<call, registered, channels, pending, handles, overtaken>>
  BY DEF CloseRouter, DropEndpoint
<1>2. CallsTyped' /\ CallForm' /\ CallsMove
  BY <1>0, <1>1 DEF CallsTyped, CallForm, CallsMove
<1>3. \A t \in Services \ overtaken : Balanced(t)'
  <2> SUFFICES ASSUME NEW t \in Services \ overtaken PROVE Balanced(t)'
    BY <1>1
  <2>1. Running("register", t)' = Running("register", t)
    BY <1>1 DEF Running
  <2>2. fabric' \notin {"off", "set", "on"} /\ registered' = registered
    BY <1>1
  <2> QED
    BY <1>0, <2>1, <2>2 DEF Balanced
<1>4. HandlesMatch'
  BY <1>1 DEF HandlesMatch
<1>5. routed' \subseteq handles'
  BY <1>1, RoutesFacts
<1> QED
  BY <1>1, <1>2, <1>3, <1>4, <1>5, RoutesFacts, RoutesFrom
     DEF RoutesInv, RoutesTypeOK, Balance, CallsTyped

\* Calls that go on at once, or only fetch a route.
LEMMA OtherCallStep ==
  ASSUME RoutesInv, NEW c \in Calls,
         \/ \E at \in {"checked", "written", "done"} :
              /\ call[c].at \in Stages /\ Proceed(c, at)
              /\ call[c].at = "written" => at = "done"
         \/ \E s \in Services, kind \in {"override", "bridge"} : Make(c, kind, s, "done")
         \/ \E kind \in {"wrap", "unwrap"} : Make(c, kind, None, "fetched"),
         UNCHANGED <<registered, channels, fabric, pending, handles, routed, overtaken>>
  PROVE  RoutesInv' /\ CallsMove
<1>0. CallsTyped /\ CallForm
  BY RoutesFacts
<1> SUFFICES /\ CallsTyped' /\ CallForm' /\ CallsMove
             /\ \A t : /\ Running("register", t)' = Running("register", t)
                       /\ Running("unregister", t)' = Running("unregister", t)
  BY CallStep
<1>1. ASSUME NEW at \in {"checked", "written", "done"}, call[c].at \in Stages, Proceed(c, at),
             call[c].at = "written" => at = "done"
      PROVE  /\ CallsTyped' /\ CallForm' /\ CallsMove
             /\ \A t : /\ Running("register", t)' = Running("register", t)
                       /\ Running("unregister", t)' = Running("unregister", t)
  <2>1. call[c].kind \in {"wrap", "unwrap"} /\ call[c].at # "done"
    BY <1>0, <1>1 DEF CallForm, Stages
  <2>2. CallsTyped' /\ CallForm' /\ CallsMove
    BY <1>0, <1>1, <2>1, ProceedMoves
  <2>3. \A k, t : Running(k, t)' = IF at = "done" THEN Running(k, t) \ {c} ELSE Running(k, t)
    BY <1>0, <1>1, <2>1, ProceedingRuns
  <2>4. \A t : c \notin Running("register", t) /\ c \notin Running("unregister", t)
    BY <2>1 DEF Running
  <2> QED
    BY <2>2, <2>3, <2>4
<1>2. ASSUME NEW s \in Services, NEW kind \in {"override", "bridge"}, Make(c, kind, s, "done")
      PROVE  /\ CallsTyped' /\ CallForm' /\ CallsMove
             /\ \A t : /\ Running("register", t)' = Running("register", t)
                       /\ Running("unregister", t)' = Running("unregister", t)
  <2>1. [kind |-> kind, service |-> s, at |-> "done"] \in CallRecord /\ kind # "unused"
    BY DEF CallRecord
  <2>2. CallsTyped' /\ CallForm' /\ CallsMove
    BY <1>0, <1>2, <2>1, MakeMoves DEF Stages
  <2> QED
    BY <1>0, <1>2, <2>2, MadeRuns
<1>3. ASSUME NEW kind \in {"wrap", "unwrap"}, Make(c, kind, None, "fetched")
      PROVE  /\ CallsTyped' /\ CallForm' /\ CallsMove
             /\ \A t : /\ Running("register", t)' = Running("register", t)
                       /\ Running("unregister", t)' = Running("unregister", t)
  <2>1. /\ [kind |-> kind, service |-> None, at |-> "fetched"] \in CallRecord
        /\ kind # "unused" /\ kind \notin {"register", "unregister", "override", "bridge"}
    BY DEF CallRecord
  <2>2. CallsTyped' /\ CallForm' /\ CallsMove
    BY <1>0, <1>3, <2>1, MakeMoves
  <2>3. kind # "register" /\ kind # "unregister"
    OBVIOUS
  <2> QED
    BY <1>0, <1>3, <2>2, <2>3, MadeRuns
<1> QED
  BY <1>1, <1>2, <1>3

\* Every step: the part of it that concerns the routes of services is one of
\* the steps above, or none.
LEMMA RoutesMove ==
  ASSUME RoutesInv, [Next]_vars
  PROVE  RoutesInv' /\ CallsMove
<1>1. ASSUME NEW c \in Calls, NEW s \in Services, Register(c, s) \/ Unregister(c, s)
      PROVE  RoutesInv' /\ CallsMove
  BY <1>1, RegisterStep, UnregisterStep
<1>2. ASSUME NEW c \in Calls, RouteStep(c)
      PROVE  RoutesInv' /\ CallsMove
  BY <1>2, PendRouteStep, RegisterRouteStep, RefuseRouteStep, WithdrawStep, RemoveRouteStep
     DEF RouteStep
<1>3. ASSUME EndpointStep PROVE RoutesInv' /\ CallsMove
  BY <1>3, SetEndpointStep, DrainStep, StopStep DEF EndpointStep, ServerStep
<1>4. ASSUME NEW c \in Calls, AnnounceBridges(c) PROVE RoutesInv' /\ CallsMove
  BY <1>4, AnnounceStep DEF AnnounceBridges
<1>5. ASSUME NEW c, \/ Clear(c) \/ LoadGlobalHttpHandler(c) \/ SetHttpChannelBridge(c)
                    \/ PublishRoute \/ SetRouteHandler \/ ReadRouter \/ LoadAtStart
      PROVE  RoutesInv' /\ CallsMove
  <2>1. UNCHANGED routeVars
    BY <1>5 DEF Clear, LoadGlobalHttpHandler, SetHttpChannelBridge, PublishRoute, SetRouteHandler,
                ReadRouter, LoadAtStart
  <2> QED
    BY <2>1, UnchangedRoutes
<1>6. ASSUME NEW c \in Calls,
             \/ SetNewMiddleware(c) \/ RemoveMiddleware(c) \/ RefuseMiddleware(c)
             \/ WriteHandler(c) \/ RouteHandler(c)
      PROVE  RoutesInv' /\ CallsMove
  <2>1. /\ \E at \in {"checked", "written", "done"} :
             /\ call[c].at \in Stages /\ Proceed(c, at)
             /\ call[c].at = "written" => at = "done"
        /\ UNCHANGED <<registered, channels, fabric, pending, handles, routed, overtaken>>
    BY <1>6 DEF SetNewMiddleware, RemoveMiddleware, RefuseMiddleware, WriteHandler, RouteHandler,
                MiddlewareStep, Stages
  <2> QED
    BY <2>1, OtherCallStep
<1>7. ASSUME NEW c \in Calls, NEW s \in Services, NEW b,
             OverrideRESTBridgeConfig(c, s, b) \/ BridgeByHand(c, s, b)
      PROVE  RoutesInv' /\ CallsMove
  <2>1. /\ Make(c, "override", s, "done") \/ Make(c, "bridge", s, "done")
        /\ UNCHANGED <<registered, channels, fabric, pending, handles, routed, overtaken>>
    BY <1>7 DEF OverrideRESTBridgeConfig, BridgeByHand
  <2> QED
    BY <2>1, OtherCallStep
<1>8. ASSUME NEW c \in Calls, NEW k, GetRoute(c, "wrap", k) \/ GetRoute(c, "unwrap", k)
      PROVE  RoutesInv' /\ CallsMove
  <2>1. /\ Make(c, "wrap", None, "fetched") \/ Make(c, "unwrap", None, "fetched")
        /\ UNCHANGED <<registered, channels, fabric, pending, handles, routed, overtaken>>
    BY <1>8 DEF GetRoute
  <2> QED
    BY <2>1, OtherCallStep
<1>9. ASSUME NEW h, NEW m, NEW p, NEW s,
             \/ SendRequest(h, m, p) \/ SendResponse(h) \/ ReceiveResponse(h) \/ TimeOut(h)
             \/ BridgeMessage(h, s) \/ UNCHANGED vars
      PROVE  RoutesInv' /\ CallsMove
  <2>1. UNCHANGED routeVars
    BY <1>9 DEF SendRequest, SendResponse, ReceiveResponse, TimeOut, BridgeMessage, AsksFor, vars
  <2> QED
    BY <2>1, UnchangedRoutes
<1> QED
  BY <1>1, <1>2, <1>3, <1>4, <1>5, <1>6, <1>7, <1>8, <1>9 DEF Next, RegistryStep

\* Nothing running, the account is that of the service alone.
LEMMA RoutesAreRight ==
  ASSUME RoutesInv
  PROVE  RoutesFollowServices
<1> SUFFICES ASSUME NEW s \in Services \ overtaken, fabric \in {"off", "set", "on"},
                    Running("register", s) \cup Running("unregister", s) = {}
             PROVE  /\ Cardinality({i \in DOMAIN pending : pending[i] = s})
                          + (IF s \in routed THEN 1 ELSE 0)
                        = (IF s \in registered THEN 1 ELSE 0)
                    /\ fabric = "on" => s \notin Range(pending)
  BY DEF RoutesFollowServices
<1>1. Balanced(s) /\ HandlesMatch /\ Occurrences(pending, s) \in Nat
  BY RoutesFacts, AccountTypes
<1>2. Running("register", s) = {} /\ Running("unregister", s) = {} /\ Cardinality({}) = 0
  BY FS_EmptySet
<1>3. Occurrences(pending, s) + (IF s \in routed THEN 1 ELSE 0)
        = (IF s \in registered THEN 1 ELSE 0)
  <2>1. Occurrences(pending, s) + Has(s) + 0 = Needs(s) + 0
    BY <1>1, <1>2 DEF Balanced, Has, Needs
  <2>2. Occurrences(pending, s) + Has(s) = Needs(s)
    BY <1>1, <2>1, AccountTypes
  <2> QED
    BY <2>2 DEF Has, Needs
<1>4. fabric = "on" => s \notin Range(pending)
  BY <1>1 DEF HandlesMatch, Range
<1> QED
  BY <1>3, <1>4 DEF Occurrences

(***************************************************************************)
(* Requests, and the payload channels of the services.                     *)
(***************************************************************************)
RequestRecord == [at : {"unsent", "waiting", "done", "foreign"},
                  service : Services \cup {None}, owed : BOOLEAN, got : Requests \cup {None}]
RequestsTyped ==
  /\ request \in [Requests -> RequestRecord]
  /\ payload \in [Services -> Seq(Requests)]
  /\ \A s \in Services : Len(payload[s]) =< PayloadCap /\ (payload[s] # <<>> => s \in bridged)

\* A request that was sent has a service; one that has an answer waits no more.
RequestForm ==
  \A h \in Requests :
    /\ request[h].at = "unsent" => request[h] = Unsent
    /\ request[h].at # "unsent" => request[h].service \in Services
    /\ request[h].got # None => request[h].at = "done"

\* A response is in the channel of the service of its request, which will not
\* answer it again, and nobody has got it.
Queued(s, g) == /\ request[g].at # "unsent" /\ request[g].owed = FALSE
                /\ request[g].service = s
                /\ \A h \in Requests : request[h].got # g
QueuesHold ==
  \A s \in Services : \A i \in DOMAIN payload[s] :
    /\ Queued(s, payload[s][i])
    /\ \A j \in DOMAIN payload[s] : payload[s][i] = payload[s][j] => i = j
GotIsSent ==
  \A h \in Requests : request[h].got # None =>
    request[request[h].got].at # "unsent" /\ request[request[h].got].owed = FALSE

\* All that is under way for a service without mixed answers is one request.
Waiting(s) == {payload[s][i] : i \in DOMAIN payload[s]}
OneAnswer ==
  \A s \in Services \ mixed : \A g, h \in Open(s) \cup Waiting(s) : g = h

HttpInv == /\ RequestsTyped /\ RequestForm /\ QueuesHold /\ GotIsSent /\ OneAnswer /\ OwnAnswer

LEMMA InitHttp ==
  ASSUME Init
  PROVE  HttpInv
<1> USE DEF Init
<1>0. Unsent \in RequestRecord /\ \A h \in Requests : request[h] = Unsent
  BY DEF RequestRecord, Unsent
<1>1. RequestsTyped
  <2>1. request \in [Requests -> RequestRecord] /\ payload \in [Services -> Seq(Requests)]
    BY <1>0
  <2>2. \A s \in Services : payload[s] = <<>> /\ Len(payload[s]) = 0
    OBVIOUS
  <2>3. PayloadCap \in Nat
    BY CapAssumption
  <2> QED
    BY <2>1, <2>2, <2>3 DEF RequestsTyped
<1>2. \A h \in Requests : request[h].at = "unsent" /\ request[h].got = None /\ request[h] = Unsent
  BY <1>0 DEF Unsent
<1>3. RequestForm /\ GotIsSent /\ OwnAnswer
  BY <1>2 DEF RequestForm, GotIsSent, OwnAnswer
<1>4. \A s \in Services : DOMAIN payload[s] = {}
  OBVIOUS
<1>5. QueuesHold
  BY <1>4 DEF QueuesHold
<1>6. \A s \in Services : Open(s) = {} /\ Waiting(s) = {}
  <2>1. \A h \in Requests : request[h].at # "waiting" /\ ~request[h].owed
    BY <1>0 DEF Unsent
  <2> QED
    BY <1>4, <2>1 DEF Open, Waiting
<1>7. OneAnswer
  BY <1>6 DEF OneAnswer
<1> QED
  BY <1>1, <1>3, <1>5, <1>7 DEF HttpInv

LEMMA UnchangedHttp ==
  ASSUME HttpInv, UNCHANGED httpVars, bridged \subseteq bridged'
  PROVE  HttpInv'
<1> USE DEF httpVars
<1>1. RequestsTyped'
  BY DEF HttpInv, RequestsTyped
<1>2. RequestForm' /\ GotIsSent' /\ OwnAnswer'
  BY DEF HttpInv, RequestForm, GotIsSent, OwnAnswer
<1>3. QueuesHold'
  BY DEF HttpInv, QueuesHold, Queued
<1>4. OneAnswer'
  BY DEF HttpInv, OneAnswer, Open, Waiting
<1> QED
  BY <1>1, <1>2, <1>3, <1>4 DEF HttpInv

LEMMA AskStep ==
  ASSUME HttpInv, NEW h \in Requests, NEW s \in Services, NEW at \in {"waiting", "foreign"},
         AsksFor(h, s, at)
  PROVE  HttpInv'
<1>0. /\ RequestsTyped /\ RequestForm /\ QueuesHold /\ GotIsSent /\ OneAnswer /\ OwnAnswer
  BY DEF HttpInv
<1>1. /\ request[h] = Unsent /\ payload' = payload /\ bridged' = bridged
      /\ request' = [request EXCEPT ![h] = [at |-> at, service |-> s,
                                            owed |-> s \in registered, got |-> None]]
      /\ mixed' = mixed \cup {t \in {s} : Open(s) # {} \/ payload[s] # <<>>}
  BY DEF AsksFor, bridgeVars, mapVars
<1>2. /\ request'[h].at = at /\ request'[h].service = s /\ request'[h].got = None
      /\ \A g \in Requests : g # h => request'[g] = request[g]
      /\ request[h].at = "unsent" /\ request[h].got = None
  BY <1>0, <1>1 DEF RequestsTyped, Unsent
<1>3. RequestsTyped'
  BY <1>0, <1>1 DEF RequestsTyped, RequestRecord
<1>4. RequestForm'
  BY <1>0, <1>2 DEF RequestForm
<1>5. GotIsSent'
  BY <1>0, <1>2 DEF GotIsSent, RequestsTyped, RequestRecord
<1>6. QueuesHold'
  <2> SUFFICES ASSUME NEW t \in Services, NEW i \in DOMAIN payload[t]
               PROVE  /\ Queued(t, payload[t][i])'
                      /\ \A j \in DOMAIN payload[t] : payload[t][i] = payload[t][j] => i = j
    BY <1>1 DEF QueuesHold
  <2>1. /\ Queued(t, payload[t][i])
        /\ \A j \in DOMAIN payload[t] : payload[t][i] = payload[t][j] => i = j
        /\ payload[t][i] \in Requests
    BY <1>0 DEF QueuesHold, RequestsTyped
  <2>2. PICK g \in Requests : g = payload[t][i]
    BY <2>1
  <2>3. Queued(t, g) /\ payload'[t][i] = g
    BY <1>1, <2>1, <2>2
  <2>4. g # h
    BY <1>2, <2>3 DEF Queued
  <2>5. g # None
    BY NilAssumption
  <2>6. Queued(t, g)'
    BY <1>2, <2>3, <2>4, <2>5 DEF Queued
  <2> QED
    BY <2>1, <2>3, <2>6 DEF Queued
<1>7. OneAnswer'
  <2> SUFFICES ASSUME NEW t \in Services \ mixed', NEW g \in Open(t)' \cup Waiting(t)',
                      NEW f \in Open(t)' \cup Waiting(t)'
               PROVE  g = f
    BY DEF OneAnswer
  <2>1. Waiting(t)' = Waiting(t)
    BY <1>1 DEF Waiting
  <2>2. t \in Services \ mixed
    BY <1>1
  <2>3. CASE t # s
    <3>1. Open(t)' \subseteq Open(t)
      BY <1>2, <2>3 DEF Open
    <3> QED
      BY <1>0, <2>1, <2>2, <3>1 DEF OneAnswer
  <2>4. CASE t = s
    <3>1. Open(t) = {} /\ payload[t] = <<>>
      BY <1>1, <2>4
    <3>2. Waiting(t) = {} /\ Open(t)' \subseteq {h}
      BY <1>2, <3>1 DEF Waiting, Open
    <3> QED
      BY <2>1, <3>2
  <2> QED
    BY <2>3, <2>4
<1>8. OwnAnswer'
  <2> SUFFICES ASSUME NEW g \in Requests, request'[g].got # None
               PROVE  /\ request'[g].got # g => request'[g].service \in mixed'
                      /\ request'[request'[g].got].service = request'[g].service
                      /\ \A f \in Requests \ {g} : request'[f].got # request'[g].got
    BY DEF OwnAnswer
  <2>1. g # h /\ request'[g] = request[g] /\ request[g].got # None
    BY <1>2
  <2>2. request[g].got \in Requests /\ request[g].got # h
    BY <1>0, <1>2, <2>1 DEF GotIsSent, RequestsTyped, RequestRecord
  <2>3. request'[request[g].got] = request[request[g].got]
    BY <1>2, <2>2
  <2>4. /\ request[g].got # g => request[g].service \in mixed
        /\ request[request[g].got].service = request[g].service
        /\ \A f \in Requests \ {g} : request[f].got # request[g].got
    BY <1>0, <2>1 DEF OwnAnswer
  <2>5. mixed \subseteq mixed'
    BY <1>1
  <2> QED
    BY <1>2, <2>1, <2>3, <2>4, <2>5
<1> QED
  BY <1>3, <1>4, <1>5, <1>6, <1>7, <1>8 DEF HttpInv

LEMMA SendResponseStep ==
  ASSUME HttpInv, NEW h \in Requests, SendResponse(h)
  PROVE  HttpInv'
<1> PICK s : s = request[h].service
  OBVIOUS
<1>0. /\ RequestsTyped /\ RequestForm /\ QueuesHold /\ GotIsSent /\ OneAnswer /\ OwnAnswer
  BY DEF HttpInv
<1>1. /\ request[h].owed = TRUE
      /\ s \in bridged => Len(payload[s]) < PayloadCap
      /\ payload' = [payload EXCEPT ![s] = IF s \in bridged THEN Append(@, h) ELSE @]
      /\ request' = [request EXCEPT ![h].owed = FALSE]
      /\ bridged' = bridged /\ mixed' = mixed
  BY <1>0 DEF SendResponse, AnswersInto, bridgeVars, mapVars, RequestsTyped, RequestRecord
<1>2. s \in Services /\ request[h].at # "unsent"
  BY <1>0, <1>1 DEF RequestForm, Unsent
<1>3. /\ request'[h].at = request[h].at /\ request'[h].service = s
      /\ request'[h].got = request[h].got /\ request'[h].owed = FALSE
      /\ \A g \in Requests : g # h => request'[g] = request[g]
  BY <1>0, <1>1 DEF RequestsTyped, RequestRecord
<1>4. /\ \A t \in Services : t # s => payload'[t] = payload[t]
      /\ payload'[s] = IF s \in bridged THEN Append(payload[s], h) ELSE payload[s]
      /\ payload[s] \in Seq(Requests)
  BY <1>0, <1>1, <1>2 DEF RequestsTyped
<1>5. RequestsTyped'
  <2>1. request' \in [Requests -> RequestRecord]
    BY <1>0, <1>1 DEF RequestsTyped, RequestRecord
  <2>2. payload' \in [Services -> Seq(Requests)]
    <3>1. payload'[s] \in Seq(Requests)
      BY <1>4
    <3>2. payload' = [payload EXCEPT ![s] = payload'[s]]
      BY <1>0, <1>1, <1>2 DEF RequestsTyped
    <3> QED
      BY <1>0, <3>1, <3>2 DEF RequestsTyped
  <2>3. ASSUME NEW t \in Services
        PROVE  Len(payload'[t]) =< PayloadCap /\ (payload'[t] # <<>> => t \in bridged')
    <3>1. PayloadCap \in Nat /\ Len(payload[s]) \in Nat
      BY <1>4, CapAssumption
    <3>2. CASE t = s /\ s \in bridged
      <4>1. Len(payload'[t]) = Len(payload[s]) + 1
        BY <1>4, <3>2
      <4> QED
        BY <1>1, <3>1, <3>2, <4>1
    <3>3. CASE ~(t = s /\ s \in bridged)
      BY <1>0, <1>1, <1>4, <3>3 DEF RequestsTyped
    <3> QED
      BY <3>2, <3>3
  <2> QED
    BY <2>1, <2>2, <2>3 DEF RequestsTyped
<1>6. RequestForm'
  BY <1>0, <1>2, <1>3 DEF RequestForm
<1>7. GotIsSent'
  <2> SUFFICES ASSUME NEW g \in Requests, request'[g].got # None
               PROVE  request'[request'[g].got].at # "unsent" /\ request'[request'[g].got].owed = FALSE
    BY DEF GotIsSent
  <2>1. request'[g].got = request[g].got /\ request[g].got \in Requests
    BY <1>0, <1>3 DEF RequestsTyped, RequestRecord
  <2>2. request[request[g].got].at # "unsent" /\ request[request[g].got].owed = FALSE
    BY <1>0, <2>1 DEF GotIsSent
  <2> QED
    BY <1>1, <1>3, <2>1, <2>2
<1>8. \A g \in Requests : request'[g].got = request[g].got /\ request'[g].service = request[g].service
  BY <1>3
<1>9. OwnAnswer'
  BY <1>0, <1>1, <1>8 DEF OwnAnswer, RequestsTyped, RequestRecord
\* Nobody has got the answer of h, and it is in no channel yet.
<1>10. /\ \A g \in Requests : request[g].got # h
       /\ \A t \in Services : \A i \in DOMAIN payload[t] : payload[t][i] # h
  <2>1. h # None
    BY NilAssumption
  <2>2. \A g \in Requests : request[g].got # h
    BY <1>0, <1>1, <2>1 DEF GotIsSent
  <2>3. \A t \in Services : \A i \in DOMAIN payload[t] : payload[t][i] # h
    BY <1>0, <1>1 DEF QueuesHold, Queued
  <2> QED
    BY <2>2, <2>3
<1>11. QueuesHold'
  <2>2. ASSUME NEW t, NEW g \in Requests, Queued(t, g) PROVE Queued(t, g)'
    BY <1>3, <1>8, <2>2 DEF Queued
  <2>3. Queued(s, h)'
    BY <1>2, <1>3, <1>8, <1>10 DEF Queued
  <2> SUFFICES ASSUME NEW t \in Services, NEW i \in DOMAIN payload'[t]
               PROVE  /\ Queued(t, payload[t][i])'
                      /\ \A j \in DOMAIN payload'[t] : payload'[t][i] = payload'[t][j] => i = j
    BY DEF QueuesHold
  <2>4. CASE t = s /\ s \in bridged
    <3>1. /\ payload'[t] = Append(payload[t], h) /\ payload[t] \in Seq(Requests)
      BY <1>4, <2>4
    <3>2. /\ DOMAIN payload'[t] = 1..(Len(payload[t]) + 1)
          /\ DOMAIN payload[t] = 1..Len(payload[t]) /\ Len(payload[t]) \in Nat
          /\ \A j \in DOMAIN payload'[t] : payload'[t][j] = IF j \in DOMAIN payload[t] THEN payload[t][j] ELSE h
          /\ \A j \in DOMAIN payload'[t] : j \notin DOMAIN payload[t] => j = Len(payload[t]) + 1
          /\ \A j \in DOMAIN payload[t] : payload[t][j] \in Requests
      BY <3>1
    <3>3. \A j \in DOMAIN payload[t] :
            /\ Queued(t, payload[t][j]) /\ payload[t][j] # h
            /\ \A k \in DOMAIN payload[t] : payload[t][j] = payload[t][k] => j = k
      BY <1>0, <1>10 DEF QueuesHold
    <3>4. PICK g \in Requests : g = payload'[t][i]
      BY <3>2
    <3>5. Queued(t, g)'
      <4>1. CASE i \in DOMAIN payload[t]
        BY <2>2, <3>2, <3>3, <3>4, <4>1
      <4>2. CASE i \notin DOMAIN payload[t]
        BY <2>3, <2>4, <3>2, <3>4, <4>2
      <4> QED
        BY <4>1, <4>2
    <3>6. \A j \in DOMAIN payload'[t] : payload'[t][i] = payload'[t][j] => i = j
      BY <3>2, <3>3
    <3> QED
      BY <3>4, <3>5, <3>6 DEF Queued
  <2>5. CASE ~(t = s /\ s \in bridged)
    <3>1. payload'[t] = payload[t] /\ payload[t] \in Seq(Requests)
      BY <1>0, <1>4, <2>5 DEF RequestsTyped
    <3>2. /\ Queued(t, payload[t][i]) /\ payload[t][i] \in Requests
          /\ \A j \in DOMAIN payload[t] : payload[t][i] = payload[t][j] => i = j
      BY <1>0, <3>1 DEF QueuesHold
    <3>3. PICK g \in Requests : g = payload[t][i]
      BY <3>2
    <3>4. Queued(t, g)'
      BY <2>2, <3>2, <3>3
    <3> QED
      BY <3>1, <3>2, <3>3, <3>4 DEF Queued
  <2> QED
    BY <2>4, <2>5
<1>12. OneAnswer'
  <2> SUFFICES ASSUME NEW t \in Services \ mixed, NEW g \in Open(t)' \cup Waiting(t)',
                      NEW f \in Open(t)' \cup Waiting(t)'
               PROVE  g = f
    BY <1>1 DEF OneAnswer
  <2>1. Open(t)' \subseteq Open(t)
    BY <1>3 DEF Open
  <2>2. h \in Open(s)
    BY <1>1 DEF Open
  <2>3. Waiting(t)' \subseteq Waiting(t) \cup {x \in {h} : t = s}
    <3>1. CASE t = s /\ s \in bridged
      <4>1. /\ payload'[t] = Append(payload[t], h) /\ payload[t] \in Seq(Requests)
        BY <1>4, <3>1
      <4> QED
        BY <3>1, <4>1 DEF Waiting
    <3>2. CASE ~(t = s /\ s \in bridged)
      BY <1>4, <3>2 DEF Waiting
    <3> QED
      BY <3>1, <3>2
  <2>4. g \in Open(t) \cup Waiting(t) /\ f \in Open(t) \cup Waiting(t)
    BY <2>1, <2>2, <2>3
  <2> QED
    BY <1>0, <2>4 DEF OneAnswer
<1> QED
  BY <1>5, <1>6, <1>7, <1>9, <1>11, <1>12 DEF HttpInv

LEMMA TimeOutStep ==
  ASSUME HttpInv, NEW h \in Requests, TimeOut(h)
  PROVE  HttpInv'
<1>0. /\ RequestsTyped /\ RequestForm /\ QueuesHold /\ GotIsSent /\ OneAnswer /\ OwnAnswer
  BY DEF HttpInv
<1>1. /\ request[h].at = "waiting" /\ request' = [request EXCEPT ![h].at = "done"]
      /\ payload' = payload /\ bridged' = bridged /\ mixed' = mixed
  BY DEF TimeOut, bridgeVars, mapVars
<1>2. /\ request'[h].at = "done"
      /\ \A g \in Requests :
           /\ request'[g].service = request[g].service /\ request'[g].got = request[g].got
           /\ request'[g].owed = request[g].owed
           /\ g # h => request'[g] = request[g]
           /\ request[g].at # "unsent" => request'[g].at # "unsent"
  BY <1>0, <1>1 DEF RequestsTyped, RequestRecord
<1>3. RequestsTyped'
  BY <1>0, <1>1 DEF RequestsTyped, RequestRecord
<1>4. RequestForm'
  BY <1>0, <1>1, <1>2 DEF RequestForm
<1>5. GotIsSent' /\ OwnAnswer'
  BY <1>0, <1>1, <1>2 DEF GotIsSent, OwnAnswer, RequestsTyped, RequestRecord
<1>6. QueuesHold'
  <2> SUFFICES ASSUME NEW t \in Services, NEW i \in DOMAIN payload[t]
               PROVE  /\ Queued(t, payload[t][i])'
                      /\ \A j \in DOMAIN payload[t] : payload[t][i] = payload[t][j] => i = j
    BY <1>1 DEF QueuesHold
  <2>1. /\ Queued(t, payload[t][i]) /\ payload[t][i] \in Requests
        /\ \A j \in DOMAIN payload[t] : payload[t][i] = payload[t][j] => i = j
    BY <1>0 DEF QueuesHold, RequestsTyped
  <2>2. PICK g \in Requests : g = payload[t][i]
    BY <2>1
  <2>3. Queued(t, g)'
    BY <1>2, <2>1, <2>2 DEF Queued
  <2> QED
    BY <1>1, <2>1, <2>2, <2>3 DEF Queued
<1>7. OneAnswer'
  <2>1. \A t : Open(t)' \subseteq Open(t) /\ Waiting(t)' = Waiting(t)
    BY <1>1, <1>2 DEF Open, Waiting
  <2> QED
    BY <1>0, <1>1, <2>1 DEF OneAnswer
<1> QED
  BY <1>3, <1>4, <1>5, <1>6, <1>7 DEF HttpInv

LEMMA ReceiveResponseStep ==
  ASSUME HttpInv, NEW h \in Requests, ReceiveResponse(h)
  PROVE  HttpInv'
<1> PICK s : s = request[h].service
  OBVIOUS
<1> PICK r : r = Head(payload[s])
  OBVIOUS
<1>0. /\ RequestsTyped /\ RequestForm /\ QueuesHold /\ GotIsSent /\ OneAnswer /\ OwnAnswer
  BY DEF HttpInv
<1>1. /\ request[h].at = "waiting" /\ payload[s] # <<>>
      /\ payload' = [payload EXCEPT ![s] = Tail(@)]
      /\ request' = [request EXCEPT ![h].got = r, ![h].at = "done"]
      /\ bridged' = bridged /\ mixed' = mixed
  BY DEF ReceiveResponse, bridgeVars, mapVars
<1>2. s \in Services
  BY <1>0, <1>1 DEF RequestForm
<1>3. /\ payload[s] \in Seq(Requests) /\ Len(payload[s]) \in Nat /\ 1 \in DOMAIN payload[s]
      /\ r = payload[s][1] /\ r \in Requests
      /\ Tail(payload[s]) \in Seq(Requests)
      /\ DOMAIN Tail(payload[s]) = 1..(Len(payload[s]) - 1)
      /\ \A j \in 1..(Len(payload[s]) - 1) :
           j + 1 \in DOMAIN payload[s] /\ j + 1 # 1 /\ Tail(payload[s])[j] = payload[s][j + 1]
  <2>1. payload[s] \in Seq(Requests) /\ payload[s] # <<>>
    BY <1>0, <1>1, <1>2 DEF RequestsTyped
  <2> QED
    BY <2>1
<1>4. /\ Queued(s, r)
      /\ \A j \in 1..(Len(payload[s]) - 1) : Tail(payload[s])[j] # r
  BY <1>0, <1>2, <1>3 DEF QueuesHold
<1>5. /\ request'[h].at = "done" /\ request'[h].got = r
      /\ request'[h].service = request[h].service /\ request'[h].owed = request[h].owed
      /\ \A g \in Requests : g # h => request'[g] = request[g]
  BY <1>0, <1>1, <1>3 DEF RequestsTyped, RequestRecord
<1>6. \A g \in Requests : /\ request'[g].service = request[g].service
                          /\ request'[g].owed = request[g].owed
                          /\ request[g].at # "unsent" => request'[g].at # "unsent"
  BY <1>5
<1>7. /\ \A t \in Services : t # s => payload'[t] = payload[t]
      /\ payload'[s] = Tail(payload[s])
  BY <1>0, <1>1, <1>2 DEF RequestsTyped
<1>8. RequestsTyped'
  <2>1. request' \in [Requests -> RequestRecord]
    BY <1>0, <1>1, <1>3 DEF RequestsTyped, RequestRecord
  <2>2. payload' \in [Services -> Seq(Requests)]
    BY <1>0, <1>1, <1>3 DEF RequestsTyped
  <2>3. ASSUME NEW t \in Services
        PROVE  Len(payload'[t]) =< PayloadCap /\ (payload'[t] # <<>> => t \in bridged')
    <3>1. CASE t = s
      <4>1. Len(payload[s]) =< PayloadCap /\ s \in bridged /\ PayloadCap \in Nat
        BY <1>0, <1>1, <1>2, CapAssumption DEF RequestsTyped
      <4>2. Len(Tail(payload[s])) = Len(payload[s]) - 1
        BY <1>1, <1>3
      <4> QED
        BY <1>1, <1>3, <1>7, <3>1, <4>1, <4>2
    <3>2. CASE t # s
      BY <1>0, <1>1, <1>7, <3>2 DEF RequestsTyped
    <3> QED
      BY <3>1, <3>2
  <2> QED
    BY <2>1, <2>2, <2>3 DEF RequestsTyped
<1>9. RequestForm'
  BY <1>0, <1>1, <1>2, <1>5 DEF RequestForm
<1>10. GotIsSent'
  <2> SUFFICES ASSUME NEW g \in Requests, request'[g].got # None
               PROVE  request'[request'[g].got].at # "unsent" /\ request'[request'[g].got].owed = FALSE
    BY DEF GotIsSent
  <2>1. PICK f \in Requests : f = request'[g].got
    BY <1>8 DEF RequestsTyped, RequestRecord
  <2>2. request[f].at # "unsent" /\ request[f].owed = FALSE
    <3>1. CASE g = h
      BY <1>4, <1>5, <2>1, <3>1 DEF Queued
    <3>2. CASE g # h
      BY <1>0, <1>5, <2>1, <3>2 DEF GotIsSent
    <3> QED
      BY <3>1, <3>2
  <2> QED
    BY <1>6, <2>1, <2>2
<1>11. QueuesHold'
  <2>1. ASSUME NEW t \in Services, NEW g \in Requests, Queued(t, g), g # r
        PROVE  Queued(t, g)'
    BY <1>5, <1>6, <2>1 DEF Queued
  <2> SUFFICES ASSUME NEW t \in Services, NEW i \in DOMAIN payload'[t]
               PROVE  /\ Queued(t, payload[t][i])'
                      /\ \A j \in DOMAIN payload'[t] : payload'[t][i] = payload'[t][j] => i = j
    BY DEF QueuesHold
  <2>2. CASE t = s
    <3>1. i \in 1..(Len(payload[s]) - 1) /\ payload'[t] = Tail(payload[s])
      BY <1>3, <1>7, <2>2
    <3>2. PICK g \in Requests : g = Tail(payload[s])[i]
      BY <1>3, <3>1
    <3>3. Queued(t, g) /\ g # r
      BY <1>0, <1>3, <1>4, <2>2, <3>1, <3>2 DEF QueuesHold
    <3>4. Queued(t, g)'
      BY <2>1, <3>3
    <3>5. \A j \in DOMAIN payload'[t] : payload'[t][i] = payload'[t][j] => i = j
      <4> SUFFICES ASSUME NEW j \in 1..(Len(payload[s]) - 1),
                          Tail(payload[s])[i] = Tail(payload[s])[j]
                   PROVE  i = j
        BY <1>3, <3>1
      <4>1. payload[s][i + 1] = payload[s][j + 1]
        BY <1>3, <3>1
      <4>2. i + 1 = j + 1
        BY <1>0, <1>2, <1>3, <3>1, <4>1 DEF QueuesHold
      <4> QED
        BY <3>1, <4>2
    <3> QED
      BY <3>1, <3>2, <3>4, <3>5 DEF Queued
  <2>3. CASE t # s
    <3>1. payload'[t] = payload[t] /\ payload[t] \in Seq(Requests)
      BY <1>0, <1>7, <2>3 DEF RequestsTyped
    <3>2. /\ Queued(t, payload[t][i]) /\ payload[t][i] \in Requests
          /\ \A j \in DOMAIN payload[t] : payload[t][i] = payload[t][j] => i = j
      BY <1>0, <3>1 DEF QueuesHold
    <3>3. PICK g \in Requests : g = payload[t][i]
      BY <3>2
    <3>4. Queued(t, g)
      BY <3>2, <3>3
    <3>5. g # r
      BY <1>4, <2>3, <3>4 DEF Queued
    <3>6. Queued(t, g)'
      BY <2>1, <3>4, <3>5
    <3> QED
      BY <3>1, <3>2, <3>3, <3>6 DEF Queued
  <2> QED
    BY <2>2, <2>3
<1>12. OneAnswer'
  <2>1. \A t \in Services : Waiting(t)' \subseteq Waiting(t)
    <3> SUFFICES ASSUME NEW t \in Services PROVE Waiting(t)' \subseteq Waiting(t)
      OBVIOUS
    <3>1. CASE t = s
      <4>1. \A j \in DOMAIN Tail(payload[s]) :
              \E k \in DOMAIN payload[s] : Tail(payload[s])[j] = payload[s][k]
        BY <1>3
      <4>2. payload'[t] = Tail(payload[s]) /\ payload[t] = payload[s]
        BY <1>7, <3>1
      <4> QED
        BY <4>1, <4>2 DEF Waiting
    <3>2. CASE t # s
      BY <1>7, <3>2 DEF Waiting
    <3> QED
      BY <3>1, <3>2
  <2>2. \A t : Open(t)' \subseteq Open(t)
    BY <1>1, <1>5, <1>6 DEF Open
  <2> QED
    BY <1>0, <1>1, <2>1, <2>2 DEF OneAnswer
<1>13. r # h => s \in mixed
  <2>1. h \in Open(s) /\ r \in Waiting(s)
    BY <1>1, <1>3 DEF Open, Waiting
  <2> QED
    BY <1>0, <1>2, <2>1 DEF OneAnswer
<1>14. OwnAnswer'
  <2>0. /\ request[h].got = None /\ r # None
        /\ \A g \in Requests : request[g].got # r
        /\ request[r].service = s
    BY <1>0, <1>1, <1>3, <1>4, NilAssumption DEF RequestForm, Queued
  <2> SUFFICES ASSUME NEW g \in Requests, request'[g].got # None
               PROVE  /\ request'[g].got # g => request'[g].service \in mixed
                      /\ request'[request'[g].got].service = request'[g].service
                      /\ \A f \in Requests \ {g} : request'[f].got # request'[g].got
    BY <1>1 DEF OwnAnswer
  <2>1. CASE g = h
    BY <1>3, <1>5, <1>6, <1>13, <2>0, <2>1
  <2>2. CASE g # h
    <3>1. request'[g] = request[g] /\ request[g].got # None /\ request[g].got \in Requests
      BY <1>0, <1>5, <2>2 DEF RequestsTyped, RequestRecord
    <3>2. /\ request[g].got # g => request[g].service \in mixed
          /\ request[request[g].got].service = request[g].service
          /\ \A f \in Requests \ {g} : request[f].got # request[g].got
      BY <1>0, <3>1 DEF OwnAnswer
    <3> QED
      BY <1>5, <1>6, <2>0, <3>1, <3>2
  <2> QED
    BY <2>1, <2>2
<1> QED
  BY <1>8, <1>9, <1>10, <1>11, <1>12, <1>14 DEF HttpInv

(***************************************************************************)
(* The endpoints: handlers, routes, clones and the middleware manager.     *)
(***************************************************************************)
\* Handlers with as many layers of middleware as have been put on any.
HandlerRecord == [service : Services \cup {None}, bridge : Keys \cup {Nil},
                  builder : Calls \cup {None}, layers : Nat]
Verbs == Methods \cup {"HEAD", "OPTIONS", AllMethodsWildcard}
RouteRecord == [name : Keys, path : Paths, prefix : BOOLEAN, methods : SUBSET Verbs,
                handler : HandlerRecord \cup {Nil}]
SetupRecord == [at : {"none", "new", "cleared", "setting", "done"}, override : BOOLEAN,
                todo : Seq(ExactBridges), clone : Nat]
SettingRecord == [at : {"free", "stored", "named"}, key : Keys \cup {Nil},
                  bridge : Bridges \cup {Nil}, handler : HandlerRecord \cup {Nil}]
FetchedRecord == [key : Keys \cup {Nil}, router : Nat, index : Nat, handler : HandlerRecord \cup {Nil}]
BridgesTyped ==
  /\ setup \in [Calls -> SetupRecord]
  /\ routers \in Seq(Seq(RouteRecord)) /\ loaded \in DOMAIN routers
  /\ start \in [at : {"off", "read", "done"}, router : DOMAIN routers]
  /\ handlers \in [Keys -> HandlerRecord \cup {Nil}]
  /\ originals \in [Keys -> HandlerRecord \cup {Nil}]
  /\ endpoints \in [Services -> SUBSET Keys]
  /\ bridged \subseteq channels
  /\ setting \in SettingRecord
  /\ fetched \in [Calls -> FetchedRecord]

\* A handler is for its key and for the service of the call that built it, or
\* it is broken.
Wraps(calls) == {c \in Calls : calls[c].kind = "wrap" /\ calls[c].at \in {"written", "done"}}
HandlerOf(calls, h, k) ==
  /\ h \in HandlerRecord /\ h.layers <= Cardinality(Wraps(calls))
  /\ \/ h.builder = None /\ h.service = None /\ h.bridge = Nil
     \/ h.builder \in Calls /\ h.bridge = k /\ h.service \in Services
          /\ h.service = calls[h.builder].service
Sound(calls, h, k) == h # Nil => HandlerOf(calls, h, k)

RouteShape(rt) ==
  /\ rt.path = rt.name.path
  /\ IF rt.prefix THEN rt.methods = {} /\ rt.name.method = AllMethodsWildcard
     ELSE rt.name.method \in rt.methods /\ AnyMethod \notin rt.methods
RouteForm(calls, rt) == RouteShape(rt) /\ Sound(calls, rt.handler, rt.name)
RoutesFormed(calls, routes) == \A i \in DOMAIN routes : RouteForm(calls, routes[i])
HandlersFormed ==
  /\ \A r \in DOMAIN routers : RoutesFormed(call, routers[r])
  /\ \A k \in Keys : Sound(call, handlers[k], k) /\ Sound(call, originals[k], k)
  /\ \A c \in Calls : Sound(call, fetched[c].handler, fetched[c].key)
  /\ Sound(call, setting.handler, setting.key)

\* What is announced for a service, what set is at, and what has been fetched.
SetupOf(c) ==
  /\ setup[c].at # "none" =>
       /\ call[c].service \in Services
       /\ \A i \in DOMAIN setup[c].todo : setup[c].todo[i] \in BridgesFor(call[c].service)
  /\ setup[c].clone \in (IF setup[c].at = "cleared" THEN DOMAIN routers ELSE {0})
  /\ call[c].at = "registered" => setup[c].at = "none"
SetupForm == \A c \in Calls : SetupOf(c)
SettingForm ==
  /\ setting.at = "free" <=> setting.key = Nil
  /\ setting.key # Nil => setting.bridge \in Bridges /\ KeyOf(setting.bridge) = setting.key
  /\ setting.at = "named" => Len(router) \in DOMAIN router /\ router[Len(router)].name = setting.key
FetchedOf(c) ==
  /\ fetched[c].key # Nil => /\ fetched[c].router \in DOMAIN routers
                             /\ fetched[c].index \in DOMAIN routers[fetched[c].router]
                             /\ routers[fetched[c].router][fetched[c].index].name = fetched[c].key
  /\ call[c].at \in Stages => fetched[c].key # Nil
  /\ call[c].at \in {"checked", "written"} => fetched[c].handler # Nil
FetchedForm ==
  /\ \A c \in Calls : FetchedOf(c)
  /\ \A c, d \in Calls :
       call[c].at \in {"checked", "written"} /\ call[d].at \in {"checked", "written"} => c = d

\* An endpoint of a service has a handler, and is of no other one; the stream of
\* the service exists.
EndpointsApart ==
  /\ \A s, t \in Services : s # t => endpoints[s] \cap endpoints[t] = {}
  /\ \A s \in Services : \A k \in endpoints[s] : handlers[k] # Nil
  /\ \A k \in Keys \ torn : handlers[k] # Nil => \E s \in Services : k \in endpoints[s]
  /\ \A s \in Services : endpoints[s] # {} => s \in bridged

\* The routes of a key: one, with handler h, or none if there is no handler.
Once(routes, k) ==
  \A i, j \in DOMAIN routes : routes[i].name = k /\ routes[j].name = k => i = j
Absent(routes, k) == \A i \in DOMAIN routes : routes[i].name # k
Serves(routes, k, h) ==
  /\ Once(routes, k)
  /\ h # Nil => ~Absent(routes, k)
  /\ \A i \in DOMAIN routes : routes[i].name = k => routes[i].handler = h /\ h # Nil

\* Neither set nor a middleware call is at the key.
Settled(k) == setting.key # k /\ ~Rehandled(k)

\* Every clone serves the keys that have not changed meanwhile; the router
\* does, too, but for those that a clone under way leaves out, and those that
\* are at a change.
KeyServed(k) ==
  /\ \A r \in DOMAIN routers : Once(routers[r], k)
  /\ \A c \in Calls : setup[c].at = "cleared" => Serves(routers[setup[c].clone], k, handlers[k])
  /\ IF Settled(k) THEN Serves(router, k, handlers[k]) \/ (CloneUnderWay /\ handlers[k] = Nil)
     ELSE ~CloneUnderWay /\ handlers[k] # Nil
  /\ setting.key = k => (setting.at = "stored" <=> Absent(router, k))
  /\ \A c \in Calls : call[c].at = "written" /\ fetched[c].key = k =>
                        fetched[c].router = loaded /\ fetched[c].handler = handlers[k]
RoutesServe == \A k \in Keys \ torn : KeyServed(k)

\* A handler that is not stale is that of the service that has the endpoint.
OwnHandlers ==
  \A k \in Keys \ (stale \cup torn) :
    handlers[k] # Nil => handlers[k].builder # None /\ k \in endpoints[handlers[k].service]

BridgesInv == /\ BridgesTyped /\ HandlersFormed /\ SetupForm /\ SettingForm /\ FetchedForm
              /\ EndpointsApart /\ RoutesServe /\ OwnHandlers

LEMMA VerbsAreNamed == AnyMethod \notin Verbs
<1>1. AnyMethod # "HEAD" /\ AnyMethod # "OPTIONS" /\ AnyMethod # AllMethodsWildcard
  BY Zenon DEF AnyMethod, AllMethodsWildcard
<1> QED
  BY <1>1, PathAssumption DEF Verbs

LEMMA HandlersAreNotNil == Nil \notin HandlerRecord /\ Nil \notin Keys
BY NilAssumption DEF HandlerRecord

LEMMA BridgeKeys ==
  ASSUME NEW s \in Services, NEW b \in BridgesFor(s)
  PROVE  b \in Bridges /\ KeyOf(b) \in Keys
<1>1. BridgesOf[s] \in Seq(ExactBridges) /\ OverridesOf[s] \subseteq ExactBridges /\ ByHandOf[s] \subseteq Bridges
  BY BridgeAssumption
<1>2. Range(BridgesOf[s]) \subseteq ExactBridges
  BY <1>1 DEF Range
<1>3. ExactBridges \subseteq Bridges
  BY DEF ExactBridges
<1>4. KeyOf(b) \in Keys
  BY DEF Keys
<1> QED
  BY <1>1, <1>2, <1>3, <1>4 DEF BridgesFor

LEMMA KeyFields ==
  ASSUME NEW k \in Keys
  PROVE  /\ k = Key(k.path, k.method) /\ k.path \in Paths
         /\ k.method \in Methods \cup {AllMethodsWildcard}
<1>1. PICK s \in Services : \E b \in BridgesFor(s) : k = KeyOf(b)
  BY DEF Keys
<1> PICK b \in BridgesFor(s) : k = KeyOf(b)
  BY <1>1
<1>2. b.path \in Paths /\ b.method \in Methods \cup {AllMethodsWildcard}
  BY BridgeKeys DEF Bridges
<1> PICK m : m = IF b.prefix THEN AllMethodsWildcard ELSE b.method
  OBVIOUS
<1>3. k = Key(b.path, m) /\ m \in Methods \cup {AllMethodsWildcard}
  BY <1>2 DEF KeyOf
<1> QED
  BY <1>2, <1>3 DEF Key

\* The route of a bridge, before it has its handler.
LEMMA RouteOfBridge ==
  ASSUME NEW b \in Bridges, KeyOf(b) \in Keys
  PROVE  /\ RouteOf(b, Nil) \in RouteRecord /\ RouteShape(RouteOf(b, Nil))
         /\ RouteOf(b, Nil).name = KeyOf(b) /\ RouteOf(b, Nil).handler = Nil
<1> DEFINE allowed == {m \in {"HEAD"} : b.head} \cup {m \in {"OPTIONS"} : b.options}
           methods == IF b.prefix THEN {} ELSE {b.method} \cup allowed
<1> PICK k \in Keys : k = KeyOf(b)
  OBVIOUS
<1>1. b.path \in Paths /\ b.method \in Methods \cup {AllMethodsWildcard} /\ b.prefix \in BOOLEAN
  BY DEF Bridges
<1>2. k.path = b.path /\ k.method = IF b.prefix THEN AllMethodsWildcard ELSE b.method
  BY DEF KeyOf, Key
<1>3. RouteOf(b, Nil) = NewRoute(k, b.path, b.prefix, methods, Nil)
  BY DEF RouteOf
<1>4. methods \subseteq Verbs /\ (b.prefix => methods = {}) /\ (~b.prefix => b.method \in methods)
  BY <1>1 DEF Verbs
<1> HIDE DEF methods
<1>5. /\ RouteOf(b, Nil) \in RouteRecord
      /\ RouteOf(b, Nil).name = k /\ RouteOf(b, Nil).handler = Nil /\ RouteOf(b, Nil).path = b.path
      /\ RouteOf(b, Nil).prefix = b.prefix /\ RouteOf(b, Nil).methods = methods
  BY <1>1, <1>3, <1>4 DEF NewRoute, RouteRecord
<1>6. AnyMethod \notin methods
  BY <1>4, VerbsAreNamed
<1>7. RouteShape(RouteOf(b, Nil))
  BY <1>2, <1>4, <1>5, <1>6 DEF RouteShape
<1> QED
  BY <1>5, <1>7

\* A handler stays what it is when calls go on.
LEMMA WrapsGrow ==
  ASSUME RoutesInv, CallsMove
  PROVE  /\ Wraps(call) \subseteq Wraps(call')
         /\ IsFiniteSet(Wraps(call)) /\ IsFiniteSet(Wraps(call'))
         /\ Cardinality(Wraps(call)) \in Nat /\ Cardinality(Wraps(call')) \in Nat
         /\ Cardinality(Wraps(call)) <= Cardinality(Wraps(call'))
<1>1. Wraps(call) \in SUBSET Calls /\ Wraps(call') \in SUBSET Calls
  BY DEF Wraps
<1>2. IsFiniteSet(Wraps(call)) /\ IsFiniteSet(Wraps(call'))
  BY <1>1, CallsAssumption, FS_Subset
<1>3. Wraps(call) \subseteq Wraps(call')
  BY DEF Wraps, CallsMove, Unused
<1>4. Cardinality(Wraps(call)) \in Nat /\ Cardinality(Wraps(call')) \in Nat
  BY <1>2, FS_CardinalityType
<1>5. Cardinality(Wraps(call)) <= Cardinality(Wraps(call'))
  BY <1>2, <1>3, FS_Subset
<1> QED
  BY <1>2, <1>3, <1>4, <1>5

LEMMA HandlersLast ==
  ASSUME RoutesInv, CallsMove
  PROVE  /\ \A h, k : Sound(call, h, k) => Sound(call', h, k)
         /\ \A rt : RouteForm(call, rt) => RouteForm(call', rt)
         /\ \A routes : RoutesFormed(call, routes) => RoutesFormed(call', routes)
<1>1. ASSUME NEW h, NEW k, Sound(call, h, k), h # Nil PROVE HandlerOf(call', h, k)
  <2>0. HandlerOf(call, h, k)
    BY <1>1 DEF Sound
  <2>1. h \in HandlerRecord /\ h.layers \in Nat
    BY <2>0 DEF HandlerOf, HandlerRecord
  <2>2. h.layers <= Cardinality(Wraps(call'))
    <3>1. h.layers <= Cardinality(Wraps(call))
      BY <2>0 DEF HandlerOf
    <3> QED
      BY <2>1, <3>1, WrapsGrow
  <2>3. h.builder \in Calls /\ h.service \in Services /\ h.service = call[h.builder].service =>
          h.service = call'[h.builder].service
    <3>1. None \notin Services
      BY NoneAssumption
    <3> QED
      BY <3>1 DEF CallsMove, Unused
  <2> QED
    BY <2>0, <2>1, <2>2, <2>3 DEF HandlerOf
<1>2. \A h, k : Sound(call, h, k) => Sound(call', h, k)
  BY <1>1 DEF Sound
<1>3. \A rt : RouteForm(call, rt) => RouteForm(call', rt)
  BY <1>2 DEF RouteForm
<1>4. \A routes : RoutesFormed(call, routes) => RoutesFormed(call', routes)
  BY <1>3 DEF RoutesFormed
<1> QED
  BY <1>2, <1>3, <1>4

LEMMA SetupStays ==
  ASSUME CallsMove, NEW c \in Calls, SetupOf(c), setup'[c] = setup[c],
         DOMAIN routers \subseteq DOMAIN routers'
  PROVE  SetupOf(c)'
<1>1. ASSUME setup[c].at # "none" PROVE call'[c].service = call[c].service
  <2>1. call[c].service # None
    BY <1>1, NoneAssumption DEF SetupOf
  <2> QED
    BY <2>1 DEF CallsMove, Unused
<1>2. call'[c].at = "registered" => setup[c].at = "none"
  <2>1. CASE call[c] = Unused
    BY <2>1, NoneAssumption DEF SetupOf, Unused
  <2>2. CASE call[c] # Unused
    BY <2>2 DEF SetupOf, CallsMove
  <2> QED
    BY <2>1, <2>2
<1>3. setup[c].at # "none" =>
        \A i \in DOMAIN setup[c].todo : setup[c].todo[i] \in BridgesFor(call'[c].service)
  BY <1>1 DEF SetupOf
<1> QED
  BY <1>1, <1>2, <1>3 DEF SetupOf

\* Only calls of the middleware manager are at its stages.
SameStages ==
  \A c \in Calls : call'[c].at \in Stages \/ call[c].at \in Stages => call'[c].at = call[c].at

LEMMA MakeFetches ==
  ASSUME CallsTyped, NEW c \in Calls, NEW kind, NEW s, NEW at, Make(c, kind, s, at), at \notin Stages
  PROVE  SameStages
<1>1. /\ call'[c].at = at /\ call[c].at \notin Stages
      /\ \A d \in Calls : d # c => call'[d] = call[d]
  BY DEF Make, CallsTyped, Unused, Stages
<1> QED
  BY <1>1 DEF SameStages

LEMMA ProceedFetches ==
  ASSUME CallsTyped, NEW c \in Calls, NEW at, Proceed(c, at), at \notin Stages, call[c].at \notin Stages
  PROVE  SameStages /\ call'[c].at = at
<1>1. /\ call'[c].at = at /\ \A d \in Calls : d # c => call'[d] = call[d]
  BY DEF Proceed, CallsTyped, CallRecord
<1> QED
  BY <1>1 DEF SameStages

\* A router with the same routes of a key serves it as before.
SameRoutes(routes, others, k) ==
  /\ \A i : i \in DOMAIN others /\ others[i].name = k <=> i \in DOMAIN routes /\ routes[i].name = k
  /\ \A i \in DOMAIN routes : routes[i].name = k => others[i] = routes[i]

LEMMA ServesAlike ==
  ASSUME NEW routes, NEW others, NEW k, SameRoutes(routes, others, k)
  PROVE  /\ Once(routes, k) => Once(others, k)
         /\ Absent(others, k) <=> Absent(routes, k)
         /\ \A h : Serves(routes, k, h) => Serves(others, k, h)
<1>1. Once(routes, k) => Once(others, k)
  BY DEF Once, SameRoutes
<1>2. Absent(others, k) <=> Absent(routes, k)
  BY DEF Absent, SameRoutes
<1>3. \A h : Serves(routes, k, h) => Serves(others, k, h)
  BY <1>1, <1>2 DEF Serves, SameRoutes
<1> QED
  BY <1>1, <1>2, <1>3

SameClones ==
  \A c \in Calls : /\ setup'[c].at = "cleared" <=> setup[c].at = "cleared"
                   /\ setup'[c].clone = setup[c].clone
\* The calls that have written a handler of the key.
SameWrites(k) ==
  \A c \in Calls : /\ call'[c].at = "written" /\ fetched'[c].key = k
                        <=> call[c].at = "written" /\ fetched[c].key = k
                   /\ call[c].at = "written" /\ fetched[c].key = k => fetched'[c] = fetched[c]

\* A key that a step does not concern.
LEMMA KeyStays ==
  ASSUME NEW k, KeyServed(k), SetupForm, loaded \in DOMAIN routers,
         loaded' = loaded, SameClones, SameWrites(k),
         DOMAIN routers' = DOMAIN routers,
         \A r \in DOMAIN routers : SameRoutes(routers[r], routers'[r], k),
         handlers'[k] = handlers[k],
         setting'.key = k <=> setting.key = k,
         setting.key = k => setting'.at = setting.at
  PROVE  KeyServed(k)'
<1>1. /\ \A r \in DOMAIN routers : Once(routers[r], k) => Once(routers'[r], k)
      /\ \A r \in DOMAIN routers : Absent(routers'[r], k) <=> Absent(routers[r], k)
      /\ \A r \in DOMAIN routers : \A h : Serves(routers[r], k, h) => Serves(routers'[r], k, h)
  BY ServesAlike
<1>2. router = routers[loaded] /\ router' = routers'[loaded]
  BY DEF router
<1>3. CloneUnderWay' <=> CloneUnderWay
  BY DEF CloneUnderWay, SameClones
<1>4. Settled(k)' <=> Settled(k)
  <2>1. Rehandled(k)' <=> Rehandled(k)
    BY DEF Rehandled, SameWrites
  <2> QED
    BY <2>1 DEF Settled
<1>5. \A c \in Calls : setup[c].at = "cleared" => setup[c].clone \in DOMAIN routers
  BY DEF SetupForm, SetupOf
<1>6. \A r \in DOMAIN routers' : Once(routers'[r], k)
  BY <1>1 DEF KeyServed
<1>7. \A c \in Calls : setup'[c].at = "cleared" => Serves(routers'[setup'[c].clone], k, handlers'[k])
  BY <1>1, <1>5 DEF KeyServed, SameClones
<1>8. IF Settled(k)' THEN Serves(router', k, handlers'[k]) \/ (CloneUnderWay' /\ handlers'[k] = Nil)
      ELSE ~CloneUnderWay' /\ handlers'[k] # Nil
  BY <1>1, <1>2, <1>3, <1>4 DEF KeyServed
<1>9. setting'.key = k => (setting'.at = "stored" <=> Absent(router', k))
  BY <1>1, <1>2 DEF KeyServed
<1>10. \A c \in Calls : call'[c].at = "written" /\ fetched'[c].key = k =>
                          fetched'[c].router = loaded' /\ fetched'[c].handler = handlers'[k]
  BY DEF KeyServed, SameWrites
<1> QED
  BY <1>6, <1>7, <1>8, <1>9, <1>10 DEF KeyServed

LEMMA SameRoutesAre ==
  ASSUME NEW routes, NEW k
  PROVE  SameRoutes(routes, routes, k)
BY DEF SameRoutes

\* Routers, the map of the handlers and the bridge that set is at stay.
LEMMA QuietStep ==
  ASSUME RoutesInv, CallsMove, BridgesInv, channels \subseteq channels',
         UNCHANGED <<routers, loaded, handlers, endpoints, bridged, setting, torn, stale>>,
         start' \in [at : {"off", "read", "done"}, router : DOMAIN routers],
         setup' \in [Calls -> SetupRecord], SetupForm', SameClones,
         originals' \in [Keys -> HandlerRecord \cup {Nil}],
         \A k \in Keys : Sound(call', originals'[k], k),
         fetched' \in [Calls -> FetchedRecord], FetchedForm',
         \A c \in Calls : Sound(call', fetched'[c].handler, fetched'[c].key),
         \A k \in Keys : SameWrites(k)
  PROVE  BridgesInv'
<1>0. /\ BridgesTyped /\ HandlersFormed /\ SetupForm /\ SettingForm /\ EndpointsApart
      /\ RoutesServe /\ OwnHandlers
  BY DEF BridgesInv
<1>1. BridgesTyped'
  BY <1>0 DEF BridgesTyped
<1>2. HandlersFormed'
  BY <1>0, HandlersLast DEF HandlersFormed
<1>3. SettingForm'
  BY <1>0 DEF SettingForm, router
<1>4. EndpointsApart' /\ OwnHandlers'
  BY <1>0 DEF EndpointsApart, OwnHandlers
<1>5. RoutesServe'
  <2> SUFFICES ASSUME NEW k \in Keys \ torn PROVE KeyServed(k)'
    BY DEF RoutesServe
  <2>1. KeyServed(k) /\ loaded \in DOMAIN routers
    BY <1>0 DEF RoutesServe, BridgesTyped
  <2> QED
    BY <1>0, <2>1, KeyStays, SameRoutesAre
<1> QED
  BY <1>1, <1>2, <1>3, <1>4, <1>5 DEF BridgesInv

\* Routes keep their places and their names.
RoutersGrow ==
  \A r \in DOMAIN routers :
    r \in DOMAIN routers' /\ \A i \in DOMAIN routers[r] :
      i \in DOMAIN routers'[r] /\ routers'[r][i].name = routers[r][i].name

LEMMA FetchedStays ==
  ASSUME FetchedForm, SameStages, RoutersGrow, fetched' = fetched
  PROVE  FetchedForm' /\ \A k : SameWrites(k)
<1>1. \A c \in Calls : FetchedOf(c)'
  BY DEF FetchedForm, FetchedOf, SameStages, RoutersGrow, Stages
<1>2. \A c, d \in Calls : /\ call'[c].at \in {"checked", "written"}
                          /\ call'[d].at \in {"checked", "written"}
                          => c = d
  <2>1. \A c \in Calls : call'[c].at \in {"checked", "written"} => call[c].at \in {"checked", "written"}
    BY DEF SameStages, Stages
  <2> QED
    BY <2>1 DEF FetchedForm
<1>3. \A k : SameWrites(k)
  BY DEF SameWrites, SameStages, Stages
<1> QED
  BY <1>1, <1>2, <1>3 DEF FetchedForm

\* Announcements and the start of the server, and all else that is not about
\* endpoints.
LEMMA OutsideStep ==
  ASSUME RoutesInv, CallsMove, BridgesInv, SameStages, channels \subseteq channels',
         UNCHANGED <<routers, loaded, mapVars, middlewareVars, torn, stale>>,
         start' \in [at : {"off", "read", "done"}, router : DOMAIN routers],
         setup' \in [Calls -> SetupRecord], SetupForm', SameClones
  PROVE  BridgesInv'
<1>0. BridgesTyped /\ HandlersFormed /\ FetchedForm
  BY DEF BridgesInv
<1>1. UNCHANGED <<handlers, endpoints, bridged, setting, originals, fetched>>
  BY DEF mapVars, middlewareVars
<1>2. FetchedForm' /\ \A k : SameWrites(k)
  BY <1>0, <1>1, FetchedStays DEF RoutersGrow
<1>3. /\ originals' \in [Keys -> HandlerRecord \cup {Nil}] /\ fetched' \in [Calls -> FetchedRecord]
      /\ \A k \in Keys : Sound(call', originals'[k], k)
      /\ \A c \in Calls : Sound(call', fetched'[c].handler, fetched'[c].key)
  BY <1>0, <1>1, HandlersLast DEF BridgesTyped, HandlersFormed
<1> QED
  BY <1>1, <1>2, <1>3, QuietStep

LEMMA UnchangedBridges ==
  ASSUME RoutesInv, CallsMove, BridgesInv, SameStages, channels \subseteq channels',
         UNCHANGED bridgeVars
  PROVE  BridgesInv'
<1>0. BridgesTyped /\ SetupForm
  BY DEF BridgesInv
<1>1. /\ UNCHANGED <<setup, routers, loaded, start, mapVars, middlewareVars, torn, stale>>
  BY DEF bridgeVars, routerVars
<1>2. /\ start' \in [at : {"off", "read", "done"}, router : DOMAIN routers]
      /\ setup' \in [Calls -> SetupRecord] /\ SameClones
  BY <1>0, <1>1 DEF BridgesTyped, SameClones
<1>3. SetupForm'
  BY <1>0, <1>1, SetupStays DEF SetupForm
<1> QED
  BY <1>1, <1>2, <1>3, OutsideStep

LEMMA NoRoutes ==
  ASSUME NEW S
  PROVE  << <<>> >> \in Seq(Seq(S))
<1>1. <<>> \in Seq(S)
  OBVIOUS
<1> QED
  BY <1>1

LEMMA InitBridges ==
  ASSUME Init
  PROVE  BridgesInv
<1> USE DEF Init, RoutesInit
<1>0. /\ DOMAIN routers = {1} /\ router = <<>> /\ DOMAIN router = {} /\ routers[1] = <<>>
      /\ routers \in Seq(Seq(RouteRecord))
  BY NoRoutes DEF router
<1>1. BridgesTyped
  <2>1. NoSetup \in SetupRecord
    BY DEF NoSetup, SetupRecord
  <2>2. NotFetched \in FetchedRecord /\ NotSetting \in SettingRecord
    BY DEF NotFetched, FetchedRecord, NotSetting, SettingRecord
  <2> QED
    BY <1>0, <2>1, <2>2 DEF BridgesTyped
<1>2. /\ \A c \in Calls : setup[c].at = "none" /\ setup[c].clone = 0 /\ setup[c].todo = <<>>
      /\ \A c \in Calls : fetched[c].key = Nil /\ fetched[c].handler = Nil /\ call[c].at = "done"
      /\ setting.at = "free" /\ setting.key = Nil /\ setting.handler = Nil
  BY DEF NoSetup, NotFetched, NotSetting, Unused
<1>3. HandlersFormed
  BY <1>0, <1>2 DEF HandlersFormed, RoutesFormed, Sound
<1>4. SetupForm /\ SettingForm /\ FetchedForm
  BY <1>2 DEF SetupForm, SetupOf, SettingForm, FetchedForm, FetchedOf, Stages
<1>5. EndpointsApart /\ OwnHandlers
  BY DEF EndpointsApart, OwnHandlers
<1>6. RoutesServe
  <2> SUFFICES ASSUME NEW k \in Keys PROVE KeyServed(k)
    BY DEF RoutesServe
  <2>1. Settled(k)
    BY <1>2, HandlersAreNotNil DEF Settled, Rehandled
  <2>2. Once(router, k) /\ Absent(router, k) /\ Serves(router, k, Nil) /\ Once(routers[1], k)
    BY <1>0 DEF Once, Absent, Serves
  <2>3. handlers[k] = Nil
    OBVIOUS
  <2> QED
    BY <1>0, <1>2, <2>1, <2>2, <2>3, HandlersAreNotNil DEF KeyServed
<1> QED
  BY <1>1, <1>3, <1>4, <1>5, <1>6 DEF BridgesInv

\* Bridges are announced to a goroutine of their own.
LEMMA AnnouncedStep ==
  ASSUME RoutesInv, CallsMove, BridgesInv, SameStages, channels \subseteq channels',
         NEW c \in Calls, NEW s \in Services, NEW override \in BOOLEAN,
         NEW todo \in Seq(ExactBridges), \A i \in DOMAIN todo : todo[i] \in BridgesFor(s),
         setup[c].at = "none", call'[c].service = s, call'[c].at # "registered",
         setup' = [setup EXCEPT ![c] = Announced(override, todo)],
         UNCHANGED <<routerVars, mapVars, middlewareVars, torn, stale>>
  PROVE  BridgesInv'
<1>0. BridgesTyped /\ SetupForm
  BY DEF BridgesInv
<1>1. /\ setup'[c].at = "new" /\ setup'[c].todo = todo /\ setup'[c].clone = 0
      /\ Announced(override, todo) \in SetupRecord
      /\ \A d \in Calls : d # c => setup'[d] = setup[d]
      /\ setup[c].clone = 0
  BY <1>0 DEF BridgesTyped, Announced, SetupRecord, SetupForm, SetupOf
<1>2. /\ UNCHANGED <<routers, loaded, start>>
      /\ start' \in [at : {"off", "read", "done"}, router : DOMAIN routers]
      /\ setup' \in [Calls -> SetupRecord] /\ SameClones
  BY <1>0, <1>1 DEF BridgesTyped, SameClones, routerVars
<1>3. SetupForm'
  <2>1. SetupOf(c)'
    BY <1>1 DEF SetupOf
  <2>2. \A d \in Calls : d # c => SetupOf(d)'
    BY <1>0, <1>1, <1>2, SetupStays DEF SetupForm
  <2> QED
    BY <2>1, <2>2 DEF SetupForm
<1> QED
  BY <1>2, <1>3, OutsideStep

LEMMA AnnounceBridgesStep ==
  ASSUME RoutesInv, CallsMove, BridgesInv, NEW c \in Calls, AnnounceBridges(c)
  PROVE  BridgesInv'
<1>0. /\ CallsTyped /\ CallForm /\ BridgesTyped /\ SetupForm
      /\ registered \subseteq Services
  BY RoutesFacts DEF BridgesInv
<1>1. /\ call[c].at = "registered" /\ Proceed(c, "announced") /\ channels' = channels
      /\ UNCHANGED <<routerVars, mapVars, middlewareVars, torn, stale>>
  BY DEF AnnounceBridges, Announce
<1>2. SameStages /\ call'[c].at = "announced"
  BY <1>0, <1>1, ProceedFetches DEF Stages
<1>3. CASE call[c].service \notin registered
  <2>1. setup' = setup
    BY <1>3 DEF AnnounceBridges
  <2> QED
    BY <1>1, <1>2, <2>1, UnchangedBridges DEF bridgeVars
<1>4. CASE call[c].service \in registered
  <2>1. PICK s \in Services : s = call[c].service
    BY <1>0, <1>4
  <2>2. PICK todo : todo = BridgesOf[s]
    OBVIOUS
  <2>3. /\ setup' = [setup EXCEPT ![c] = Announced(FALSE, todo)]
        /\ todo \in Seq(ExactBridges) /\ \A i \in DOMAIN todo : todo[i] \in BridgesFor(s)
    <3>1. todo \in Seq(ExactBridges)
      BY <2>2, BridgeAssumption
    <3>2. \A i \in DOMAIN todo : todo[i] \in Range(BridgesOf[s])
      BY <2>2 DEF Range
    <3> QED
      BY <1>4, <2>1, <2>2, <3>1, <3>2 DEF AnnounceBridges, BridgesFor
  <2>4. setup[c].at = "none" /\ call'[c].service = s
    <3>1. call[c] # Unused
      BY <1>1 DEF Unused
    <3> QED
      BY <1>0, <1>1, <2>1, <3>1 DEF SetupForm, SetupOf, CallsMove
  <2> QED
    BY <1>1, <1>2, <2>1, <2>3, <2>4, AnnouncedStep
<1> QED
  BY <1>3, <1>4

LEMMA OverrideStep ==
  ASSUME RoutesInv, CallsMove, BridgesInv, NEW c \in Calls, NEW s \in Services,
         NEW b \in OverridesOf[s], OverrideRESTBridgeConfig(c, s, b)
  PROVE  BridgesInv'
<1>0. CallsTyped /\ SetupForm
  BY RoutesFacts DEF BridgesInv
<1>1. /\ Make(c, "override", s, "done") /\ channels' = channels
      /\ setup' = [setup EXCEPT ![c] = Announced(TRUE, <<b>>)]
      /\ UNCHANGED <<routerVars, mapVars, middlewareVars, torn, stale>>
  BY DEF OverrideRESTBridgeConfig
<1>2. SameStages
  BY <1>0, <1>1, MakeFetches DEF Stages
<1>3. call'[c].service = s /\ call'[c].at = "done" /\ setup[c].at = "none"
  BY <1>0, <1>1, NoneAssumption DEF Make, CallsTyped, SetupForm, SetupOf, Unused
<1>4. b \in ExactBridges /\ b \in BridgesFor(s)
  BY BridgeAssumption DEF BridgesFor
<1>5. PICK todo : todo = <<b>>
  OBVIOUS
<1>6. todo \in Seq(ExactBridges) /\ \A i \in DOMAIN todo : todo[i] \in BridgesFor(s)
  BY <1>4, <1>5
<1> QED
  BY <1>1, <1>2, <1>3, <1>5, <1>6, AnnouncedStep

LEMMA ReadRouterStep ==
  ASSUME RoutesInv, CallsMove, BridgesInv, ReadRouter
  PROVE  BridgesInv'
<1>0. BridgesTyped /\ SetupForm
  BY DEF BridgesInv
<1>1. /\ start' = [at |-> "read", router |-> loaded]
      /\ UNCHANGED <<call, channels, setup, routers, loaded, mapVars, middlewareVars, torn, stale>>
  BY DEF ReadRouter, routeVars
<1>2. /\ start' \in [at : {"off", "read", "done"}, router : DOMAIN routers]
      /\ setup' \in [Calls -> SetupRecord] /\ SameClones /\ SameStages
  BY <1>0, <1>1 DEF BridgesTyped, SameClones, SameStages
<1>3. SetupForm'
  BY <1>0, <1>1, SetupStays DEF SetupForm
<1> QED
  BY <1>1, <1>2, <1>3, OutsideStep

\* A middleware call fetches a route, looks at the map, or gives up.
LEMMA LookStep ==
  ASSUME RoutesInv, CallsMove, BridgesInv, channels' = channels,
         NEW c \in Calls, NEW route \in FetchedRecord,
         fetched' = [fetched EXCEPT ![c] = route],
         \A d \in Calls : d # c => call'[d] = call[d],
         call[c].at # "written", call'[c].at # "written",
         call'[c].at = "checked" => ~Rewiring,
         route.key # Nil => /\ route.router \in DOMAIN routers
                            /\ route.index \in DOMAIN routers[route.router]
                            /\ routers[route.router][route.index].name = route.key,
         call'[c].at \in Stages => route.key # Nil,
         call'[c].at = "checked" => route.handler # Nil,
         Sound(call, route.handler, route.key),
         originals' \in [Keys -> HandlerRecord \cup {Nil}],
         \A k \in Keys : originals'[k] \in {originals[k], handlers[k]},
         UNCHANGED <<setup, routerVars, mapVars, torn, stale>>
  PROVE  BridgesInv'
<1>0. BridgesTyped /\ HandlersFormed /\ SetupForm /\ FetchedForm
  BY DEF BridgesInv
<1>1. /\ fetched'[c] = route /\ fetched' \in [Calls -> FetchedRecord]
      /\ \A d \in Calls : d # c => fetched'[d] = fetched[d]
  BY <1>0 DEF BridgesTyped
<1>2. UNCHANGED <<setup, routers, loaded, start, handlers, endpoints, bridged, setting, torn, stale>>
  BY DEF routerVars, mapVars
<1>3. /\ start' \in [at : {"off", "read", "done"}, router : DOMAIN routers]
      /\ setup' \in [Calls -> SetupRecord] /\ SameClones
  BY <1>0, <1>2 DEF BridgesTyped, SameClones
<1>4. SetupForm'
  BY <1>0, <1>2, SetupStays DEF SetupForm
<1>5. FetchedForm'
  <2>1. FetchedOf(c)'
    BY <1>1, <1>2 DEF FetchedOf, Stages
  <2>2. \A d \in Calls : d # c => FetchedOf(d)'
    BY <1>0, <1>1, <1>2 DEF FetchedForm, FetchedOf
  <2>3. ASSUME NEW d \in Calls, NEW e \in Calls, call'[d].at \in {"checked", "written"},
               call'[e].at \in {"checked", "written"}, d # e
        PROVE  FALSE
    <3>1. CASE d # c /\ e # c
      BY <1>0, <2>3, <3>1 DEF FetchedForm
    <3>2. CASE d = c \/ e = c
      <4>1. call'[c].at = "checked"
        BY <2>3, <3>2
      <4>2. \E f \in Calls : f # c /\ call[f].at \in {"checked", "written"}
        BY <2>3, <3>2
      <4> QED
        BY <4>1, <4>2 DEF Rewiring
    <3> QED
      BY <3>1, <3>2
  <2> QED
    BY <2>1, <2>2, <2>3 DEF FetchedForm
<1>6. \A d \in Calls : Sound(call', fetched'[d].handler, fetched'[d].key)
  BY <1>0, <1>1, HandlersLast DEF HandlersFormed
<1>7. \A k \in Keys : Sound(call', originals'[k], k)
  <2> SUFFICES ASSUME NEW k \in Keys PROVE Sound(call', originals'[k], k)
    OBVIOUS
  <2>1. Sound(call, originals[k], k) /\ Sound(call, handlers[k], k)
    BY <1>0 DEF HandlersFormed
  <2>2. Sound(call', originals[k], k) /\ Sound(call', handlers[k], k)
    BY <2>1, HandlersLast
  <2> QED
    BY <2>2
<1>8. \A k \in Keys : SameWrites(k)
  BY <1>1 DEF SameWrites
<1> QED
  BY <1>1, <1>2, <1>3, <1>4, <1>5, <1>6, <1>7, <1>8, QuietStep

LEMMA GetRouteStep ==
  ASSUME RoutesInv, CallsMove, BridgesInv, NEW c \in Calls, NEW kind, NEW k \in Keys,
         GetRoute(c, kind, k)
  PROVE  BridgesInv'
<1>0. BridgesTyped /\ CallsTyped
  BY RoutesFacts DEF BridgesInv
<1> PICK i : i = Named(router, k)
  OBVIOUS
<1> PICK route : route = [key |-> k, router |-> loaded, index |-> i, handler |-> Nil]
  OBVIOUS
<1>1. /\ i # 0 /\ Make(c, kind, None, "fetched")
      /\ fetched' = [fetched EXCEPT ![c] = route]
      /\ UNCHANGED <<channels, setup, routerVars, mapVars, originals, torn, stale>>
  BY DEF GetRoute
<1>2. /\ loaded \in DOMAIN routers /\ loaded \in Nat /\ router = routers[loaded]
      /\ router \in Seq(RouteRecord)
  <2>1. routers \in Seq(Seq(RouteRecord)) /\ loaded \in DOMAIN routers
    BY <1>0 DEF BridgesTyped
  <2> QED
    BY <2>1 DEF router
<1>3. i \in DOMAIN router /\ router[i].name = k /\ i \in Nat
  <2>1. i \in DOMAIN router /\ router[i].name = k
    BY <1>1, <1>2, NamedRoute
  <2> QED
    BY <1>2, <2>1
<1>4. /\ route \in FetchedRecord
      /\ route.key = k /\ route.router = loaded /\ route.index = i /\ route.handler = Nil
  BY <1>2, <1>3 DEF FetchedRecord
<1>5. /\ call'[c].at = "fetched" /\ call[c].at = "done"
      /\ \A d \in Calls : d # c => call'[d] = call[d]
  BY <1>0, <1>1 DEF Make, CallsTyped, Unused
<1>6. k # Nil /\ Sound(call, route.handler, route.key)
  BY <1>4, HandlersAreNotNil DEF Sound
<1>7. originals' \in [Keys -> HandlerRecord \cup {Nil}]
  BY <1>0, <1>1 DEF BridgesTyped
<1>8. route.key # Nil => /\ route.router \in DOMAIN routers
                         /\ route.index \in DOMAIN routers[route.router]
                         /\ routers[route.router][route.index].name = route.key
  BY <1>2, <1>3, <1>4
<1>9. /\ channels' = channels /\ originals' = originals
      /\ UNCHANGED <<setup, routerVars, mapVars, torn, stale>>
  BY <1>1
<1> QED
  BY <1>1, <1>4, <1>5, <1>6, <1>7, <1>8, <1>9, LookStep DEF Stages

\* What a call at a stage has fetched.
LEMMA FetchedFacts ==
  ASSUME RoutesInv, BridgesInv, NEW c \in Calls, call[c].at \in Stages
  PROVE  /\ fetched[c].key \in Keys /\ fetched[c] \in FetchedRecord
         /\ fetched[c].router \in DOMAIN routers
         /\ fetched[c].index \in DOMAIN routers[fetched[c].router]
         /\ routers[fetched[c].router][fetched[c].index].name = fetched[c].key
         /\ call[c].at # "fetched" => /\ fetched[c].handler # Nil
                                      /\ HandlerOf(call, fetched[c].handler, fetched[c].key)
<1>1. FetchedOf(c) /\ fetched[c] \in FetchedRecord
  BY DEF BridgesInv, FetchedForm, BridgesTyped
<1>2. Sound(call, fetched[c].handler, fetched[c].key)
  BY DEF BridgesInv, HandlersFormed
<1>3. fetched[c].key # Nil
  BY <1>1 DEF FetchedOf
<1>4. call[c].at # "fetched" => fetched[c].handler # Nil
  BY <1>1 DEF FetchedOf, Stages
<1> QED
  BY <1>1, <1>2, <1>3, <1>4 DEF FetchedOf, FetchedRecord, Sound

LEMMA CheckStep ==
  ASSUME RoutesInv, CallsMove, BridgesInv, NEW c \in Calls,
         SetNewMiddleware(c) \/ RemoveMiddleware(c)
  PROVE  BridgesInv'
<1>0. BridgesTyped /\ HandlersFormed /\ CallsTyped
  BY RoutesFacts DEF BridgesInv
<1>1. call[c].at = "fetched" /\ ~Rewiring
  BY DEF SetNewMiddleware, RemoveMiddleware
<1> PICK k \in Keys : k = fetched[c].key
  BY <1>1, FetchedFacts DEF Stages
<1> PICK h : h = handlers[k]
  OBVIOUS
<1> PICK route : route = [fetched[c] EXCEPT !.handler = h]
  OBVIOUS
<1>2. /\ h # Nil /\ Proceed(c, "checked")
      /\ fetched' = [fetched EXCEPT ![c] = route]
      /\ originals' \in {originals, [originals EXCEPT ![k] = IF @ = Nil THEN h ELSE @]}
      /\ UNCHANGED <<channels, setup, routerVars, mapVars, torn, stale>>
  BY DEF SetNewMiddleware, RemoveMiddleware, MiddlewareStep, routerVars, mapVars
<1>3. h \in HandlerRecord /\ Sound(call, h, k)
  BY <1>0, <1>2 DEF HandlersFormed, BridgesTyped
<1>4. /\ route \in FetchedRecord /\ route.key = k /\ route.handler = h
      /\ route.router = fetched[c].router /\ route.index = fetched[c].index
  <2>1. fetched[c] \in FetchedRecord
    BY <1>1, FetchedFacts DEF Stages
  <2> QED
    BY <1>3, <2>1 DEF FetchedRecord
<1>5. /\ route.router \in DOMAIN routers /\ route.index \in DOMAIN routers[route.router]
      /\ routers[route.router][route.index].name = route.key
  BY <1>1, <1>4, FetchedFacts DEF Stages
<1>6. call'[c].at = "checked" /\ \A d \in Calls : d # c => call'[d] = call[d]
  BY <1>0, <1>2 DEF Proceed, CallsTyped, CallRecord
<1>7. /\ originals' \in [Keys -> HandlerRecord \cup {Nil}]
      /\ \A l \in Keys : originals'[l] \in {originals[l], handlers[l]}
  BY <1>0, <1>2, <1>3 DEF BridgesTyped
<1>8. k # Nil
  BY HandlersAreNotNil
<1>9. channels' = channels /\ UNCHANGED <<setup, routerVars, mapVars, torn, stale>>
  BY <1>2
<1> QED
  BY <1>1, <1>2, <1>3, <1>4, <1>5, <1>6, <1>7, <1>8, <1>9, LookStep

LEMMA RefuseMiddlewareStep ==
  ASSUME RoutesInv, CallsMove, BridgesInv, NEW c \in Calls, RefuseMiddleware(c)
  PROVE  BridgesInv'
<1>0. BridgesTyped /\ CallsTyped
  BY RoutesFacts DEF BridgesInv
<1>1. /\ call[c].at = "fetched" /\ Proceed(c, "done")
      /\ fetched' = [fetched EXCEPT ![c] = NotFetched]
      /\ channels' = channels /\ originals' = originals
      /\ UNCHANGED <<setup, routerVars, mapVars, torn, stale>>
  BY DEF RefuseMiddleware, MiddlewareStep, routerVars, mapVars
<1>2. NotFetched \in FetchedRecord /\ NotFetched.key = Nil /\ NotFetched.handler = Nil
  BY DEF NotFetched, FetchedRecord
<1>3. call'[c].at = "done" /\ \A d \in Calls : d # c => call'[d] = call[d]
  BY <1>0, <1>1 DEF Proceed, CallsTyped, CallRecord
<1>4. Sound(call, NotFetched.handler, NotFetched.key)
  BY <1>2 DEF Sound
<1>5. originals' \in [Keys -> HandlerRecord \cup {Nil}]
  BY <1>0, <1>1 DEF BridgesTyped
<1> QED
  BY <1>1, <1>2, <1>3, <1>4, <1>5, LookStep DEF Stages

LEMMA HandlerSet ==
  ASSUME NEW routes \in Seq(RouteRecord), NEW i \in DOMAIN routes, NEW g \in HandlerRecord \cup {Nil}
  PROVE  LET others == SetHandler(routes, i, g)
         IN  /\ others \in Seq(RouteRecord) /\ DOMAIN others = DOMAIN routes /\ Len(others) = Len(routes)
             /\ \A j \in DOMAIN routes : j # i => others[j] = routes[j]
             /\ others[i].name = routes[i].name /\ others[i].path = routes[i].path
             /\ others[i].prefix = routes[i].prefix /\ others[i].methods = routes[i].methods
             /\ others[i].handler = g
<1>1. routes[i] \in RouteRecord
  OBVIOUS
<1> PICK rt : rt = [routes[i] EXCEPT !.handler = g]
  OBVIOUS
<1>2. /\ rt.name = routes[i].name /\ rt.path = routes[i].path /\ rt.prefix = routes[i].prefix
      /\ rt.methods = routes[i].methods /\ rt.handler = g /\ rt \in RouteRecord
  BY <1>1 DEF RouteRecord
<1>3. SetHandler(routes, i, g) = [routes EXCEPT ![i] = rt]
  BY DEF SetHandler
<1> PICK others : others = SetHandler(routes, i, g)
  OBVIOUS
<1>4. /\ others \in Seq(RouteRecord) /\ DOMAIN others = DOMAIN routes /\ Len(others) = Len(routes)
      /\ \A j \in DOMAIN routes : j # i => others[j] = routes[j]
      /\ others[i] = rt
  BY <1>2, <1>3
<1> QED
  BY <1>2, <1>4

\* Route i of router r, of key k, is given the handler g.
RouteChanged(r, i, k, g) ==
  /\ routers' \in Seq(Seq(RouteRecord)) /\ DOMAIN routers' = DOMAIN routers /\ RoutersGrow
  /\ \A q \in DOMAIN routers : q # r => routers'[q] = routers[q]
  /\ DOMAIN routers'[r] = DOMAIN routers[r] /\ Len(routers'[r]) = Len(routers[r])
  /\ \A j \in DOMAIN routers[r] : routers'[r][j].name = routers[r][j].name
  /\ routers'[r][i].handler = g
  /\ \A q \in DOMAIN routers : \A l : l # k => SameRoutes(routers[q], routers'[q], l)
  /\ \A q \in DOMAIN routers : /\ Once(routers[q], k) => Once(routers'[q], k)
                               /\ Absent(routers'[q], k) <=> Absent(routers[q], k)
  /\ \A q \in DOMAIN routers : RoutesFormed(call', routers'[q])

LEMMA RouteChanges ==
  ASSUME BridgesTyped, HandlersFormed, CallsMove, RoutesInv,
         NEW r \in DOMAIN routers, NEW i \in DOMAIN routers[r],
         NEW k, routers[r][i].name = k, NEW g \in HandlerRecord \cup {Nil}, Sound(call, g, k),
         routers' = [routers EXCEPT ![r] = SetHandler(@, i, g)]
  PROVE  RouteChanged(r, i, k, g)
<1>0. routers \in Seq(Seq(RouteRecord)) /\ routers[r] \in Seq(RouteRecord)
  BY DEF BridgesTyped
<1> PICK routes \in Seq(RouteRecord) : routes = routers[r]
  BY <1>0
<1> PICK others : others = SetHandler(routes, i, g)
  OBVIOUS
<1>1. /\ others \in Seq(RouteRecord) /\ DOMAIN others = DOMAIN routes /\ Len(others) = Len(routes)
      /\ \A j \in DOMAIN routes : j # i => others[j] = routes[j]
      /\ others[i].name = routes[i].name /\ others[i].path = routes[i].path
      /\ others[i].prefix = routes[i].prefix /\ others[i].methods = routes[i].methods
      /\ others[i].handler = g
  BY HandlerSet
<1>2. routers' = [routers EXCEPT ![r] = others]
  OBVIOUS
<1>3. /\ routers' \in Seq(Seq(RouteRecord)) /\ DOMAIN routers' = DOMAIN routers
      /\ \A q \in DOMAIN routers : q # r => routers'[q] = routers[q]
      /\ routers'[r] = others
  BY <1>0, <1>1, <1>2
<1>4. \A j \in DOMAIN routes : others[j].name = routes[j].name
  BY <1>1
<1>5. RoutersGrow
  BY <1>1, <1>3, <1>4 DEF RoutersGrow
<1>6. \A l : l # k => SameRoutes(routes, others, l)
  BY <1>1, <1>4 DEF SameRoutes
<1>7. \A q \in DOMAIN routers : \A l : l # k => SameRoutes(routers[q], routers'[q], l)
  BY <1>3, <1>6, SameRoutesAre
<1>8. /\ Once(routes, k) => Once(others, k)
      /\ Absent(others, k) <=> Absent(routes, k)
  BY <1>1, <1>4 DEF Once, Absent
<1>9. \A q \in DOMAIN routers : /\ Once(routers[q], k) => Once(routers'[q], k)
                                /\ Absent(routers'[q], k) <=> Absent(routers[q], k)
  BY <1>3, <1>8
<1>10. RoutesFormed(call', others)
  <2>1. RoutesFormed(call', routes) /\ Sound(call', g, k)
    BY HandlersLast DEF HandlersFormed
  <2> SUFFICES ASSUME NEW j \in DOMAIN routes PROVE RouteForm(call', others[j])
    BY <1>1 DEF RoutesFormed
  <2>2. CASE j # i
    BY <1>1, <2>1, <2>2 DEF RoutesFormed
  <2>3. CASE j = i
    <3>1. RouteShape(routes[i])
      BY <2>1 DEF RoutesFormed, RouteForm
    <3>2. RouteShape(others[i])
      BY <1>1, <3>1 DEF RouteShape
    <3> QED
      BY <1>1, <2>1, <2>3, <3>2 DEF RouteForm
  <2> QED
    BY <2>2, <2>3
<1>11. \A q \in DOMAIN routers : RoutesFormed(call', routers'[q])
  BY <1>3, <1>10, HandlersLast DEF HandlersFormed
<1> QED
  BY <1>1, <1>3, <1>4, <1>5, <1>7, <1>9, <1>11 DEF RouteChanged

\* The handler that a middleware call writes is for its key.
LEMMA RewiredHandler ==
  ASSUME RoutesInv, CallsMove, BridgesInv, NEW c \in Calls, WriteHandler(c)
  PROVE  /\ Rewired(c) \in HandlerRecord /\ HandlerOf(call', Rewired(c), fetched[c].key)
         /\ \/ Rewired(c).builder = fetched[c].handler.builder
            \/ fetched[c].key \in stale'
<1>0. BridgesTyped /\ HandlersFormed /\ CallsTyped
  BY RoutesFacts DEF BridgesInv
<1>1. call[c].at = "checked" /\ Proceed(c, "written")
  BY DEF WriteHandler, MiddlewareStep
<1> PICK k \in Keys : k = fetched[c].key
  BY <1>1, FetchedFacts DEF Stages
<1> PICK h : h = fetched[c].handler
  OBVIOUS
<1> PICK o : o = originals[k]
  OBVIOUS
<1> PICK g : g = Rewired(c)
  OBVIOUS
<1>2. HandlerOf(call, h, k) /\ h \in HandlerRecord
  BY <1>1, FetchedFacts DEF Stages, HandlerOf
<1>3. Cardinality(Wraps(call')) \in Nat
  BY WrapsGrow
<1>4. CASE call[c].kind = "wrap"
  <2>1. g = [h EXCEPT !.layers = @ + 1]
    BY <1>4 DEF Rewired
  <2>2. /\ g \in HandlerRecord /\ g.layers = h.layers + 1 /\ h.layers \in Nat
        /\ g.service = h.service /\ g.bridge = h.bridge /\ g.builder = h.builder
    BY <1>2, <2>1 DEF HandlerRecord
  <2>3. HandlerOf(call', h, k)
    BY <1>2, HandlersLast, HandlersAreNotNil DEF Sound
  <2>4. g.layers <= Cardinality(Wraps(call'))
    <3>1. c \in Wraps(call') /\ c \notin Wraps(call)
      <4>1. call'[c].at = "written" /\ call'[c].kind = "wrap"
        BY <1>0, <1>1, <1>4 DEF Proceed, CallsTyped, CallRecord
      <4> QED
        BY <1>1, <4>1 DEF Wraps
    <3> PICK before, after : before = Wraps(call) /\ after = Wraps(call')
      OBVIOUS
    <3>2. /\ before \cup {c} \subseteq after /\ IsFiniteSet(before) /\ IsFiniteSet(after)
          /\ c \notin before /\ Cardinality(before) \in Nat /\ Cardinality(after) \in Nat
      BY <3>1, WrapsGrow
    <3>3. Cardinality(before \cup {c}) = Cardinality(before) + 1
      BY <3>2, FS_AddElement
    <3>4. Cardinality(before \cup {c}) <= Cardinality(after)
      BY <3>2, FS_Subset
    <3>5. h.layers <= Cardinality(before)
      BY <1>2 DEF HandlerOf
    <3> QED
      BY <2>2, <3>2, <3>3, <3>4, <3>5
  <2>5. HandlerOf(call', g, k)
    BY <2>2, <2>3, <2>4 DEF HandlerOf
  <2> QED
    BY <2>2, <2>5
<1>5. CASE call[c].kind # "wrap" /\ o = Nil
  <2>1. g = Broken
    BY <1>5 DEF Rewired
  <2>2. g \in HandlerRecord /\ g.layers = 0 /\ g.builder = None /\ g.service = None /\ g.bridge = Nil
    BY <2>1 DEF Broken, HandlerRecord
  <2>3. HandlerOf(call', g, k)
    BY <1>3, <2>2 DEF HandlerOf
  <2>4. call[c].kind = "unwrap"
    BY <1>1, <1>5, RoutesFacts DEF CallForm, Stages
  <2>5. k \in stale'
    BY <1>5, <2>4 DEF WriteHandler
  <2> QED
    BY <2>2, <2>3, <2>5
<1>6. CASE call[c].kind # "wrap" /\ o # Nil
  <2>1. g = o
    BY <1>6 DEF Rewired
  <2>2. HandlerOf(call', o, k) /\ o \in HandlerRecord
    <3>1. Sound(call, o, k)
      BY <1>0 DEF HandlersFormed
    <3>2. HandlerOf(call', o, k)
      BY <1>6, <3>1, HandlersLast DEF Sound
    <3> QED
      BY <3>2 DEF HandlerOf
  <2>3. call[c].kind = "unwrap"
    BY <1>1, <1>6, RoutesFacts DEF CallForm, Stages
  <2>4. o.builder = h.builder \/ k \in stale'
    BY <2>3 DEF WriteHandler
  <2> QED
    BY <2>1, <2>2, <2>4
<1> QED
  BY <1>4, <1>5, <1>6

LEMMA WriteHandlerStep ==
  ASSUME RoutesInv, CallsMove, BridgesInv, NEW c \in Calls, WriteHandler(c)
  PROVE  BridgesInv'
<1>0. /\ BridgesTyped /\ HandlersFormed /\ SetupForm /\ SettingForm /\ FetchedForm /\ EndpointsApart
      /\ RoutesServe /\ OwnHandlers /\ CallsTyped
  BY RoutesFacts DEF BridgesInv
<1>1. call[c].at = "checked"
  BY DEF WriteHandler
<1> PICK k \in Keys : k = fetched[c].key
  BY <1>1, FetchedFacts DEF Stages
<1> PICK h : h = fetched[c].handler
  OBVIOUS
<1> PICK g : g = Rewired(c)
  OBVIOUS
<1> PICK route : route = [fetched[c] EXCEPT !.handler = g]
  OBVIOUS
<1>2. /\ handlers' = [handlers EXCEPT ![k] = g] /\ fetched' = [fetched EXCEPT ![c] = route]
      /\ torn' = torn \cup {l \in {k} : handlers[k] # h \/ fetched[c].router # loaded \/ CloneUnderWay}
      /\ stale \subseteq stale' /\ Proceed(c, "written")
      /\ UNCHANGED <<channels, setup, routers, loaded, start, endpoints, bridged, setting, originals>>
  BY DEF WriteHandler, MiddlewareStep
<1>3. g \in HandlerRecord /\ HandlerOf(call', g, k) /\ (g.builder = h.builder \/ k \in stale')
  BY RewiredHandler
<1>4. g # Nil /\ h # Nil /\ HandlerOf(call, h, k)
  BY <1>1, <1>3, FetchedFacts, HandlersAreNotNil DEF Stages
<1>5. /\ route \in FetchedRecord /\ route.key = k /\ route.handler = g
      /\ route.router = fetched[c].router /\ route.index = fetched[c].index
  <2>1. fetched[c] \in FetchedRecord
    BY <1>1, FetchedFacts DEF Stages
  <2> QED
    BY <1>3, <2>1 DEF FetchedRecord
<1>6. /\ fetched'[c] = route /\ call'[c].at = "written"
      /\ \A d \in Calls : d # c => fetched'[d] = fetched[d] /\ call'[d] = call[d]
      /\ handlers'[k] = g /\ \A l \in Keys : l # k => handlers'[l] = handlers[l]
  BY <1>0, <1>2 DEF Proceed, CallsTyped, CallRecord, BridgesTyped
<1>7. BridgesTyped'
  <2>1. handlers' \in [Keys -> HandlerRecord \cup {Nil}]
    BY <1>0, <1>2, <1>3 DEF BridgesTyped
  <2>2. fetched' \in [Calls -> FetchedRecord]
    BY <1>0, <1>2, <1>5 DEF BridgesTyped
  <2> QED
    BY <1>0, <1>2, <2>1, <2>2 DEF BridgesTyped
<1>8. HandlersFormed'
  <2>1. Sound(call', g, k)
    BY <1>3 DEF Sound
  <2>2. \A l \in Keys : Sound(call', handlers'[l], l) /\ Sound(call', originals'[l], l)
    BY <1>0, <1>2, <1>6, <2>1, HandlersLast DEF HandlersFormed
  <2>3. ASSUME NEW d \in Calls PROVE Sound(call', fetched'[d].handler, fetched'[d].key)
    <3>1. CASE d = c
      BY <1>5, <1>6, <2>1, <3>1
    <3>2. CASE d # c
      <4>1. Sound(call', fetched[d].handler, fetched[d].key)
        BY <1>0, HandlersLast DEF HandlersFormed
      <4> QED
        BY <1>6, <3>2, <4>1
    <3> QED
      BY <3>1, <3>2
  <2>4. /\ \A r \in DOMAIN routers' : RoutesFormed(call', routers'[r])
        /\ Sound(call', setting'.handler, setting'.key)
    BY <1>0, <1>2, HandlersLast DEF HandlersFormed
  <2> QED
    BY <2>2, <2>3, <2>4 DEF HandlersFormed
<1>9. SetupForm' /\ SettingForm'
  <2>1. SetupForm'
    BY <1>0, <1>2, SetupStays DEF SetupForm
  <2> QED
    BY <1>0, <1>2, <2>1 DEF SettingForm, router
<1>10. FetchedForm'
  <2>1. FetchedOf(c)'
    <3>1. /\ fetched[c].router \in DOMAIN routers
          /\ fetched[c].index \in DOMAIN routers[fetched[c].router]
          /\ routers[fetched[c].router][fetched[c].index].name = k
      BY <1>1, FetchedFacts DEF Stages
    <3>2. k # Nil
      BY HandlersAreNotNil
    <3> QED
      BY <1>2, <1>4, <1>5, <1>6, <3>1, <3>2 DEF FetchedOf
  <2>2. \A d \in Calls : d # c => FetchedOf(d)'
    BY <1>0, <1>2, <1>6 DEF FetchedForm, FetchedOf
  <2>3. \A d \in Calls : call'[d].at \in {"checked", "written"} => call[d].at \in {"checked", "written"}
    BY <1>1, <1>6
  <2> QED
    BY <1>0, <2>1, <2>2, <2>3 DEF FetchedForm
<1>11. EndpointsApart'
  <2>1. \A s \in Services : \A l \in endpoints'[s] : handlers'[l] # Nil
    <3>1. \A s \in Services : endpoints[s] \subseteq Keys
      BY <1>0 DEF BridgesTyped
    <3> QED
      BY <1>0, <1>2, <1>4, <1>6, <3>1 DEF EndpointsApart
  <2>2. ASSUME NEW l \in Keys \ torn', handlers'[l] # Nil
        PROVE  \E s \in Services : l \in endpoints'[s]
    <3>1. l \notin torn /\ handlers[l] # Nil
      BY <1>2, <1>4, <1>6, <2>2
    <3> QED
      BY <1>0, <1>2, <3>1 DEF EndpointsApart
  <2> QED
    BY <1>0, <1>2, <2>1, <2>2 DEF EndpointsApart
<1>12. OwnHandlers'
  <2> SUFFICES ASSUME NEW l \in Keys \ (stale' \cup torn'), handlers'[l] # Nil
               PROVE  handlers'[l].builder # None /\ l \in endpoints[handlers'[l].service]
    BY <1>2 DEF OwnHandlers
  <2>1. CASE l = k
    <3>1. handlers[k] = h /\ k \notin stale /\ k \notin torn
      BY <1>2, <2>1
    <3>2. h.builder # None /\ k \in endpoints[h.service]
      BY <1>0, <1>4, <3>1 DEF OwnHandlers
    <3>3. HandlerOf(call', h, k)
      BY <1>4, HandlersLast DEF Sound
    <3>4. g.builder = h.builder
      BY <1>3, <2>1
    <3>5. g.service = h.service
      BY <1>3, <3>2, <3>3, <3>4 DEF HandlerOf
    <3> QED
      BY <1>6, <2>1, <3>2, <3>4, <3>5
  <2>2. CASE l # k
    BY <1>0, <1>2, <1>6, <2>2 DEF OwnHandlers
  <2> QED
    BY <2>1, <2>2
<1>13. RoutesServe'
  <2> SUFFICES ASSUME NEW l \in Keys \ torn' PROVE KeyServed(l)'
    BY DEF RoutesServe
  <2>0. KeyServed(l) /\ loaded \in DOMAIN routers
    BY <1>0, <1>2 DEF RoutesServe, BridgesTyped
  <2>1. CASE l = k
    <3>1. handlers[k] = h /\ fetched[c].router = loaded /\ ~CloneUnderWay
      BY <1>2, <2>1
    <3>2. ~CloneUnderWay' /\ \A d \in Calls : setup[d].at # "cleared"
      BY <1>2, <3>1 DEF CloneUnderWay
    <3>3. ~Settled(k)'
      BY <1>5, <1>6 DEF Settled, Rehandled
    <3>4. \A d \in Calls : call'[d].at = "written" => d = c
      BY <1>0, <1>1, <1>6 DEF FetchedForm
    <3>5. \A d \in Calls : call'[d].at = "written" /\ fetched'[d].key = k =>
                             fetched'[d].router = loaded' /\ fetched'[d].handler = handlers'[k]
      BY <1>2, <1>5, <1>6, <3>1, <3>4
    <3>6. /\ \A r \in DOMAIN routers' : Once(routers'[r], k)
          /\ setting'.key = k => (setting'.at = "stored" <=> Absent(router', k))
          /\ handlers'[k] # Nil
      BY <1>2, <1>4, <1>6, <2>0, <2>1 DEF KeyServed, router
    <3> QED
      BY <1>2, <2>1, <3>2, <3>3, <3>5, <3>6 DEF KeyServed
  <2>2. CASE l # k
    <3>1. SameWrites(l)
      BY <1>1, <1>5, <1>6, <2>2 DEF SameWrites
    <3>2. SameClones
      BY <1>2 DEF SameClones
    <3> QED
      BY <1>0, <1>2, <1>6, <2>0, <2>2, <3>1, <3>2, KeyStays, SameRoutesAre
  <2> QED
    BY <2>1, <2>2
<1> QED
  BY <1>7, <1>8, <1>9, <1>10, <1>11, <1>12, <1>13 DEF BridgesInv

LEMMA RouteHandlerStep ==
  ASSUME RoutesInv, CallsMove, BridgesInv, NEW c \in Calls, RouteHandler(c)
  PROVE  BridgesInv'
<1>0. /\ BridgesTyped /\ HandlersFormed /\ SetupForm /\ SettingForm /\ FetchedForm /\ EndpointsApart
      /\ RoutesServe /\ OwnHandlers /\ CallsTyped
  BY RoutesFacts DEF BridgesInv
<1>1. call[c].at = "written"
  BY DEF RouteHandler
<1> PICK k \in Keys : k = fetched[c].key
  BY <1>1, FetchedFacts DEF Stages
<1> PICK g : g = fetched[c].handler
  OBVIOUS
<1> PICK r \in DOMAIN routers : r = fetched[c].router
  BY <1>1, FetchedFacts DEF Stages
<1> PICK i \in DOMAIN routers[r] : i = fetched[c].index /\ routers[r][i].name = k
  BY <1>1, FetchedFacts DEF Stages
<1>2. /\ routers' = [routers EXCEPT ![r] = SetHandler(@, i, g)]
      /\ fetched' = [fetched EXCEPT ![c] = NotFetched] /\ Proceed(c, "done")
      /\ UNCHANGED <<channels, setup, loaded, start, handlers, endpoints, bridged, setting, originals,
                     torn, stale>>
  BY DEF RouteHandler, MiddlewareStep
<1>3. g # Nil /\ HandlerOf(call, g, k) /\ g \in HandlerRecord
  BY <1>1, FetchedFacts DEF Stages, HandlerOf
<1>4. RouteChanged(r, i, k, g)
  <2>1. g \in HandlerRecord \cup {Nil} /\ Sound(call, g, k)
    BY <1>3 DEF Sound
  <2>2. routers' = [routers EXCEPT ![r] = SetHandler(@, i, g)]
    BY <1>2
  <2> QED
    BY <1>0, <2>1, <2>2, RouteChanges
<1>5. /\ routers' \in Seq(Seq(RouteRecord)) /\ DOMAIN routers' = DOMAIN routers /\ RoutersGrow
      /\ DOMAIN routers'[r] = DOMAIN routers[r] /\ Len(routers'[r]) = Len(routers[r])
      /\ \A q \in DOMAIN routers : q # r => routers'[q] = routers[q]
      /\ \A j \in DOMAIN routers[r] : routers'[r][j].name = routers[r][j].name
      /\ routers'[r][i].handler = g
      /\ \A q \in DOMAIN routers : \A l : l # k => SameRoutes(routers[q], routers'[q], l)
      /\ \A q \in DOMAIN routers : /\ Once(routers[q], k) => Once(routers'[q], k)
                                   /\ Absent(routers'[q], k) <=> Absent(routers[q], k)
      /\ \A q \in DOMAIN routers : RoutesFormed(call', routers'[q])
  BY <1>4 DEF RouteChanged
<1>6. /\ fetched'[c] = NotFetched /\ call'[c].at = "done"
      /\ \A d \in Calls : d # c => fetched'[d] = fetched[d] /\ call'[d] = call[d]
  BY <1>0, <1>2 DEF Proceed, CallsTyped, CallRecord, BridgesTyped
<1>7. NotFetched \in FetchedRecord /\ NotFetched.key = Nil /\ NotFetched.handler = Nil
  BY DEF NotFetched, FetchedRecord
<1>8. BridgesTyped'
  <2>1. fetched' \in [Calls -> FetchedRecord]
    BY <1>0, <1>2, <1>7 DEF BridgesTyped
  <2> QED
    BY <1>0, <1>2, <1>5, <2>1 DEF BridgesTyped
<1>9. HandlersFormed'
  <2>1. \A l \in Keys : Sound(call', handlers'[l], l) /\ Sound(call', originals'[l], l)
    BY <1>0, <1>2, HandlersLast DEF HandlersFormed
  <2>2. Sound(call', NotFetched.handler, NotFetched.key)
    BY <1>7 DEF Sound
  <2>3. \A d \in Calls : Sound(call', fetched'[d].handler, fetched'[d].key)
    BY <1>0, <1>6, <2>2, HandlersLast DEF HandlersFormed
  <2>4. Sound(call', setting'.handler, setting'.key)
    BY <1>0, <1>2, HandlersLast DEF HandlersFormed
  <2> QED
    BY <1>5, <2>1, <2>3, <2>4 DEF HandlersFormed
<1>10. SetupForm' /\ SettingForm'
  <2>1. SetupForm'
    BY <1>0, <1>2, <1>5, SetupStays DEF SetupForm
  <2>2. Len(routers'[loaded]) = Len(routers[loaded]) /\ DOMAIN routers'[loaded] = DOMAIN routers[loaded]
    BY <1>0, <1>5 DEF BridgesTyped
  <2>3. \A j \in DOMAIN routers[loaded] : routers'[loaded][j].name = routers[loaded][j].name
    BY <1>0, <1>5 DEF BridgesTyped
  <2>4. SettingForm'
    BY <1>0, <1>2, <2>2, <2>3 DEF SettingForm, router
  <2> QED
    BY <2>1, <2>4
<1>11. FetchedForm'
  <2>1. FetchedOf(c)'
    BY <1>6, <1>7 DEF FetchedOf, Stages
  <2>2. \A d \in Calls : d # c => FetchedOf(d)'
    BY <1>0, <1>5, <1>6 DEF FetchedForm, FetchedOf, RoutersGrow
  <2>3. \A d \in Calls : call'[d].at \in {"checked", "written"} => call[d].at \in {"checked", "written"}
    BY <1>6
  <2> QED
    BY <1>0, <2>1, <2>2, <2>3 DEF FetchedForm
<1>12. EndpointsApart' /\ OwnHandlers'
  BY <1>0, <1>2 DEF EndpointsApart, OwnHandlers
<1>13. RoutesServe'
  <2> SUFFICES ASSUME NEW l \in Keys \ torn PROVE KeyServed(l)'
    BY <1>2 DEF RoutesServe
  <2>0. KeyServed(l) /\ loaded \in DOMAIN routers
    BY <1>0 DEF RoutesServe, BridgesTyped
  <2>1. CASE l = k
    <3>1. r = loaded /\ handlers[k] = g
      BY <1>1, <2>0, <2>1 DEF KeyServed
    <3>2. ~Settled(k)
      BY <1>1 DEF Settled, Rehandled
    <3>3. ~CloneUnderWay /\ \A d \in Calls : setup[d].at # "cleared"
      BY <2>0, <2>1, <3>2 DEF KeyServed, CloneUnderWay
    <3>4. ~CloneUnderWay' /\ \A d \in Calls : setup'[d].at # "cleared"
      BY <1>2, <3>3 DEF CloneUnderWay
    <3>5. \A d \in Calls : call'[d].at # "written"
      BY <1>0, <1>1, <1>6 DEF FetchedForm
    <3>6. \A q \in DOMAIN routers' : Once(routers'[q], k)
      BY <1>5, <2>0, <2>1 DEF KeyServed
    <3>7. router' = routers'[loaded] /\ router = routers[loaded]
      BY <1>2 DEF router
    <3>8. Serves(router', k, g)
      <4>1. Once(router', k) /\ i \in DOMAIN router' /\ router'[i].name = k /\ router'[i].handler = g
        BY <1>5, <2>0, <3>1, <3>6, <3>7
      <4> QED
        BY <1>3, <4>1 DEF Serves, Once, Absent
    <3>9. setting'.key = k => (setting'.at = "stored" <=> Absent(router', k))
      BY <1>2, <1>5, <2>0, <2>1, <3>7 DEF KeyServed
    <3> QED
      BY <1>2, <1>3, <2>1, <3>1, <3>4, <3>5, <3>6, <3>8, <3>9 DEF KeyServed
  <2>2. CASE l # k
    <3>1. SameWrites(l)
      BY <1>1, <1>6, <2>2 DEF SameWrites
    <3>2. SameClones
      BY <1>2 DEF SameClones
    <3> QED
      BY <1>0, <1>2, <1>5, <2>0, <2>2, <3>1, <3>2, KeyStays
  <2> QED
    BY <2>1, <2>2
<1> QED
  BY <1>8, <1>9, <1>10, <1>11, <1>12, <1>13 DEF BridgesInv

LEMMA SetBridgeStep ==
  ASSUME RoutesInv, CallsMove, BridgesInv, SameStages,
         NEW c \in Calls, NEW s \in Services, NEW b \in BridgesFor(s),
         SetBridge(c, s, b), call'[c].service = s,
         setup' \in [Calls -> SetupRecord], SetupForm', SameClones,
         UNCHANGED <<channels, routerVars, middlewareVars, stale>>
  PROVE  BridgesInv'
<1> PICK k \in Keys : k = KeyOf(b)
  BY BridgeKeys
<1> PICK h : h = Handler(s, c, k)
  OBVIOUS
<1>0. /\ BridgesTyped /\ HandlersFormed /\ SetupForm /\ FetchedForm /\ EndpointsApart
      /\ RoutesServe /\ OwnHandlers
  BY DEF BridgesInv
<1>1. UNCHANGED <<routers, loaded, start, originals, fetched>>
  BY DEF routerVars, middlewareVars
<1>2. start' \in [at : {"off", "read", "done"}, router : DOMAIN routers]
  BY <1>0, <1>1 DEF BridgesTyped
<1>3. CASE handlers[k] # Nil \/ s \notin bridged \cup channels
  <2>1. UNCHANGED <<mapVars, torn>>
    BY <1>3 DEF SetBridge
  <2>2. /\ channels' = channels /\ stale' = stale
        /\ UNCHANGED <<routers, loaded, mapVars, middlewareVars, torn, stale>>
    BY <1>1, <2>1
  <2> QED
    BY <1>2, <2>2, OutsideStep
<1>4. CASE handlers[k] = Nil /\ s \in bridged \cup channels
  <2>1. setting.at = "free" /\ StoreBridge(c, s, b)
    BY <1>4 DEF SetBridge, Unlocked
  <2>2. /\ bridged' = bridged \cup {s}
        /\ handlers' = [handlers EXCEPT ![k] = h]
        /\ endpoints' = [endpoints EXCEPT ![s] = @ \cup {k}]
        /\ setting' = [at |-> "stored", key |-> k, bridge |-> b, handler |-> Nil]
        /\ torn' = torn \cup {l \in {k} : CloneUnderWay}
    BY <2>1 DEF StoreBridge
  <2>3. /\ h.service = s /\ h.bridge = k /\ h.builder = c /\ h.layers = 0
        /\ h \in HandlerRecord /\ h # Nil
    BY HandlersAreNotNil DEF Handler, HandlerRecord
  <2>4. Sound(call', h, k)
    <3>1. Cardinality(Wraps(call')) \in Nat
      BY WrapsGrow
    <3> QED
      BY <2>3, <3>1 DEF Sound, HandlerOf
  <2>5. /\ \A l \in Keys : l # k => handlers'[l] = handlers[l]
        /\ handlers'[k] = h
        /\ \A t \in Services : t # s => endpoints'[t] = endpoints[t]
        /\ endpoints'[s] = endpoints[s] \cup {k}
    BY <1>0, <2>2 DEF BridgesTyped
  <2>6. /\ setting'.at = "stored" /\ setting'.key = k /\ setting'.bridge = b /\ setting'.handler = Nil
        /\ setting' \in SettingRecord /\ b \in Bridges /\ k # Nil
    BY <2>2, BridgeKeys, HandlersAreNotNil DEF SettingRecord
  <2>7. BridgesTyped'
    <3>1. handlers' \in [Keys -> HandlerRecord \cup {Nil}] /\ endpoints' \in [Services -> SUBSET Keys]
      BY <1>0, <2>2, <2>3 DEF BridgesTyped
    <3>2. bridged' \subseteq channels'
      BY <1>0, <1>4, <2>2 DEF BridgesTyped
    <3> QED
      BY <1>0, <1>1, <2>6, <3>1, <3>2 DEF BridgesTyped
  <2>8. HandlersFormed'
    <3>1. \A l \in Keys : Sound(call', handlers'[l], l) /\ Sound(call', originals'[l], l)
      BY <1>0, <1>1, <2>4, <2>5, HandlersLast DEF HandlersFormed
    <3>2. /\ \A r \in DOMAIN routers' : RoutesFormed(call', routers'[r])
          /\ \A d \in Calls : Sound(call', fetched'[d].handler, fetched'[d].key)
      BY <1>0, <1>1, HandlersLast DEF HandlersFormed
    <3>3. Sound(call', setting'.handler, setting'.key)
      BY <2>6 DEF Sound
    <3> QED
      BY <3>1, <3>2, <3>3 DEF HandlersFormed
  <2>9. SettingForm'
    BY <2>6 DEF SettingForm
  <2>10. FetchedForm' /\ \A l : SameWrites(l)
    BY <1>0, <1>1, FetchedStays DEF RoutersGrow
  <2>11. EndpointsApart'
    <3>0. \A t \in Services : endpoints[t] \subseteq Keys
      BY <1>0 DEF BridgesTyped
    <3>1. \A t \in Services : k \notin endpoints[t]
      BY <1>0, <1>4 DEF EndpointsApart
    <3>2. \A t, u \in Services : t # u => endpoints'[t] \cap endpoints'[u] = {}
      BY <1>0, <2>5, <3>1 DEF EndpointsApart
    <3>3. \A t \in Services : \A l \in endpoints'[t] : handlers'[l] # Nil
      BY <1>0, <2>3, <2>5, <3>0 DEF EndpointsApart
    <3>4. \A l \in Keys \ torn' : handlers'[l] # Nil => \E t \in Services : l \in endpoints'[t]
      BY <1>0, <2>2, <2>5 DEF EndpointsApart
    <3>5. \A t \in Services : endpoints'[t] # {} => t \in bridged'
      BY <1>0, <2>2, <2>5 DEF EndpointsApart
    <3> QED
      BY <3>2, <3>3, <3>4, <3>5 DEF EndpointsApart
  <2>12. OwnHandlers'
    <3>1. c # None
      BY NoneAssumption
    <3> SUFFICES ASSUME NEW l \in Keys \ (stale \cup torn'), handlers'[l] # Nil
                 PROVE  handlers'[l].builder # None /\ l \in endpoints'[handlers'[l].service]
      BY DEF OwnHandlers
    <3>2. CASE l = k
      BY <2>3, <2>5, <3>1, <3>2
    <3>3. CASE l # k
      <4>1. handlers'[l] = handlers[l] /\ handlers[l] # Nil /\ l \notin torn
        BY <2>2, <2>5, <3>3
      <4>2. handlers[l].builder # None /\ l \in endpoints[handlers[l].service]
        BY <1>0, <4>1 DEF OwnHandlers
      <4>3. HandlerOf(call, handlers[l], l)
        BY <1>0, <4>1 DEF HandlersFormed, Sound
      <4>4. handlers[l].service \in Services
        BY <4>2, <4>3 DEF HandlerOf
      <4> QED
        BY <2>5, <4>1, <4>2, <4>4
    <3> QED
      BY <3>2, <3>3
  <2>13. RoutesServe'
    <3> SUFFICES ASSUME NEW l \in Keys \ torn' PROVE KeyServed(l)'
      BY DEF RoutesServe
    <3>0. KeyServed(l) /\ loaded \in DOMAIN routers /\ SettingForm
      BY <1>0, <2>2 DEF RoutesServe, BridgesTyped, BridgesInv
    <3>1. CASE l = k
      <4>1. ~CloneUnderWay
        BY <2>2, <3>1
      <4>2. \A d \in Calls : setup[d].at # "cleared" /\ setup'[d].at # "cleared"
        BY <4>1 DEF CloneUnderWay, SameClones
      <4>3. ~CloneUnderWay'
        BY <4>2 DEF CloneUnderWay
      <4>4. Settled(k) /\ Serves(router, k, Nil)
        BY <1>4, <3>0, <3>1, <4>1 DEF KeyServed
      <4>5. Absent(router, k) /\ router' = router
        BY <1>1, <4>4 DEF Serves, Absent, router
      <4>6. \A d \in Calls : ~(call'[d].at = "written" /\ fetched'[d].key = k)
        BY <2>10, <4>4 DEF Settled, Rehandled, SameWrites
      <4>7. ~Settled(k)'
        BY <2>6 DEF Settled
      <4>8. \A r \in DOMAIN routers' : Once(routers'[r], k)
        BY <1>1, <3>0, <3>1 DEF KeyServed
      <4> QED
        BY <2>3, <2>5, <2>6, <3>1, <4>2, <4>3, <4>5, <4>6, <4>7, <4>8 DEF KeyServed
    <3>2. CASE l # k
      <4>1. setting.key = Nil /\ l # Nil
        BY <2>1, <3>0, HandlersAreNotNil DEF SettingForm
      <4> QED
        BY <1>0, <1>1, <2>5, <2>6, <2>10, <3>0, <3>2, <4>1, KeyStays, SameRoutesAre
    <3> QED
      BY <3>1, <3>2
  <2> QED
    BY <2>7, <2>8, <2>9, <2>10, <2>11, <2>12, <2>13 DEF BridgesInv
<1> QED
  BY <1>3, <1>4

LEMMA AnnouncedBridgeStep ==
  ASSUME RoutesInv, CallsMove, BridgesInv, NEW c \in Calls, SetHttpChannelBridge(c)
  PROVE  BridgesInv'
<1>0. BridgesTyped /\ SetupForm
  BY DEF BridgesInv
<1> PICK todo : todo = setup[c].todo
  OBVIOUS
<1> PICK at : at = IF Len(todo) = 1 THEN "done" ELSE setup[c].at
  OBVIOUS
<1>1. /\ setup[c].at \in {"new", "setting"} /\ todo # <<>>
      /\ SetBridge(c, call[c].service, Head(todo))
      /\ setup' = [setup EXCEPT ![c].todo = Tail(todo), ![c].at = at]
      /\ UNCHANGED <<routeVars, routerVars, middlewareVars, stale>>
  BY DEF SetHttpChannelBridge
<1>2. call' = call /\ channels' = channels
  BY <1>1 DEF routeVars
<1>3. /\ setup[c].at # "none" /\ setup[c].at # "cleared" /\ at \in {"done", "new", "setting"}
      /\ setup[c] \in SetupRecord /\ todo \in Seq(ExactBridges)
  BY <1>0, <1>1 DEF BridgesTyped, SetupRecord
<1>4. /\ call[c].service \in Services
      /\ \A i \in DOMAIN todo : todo[i] \in BridgesFor(call[c].service)
  BY <1>0, <1>3 DEF SetupForm, SetupOf
<1>5. /\ Head(todo) = todo[1] /\ 1 \in DOMAIN todo /\ Tail(todo) \in Seq(ExactBridges)
      /\ \A i \in DOMAIN Tail(todo) : \E j \in DOMAIN todo : Tail(todo)[i] = todo[j]
  <2>1. /\ Len(todo) \in Nat /\ Len(todo) # 0 /\ DOMAIN todo = 1..Len(todo)
        /\ DOMAIN Tail(todo) = 1..(Len(todo) - 1)
        /\ \A i \in 1..(Len(todo) - 1) : Tail(todo)[i] = todo[i + 1]
    BY <1>1, <1>3
  <2> QED
    BY <1>1, <1>3, <2>1
<1>6. /\ setup'[c].todo = Tail(todo) /\ setup'[c].at = at /\ setup'[c].clone = setup[c].clone
      /\ setup'[c] \in SetupRecord
      /\ \A d \in Calls : d # c => setup'[d] = setup[d]
  BY <1>0, <1>1, <1>3, <1>5 DEF BridgesTyped, SetupRecord
<1>7. setup' \in [Calls -> SetupRecord]
  BY <1>0, <1>1, <1>6 DEF BridgesTyped
<1>8. SetupForm'
  <2>0. DOMAIN routers' = DOMAIN routers
    BY <1>1 DEF routerVars
  <2>1. SetupOf(c)'
    <3>1. \A i \in DOMAIN Tail(todo) : Tail(todo)[i] \in BridgesFor(call[c].service)
      BY <1>4, <1>5
    <3>2. call[c].at # "registered"
      BY <1>0, <1>3 DEF SetupForm, SetupOf
    <3>3. setup[c].clone = 0
      BY <1>0, <1>3 DEF SetupForm, SetupOf
    <3> QED
      BY <1>2, <1>3, <1>4, <1>6, <3>1, <3>2, <3>3 DEF SetupOf
  <2>2. \A d \in Calls : d # c => SetupOf(d)'
    BY <1>0, <1>6, <2>0, SetupStays DEF SetupForm
  <2> QED
    BY <2>1, <2>2 DEF SetupForm
<1>9. SameStages
  BY <1>2 DEF SameStages
<1>10. SameClones
  BY <1>3, <1>6 DEF SameClones
<1> PICK s \in Services : s = call[c].service
  BY <1>4
<1> PICK b : b = Head(todo)
  OBVIOUS
<1>11. b \in BridgesFor(s)
  BY <1>4, <1>5
<1>12. call'[c].service = s /\ SetBridge(c, s, b)
  BY <1>1, <1>2
<1> QED
  BY <1>1, <1>2, <1>7, <1>8, <1>9, <1>10, <1>11, <1>12, SetBridgeStep

LEMMA BridgeByHandStep ==
  ASSUME RoutesInv, CallsMove, BridgesInv, NEW c \in Calls, NEW s \in Services,
         NEW b \in ByHandOf[s], BridgeByHand(c, s, b)
  PROVE  BridgesInv'
<1>0. CallsTyped /\ BridgesTyped /\ SetupForm
  BY RoutesFacts DEF BridgesInv
<1>1. /\ Make(c, "bridge", s, "done") /\ SetBridge(c, s, b)
      /\ UNCHANGED <<channels, setup, routerVars, middlewareVars, stale>>
  BY DEF BridgeByHand
<1>2. SameStages
  BY <1>0, <1>1, MakeFetches DEF Stages
<1>3. call'[c].service = s
  BY <1>0, <1>1 DEF Make, CallsTyped
<1>4. setup' \in [Calls -> SetupRecord] /\ SameClones /\ DOMAIN routers' = DOMAIN routers
  BY <1>0, <1>1 DEF BridgesTyped, SameClones, routerVars
<1>5. SetupForm'
  BY <1>0, <1>1, <1>4, SetupStays DEF SetupForm
<1>6. b \in BridgesFor(s)
  BY DEF BridgesFor
<1> QED
  BY <1>1, <1>2, <1>3, <1>4, <1>5, <1>6, SetBridgeStep

\* What Append does, as far as the proofs need it.
LEMMA Appended ==
  ASSUME NEW S, NEW s \in Seq(S), NEW e \in S
  PROVE  LET t == Append(s, e)
         IN  /\ t \in Seq(S) /\ Len(t) = Len(s) + 1
             /\ DOMAIN t = DOMAIN s \cup {Len(t)} /\ Len(t) \notin DOMAIN s
             /\ \A i \in DOMAIN s : t[i] = s[i]
             /\ t[Len(t)] = e
OBVIOUS

LEMMA PublishRouteStep ==
  ASSUME RoutesInv, BridgesInv, PublishRoute
  PROVE  BridgesInv'
<1>0. /\ BridgesTyped /\ HandlersFormed /\ SetupForm /\ SettingForm /\ FetchedForm /\ EndpointsApart
      /\ RoutesServe /\ OwnHandlers
  BY DEF BridgesInv
<1> PICK b : b = setting.bridge
  OBVIOUS
<1> PICK k : k = setting.key
  OBVIOUS
<1> PICK rt : rt = RouteOf(b, Nil)
  OBVIOUS
<1> PICK g : g = handlers[k]
  OBVIOUS
<1> PICK routes : routes = routers[loaded]
  OBVIOUS
<1> PICK others : others = Append(routes, rt)
  OBVIOUS
<1>1. /\ setting.at = "stored" /\ routers' = [routers EXCEPT ![loaded] = others]
      /\ setting' = [setting EXCEPT !.at = "named", !.handler = g]
      /\ UNCHANGED <<call, channels, setup, loaded, start, handlers, endpoints, bridged,
                     originals, fetched, torn, stale>>
  BY DEF PublishRoute, routeVars, middlewareVars
<1>2. k \in Keys /\ b \in Bridges /\ KeyOf(b) = k /\ k # Nil
  BY <1>0, <1>1, HandlersAreNotNil DEF SettingForm, BridgesTyped, SettingRecord
<1>3. rt \in RouteRecord /\ RouteShape(rt) /\ rt.name = k /\ rt.handler = Nil
  BY <1>2, RouteOfBridge
<1>4. routes \in Seq(RouteRecord) /\ loaded \in DOMAIN routers /\ routers \in Seq(Seq(RouteRecord))
  BY <1>0 DEF BridgesTyped
<1>5. /\ others \in Seq(RouteRecord) /\ Len(others) = Len(routes) + 1
      /\ DOMAIN others = DOMAIN routes \cup {Len(others)} /\ Len(others) \notin DOMAIN routes
      /\ \A i \in DOMAIN routes : others[i] = routes[i]
      /\ others[Len(others)] = rt
  BY <1>3, <1>4, Appended
<1>6. /\ routers' \in Seq(Seq(RouteRecord)) /\ DOMAIN routers' = DOMAIN routers
      /\ \A q \in DOMAIN routers : q # loaded => routers'[q] = routers[q]
      /\ routers'[loaded] = others
  BY <1>1, <1>4, <1>5
<1>7. RoutersGrow
  BY <1>4, <1>5, <1>6 DEF RoutersGrow
<1>8. /\ setting'.at = "named" /\ setting'.key = k /\ setting'.bridge = b /\ setting'.handler = g
      /\ setting' \in SettingRecord /\ g \in HandlerRecord \cup {Nil}
  BY <1>0, <1>1, <1>2 DEF BridgesTyped, SettingRecord
<1>9. SameStages /\ SameClones
  BY <1>1 DEF SameStages, SameClones
<1>10. FetchedForm' /\ \A l : SameWrites(l)
  BY <1>0, <1>1, <1>7, <1>9, FetchedStays
<1>11. BridgesTyped'
  BY <1>0, <1>1, <1>6, <1>8 DEF BridgesTyped
<1>12. HandlersFormed'
  <2>1. RoutesFormed(call, routes)
    BY <1>0, <1>4 DEF HandlersFormed
  <2>2. Sound(call, rt.handler, rt.name)
    BY <1>3 DEF Sound
  <2>3. RoutesFormed(call, others)
    BY <1>3, <1>5, <2>1, <2>2 DEF RoutesFormed, RouteForm
  <2>4. \A q \in DOMAIN routers' : RoutesFormed(call, routers'[q])
    BY <1>0, <1>6, <2>3 DEF HandlersFormed
  <2>5. Sound(call, g, k)
    BY <1>0, <1>2 DEF HandlersFormed
  <2> QED
    BY <1>0, <1>1, <1>8, <2>4, <2>5 DEF HandlersFormed
<1>13. SetupForm' /\ SettingForm'
  <2>1. SetupForm'
    BY <1>0, <1>1, <1>6 DEF SetupForm, SetupOf
  <2>2. router' = others
    BY <1>1, <1>6 DEF router
  <2>3. Len(others) \in DOMAIN others /\ others[Len(others)].name = k
    BY <1>3, <1>5
  <2> QED
    BY <1>2, <1>8, <2>1, <2>2, <2>3 DEF SettingForm
<1>14. EndpointsApart' /\ OwnHandlers'
  BY <1>0, <1>1 DEF EndpointsApart, OwnHandlers
<1>15. RoutesServe'
  <2> SUFFICES ASSUME NEW l \in Keys \ torn PROVE KeyServed(l)'
    BY <1>1 DEF RoutesServe
  <2>0. KeyServed(l)
    BY <1>0 DEF RoutesServe
  <2>1. CASE l = k
    <3>1. ~Settled(k) /\ ~Settled(k)'
      BY <1>8 DEF Settled
    <3>2. /\ ~CloneUnderWay /\ handlers[k] # Nil /\ Absent(router, k)
          /\ \A q \in DOMAIN routers : Once(routers[q], k)
          /\ \A c \in Calls : call[c].at = "written" /\ fetched[c].key = k =>
                                fetched[c].router = loaded /\ fetched[c].handler = handlers[k]
      BY <1>1, <2>0, <2>1, <3>1 DEF KeyServed
    <3>3. ~CloneUnderWay' /\ \A d \in Calls : setup'[d].at # "cleared"
      BY <1>1, <3>2 DEF CloneUnderWay
    <3>4. Absent(routes, k) /\ router' = others
      BY <1>1, <1>6, <3>2 DEF router
    <3>5. Once(others, k) /\ ~Absent(others, k)
      BY <1>3, <1>5, <3>4 DEF Once, Absent
    <3>6. \A q \in DOMAIN routers' : Once(routers'[q], k)
      BY <1>6, <3>2, <3>5
    <3> QED
      BY <1>1, <1>8, <2>1, <3>1, <3>2, <3>3, <3>4, <3>5, <3>6 DEF KeyServed
  <2>2. CASE l # k
    <3>1. SameRoutes(routes, others, l)
      BY <1>3, <1>5, <2>2 DEF SameRoutes
    <3>2. \A q \in DOMAIN routers : SameRoutes(routers[q], routers'[q], l)
      BY <1>6, <3>1, SameRoutesAre
    <3> QED
      BY <1>0, <1>1, <1>4, <1>6, <1>8, <1>9, <1>10, <2>0, <2>2, <3>2, KeyStays
  <2> QED
    BY <2>1, <2>2
<1> QED
  BY <1>10, <1>11, <1>12, <1>13, <1>14, <1>15 DEF BridgesInv

LEMMA SetRouteHandlerStep ==
  ASSUME RoutesInv, CallsMove, BridgesInv, SetRouteHandler
  PROVE  BridgesInv'
<1>0. /\ BridgesTyped /\ HandlersFormed /\ SetupForm /\ SettingForm /\ FetchedForm /\ EndpointsApart
      /\ RoutesServe /\ OwnHandlers
  BY DEF BridgesInv
<1> PICK k : k = setting.key
  OBVIOUS
<1> PICK g : g = setting.handler
  OBVIOUS
<1> PICK i : i = Len(routers[loaded])
  OBVIOUS
<1>1. /\ setting.at = "named" /\ routers' = [routers EXCEPT ![loaded] = SetHandler(@, i, g)]
      /\ torn' = torn \cup {l \in {k} : handlers[l] # g}
      /\ setting' = NotSetting
      /\ UNCHANGED <<call, channels, setup, loaded, start, handlers, endpoints, bridged,
                     originals, fetched, stale>>
  BY DEF SetRouteHandler, routeVars, middlewareVars
<1>2. k \in Keys /\ k # Nil /\ g \in HandlerRecord \cup {Nil} /\ Sound(call, g, k)
  BY <1>0, <1>1, HandlersAreNotNil DEF SettingForm, BridgesTyped, SettingRecord, HandlersFormed
<1>3. i \in DOMAIN routers[loaded] /\ routers[loaded][i].name = k /\ loaded \in DOMAIN routers
  BY <1>0, <1>1 DEF SettingForm, router, BridgesTyped
<1>4. RouteChanged(loaded, i, k, g)
  BY <1>0, <1>1, <1>2, <1>3, RouteChanges
<1>5. /\ routers' \in Seq(Seq(RouteRecord)) /\ DOMAIN routers' = DOMAIN routers /\ RoutersGrow
      /\ DOMAIN routers'[loaded] = DOMAIN routers[loaded]
      /\ \A j \in DOMAIN routers[loaded] : routers'[loaded][j].name = routers[loaded][j].name
      /\ routers'[loaded][i].handler = g
      /\ \A q \in DOMAIN routers : \A l : l # k => SameRoutes(routers[q], routers'[q], l)
      /\ \A q \in DOMAIN routers : /\ Once(routers[q], k) => Once(routers'[q], k)
                                   /\ Absent(routers'[q], k) <=> Absent(routers[q], k)
      /\ \A q \in DOMAIN routers : RoutesFormed(call', routers'[q])
  BY <1>4 DEF RouteChanged
<1>6. /\ NotSetting \in SettingRecord /\ NotSetting.key = Nil /\ NotSetting.handler = Nil
      /\ NotSetting.at = "free"
  BY DEF NotSetting, SettingRecord
<1>7. SameStages /\ SameClones
  BY <1>1 DEF SameStages, SameClones
<1>8. FetchedForm' /\ \A l : SameWrites(l)
  BY <1>0, <1>1, <1>5, <1>7, FetchedStays
<1>9. BridgesTyped'
  BY <1>0, <1>1, <1>5, <1>6 DEF BridgesTyped
<1>10. HandlersFormed'
  <2>1. Sound(call', setting'.handler, setting'.key)
    BY <1>1, <1>6 DEF Sound
  <2>2. /\ \A l \in Keys : Sound(call', handlers'[l], l) /\ Sound(call', originals'[l], l)
        /\ \A c \in Calls : Sound(call', fetched'[c].handler, fetched'[c].key)
    BY <1>0, <1>1 DEF HandlersFormed
  <2> QED
    BY <1>5, <2>1, <2>2 DEF HandlersFormed
<1>11. SetupForm' /\ SettingForm'
  <2>1. SetupForm'
    BY <1>0, <1>1, <1>5 DEF SetupForm, SetupOf
  <2> QED
    BY <1>1, <1>6, <2>1 DEF SettingForm
<1>12. EndpointsApart' /\ OwnHandlers'
  <2>1. torn \subseteq torn'
    BY <1>1
  <2> QED
    BY <1>0, <1>1, <2>1 DEF EndpointsApart, OwnHandlers
<1>13. RoutesServe'
  <2> SUFFICES ASSUME NEW l \in Keys \ torn' PROVE KeyServed(l)'
    BY DEF RoutesServe
  <2>0. KeyServed(l)
    BY <1>0, <1>1 DEF RoutesServe
  <2>1. CASE l = k
    <3>1. g = handlers[k] /\ ~Settled(k)
      BY <1>1, <2>1 DEF Settled
    <3>2. /\ ~CloneUnderWay /\ handlers[k] # Nil
          /\ \A q \in DOMAIN routers : Once(routers[q], k)
          /\ \A c \in Calls : call[c].at = "written" /\ fetched[c].key = k =>
                                fetched[c].router = loaded /\ fetched[c].handler = handlers[k]
      BY <2>0, <2>1, <3>1 DEF KeyServed
    <3>3. ~CloneUnderWay' /\ \A d \in Calls : setup'[d].at # "cleared"
      BY <1>1, <3>2 DEF CloneUnderWay
    <3>4. \A q \in DOMAIN routers' : Once(routers'[q], k)
      BY <1>5, <3>2
    <3>5. router' = routers'[loaded]
      BY <1>1 DEF router
    <3>6. Serves(router', k, g)
      <4>1. Once(router', k) /\ i \in DOMAIN router' /\ router'[i].name = k /\ router'[i].handler = g
        BY <1>3, <1>5, <3>4, <3>5
      <4> QED
        BY <3>1, <3>2, <4>1 DEF Serves, Once, Absent
    <3>7. setting'.key # k
      BY <1>1, <1>2, <1>6
    <3> QED
      BY <1>1, <2>1, <3>1, <3>2, <3>3, <3>4, <3>6, <3>7 DEF KeyServed
  <2>2. CASE l # k
    <3>1. l # Nil
      BY HandlersAreNotNil
    <3> QED
      BY <1>0, <1>1, <1>3, <1>5, <1>6, <1>7, <1>8, <2>0, <2>2, <3>1, KeyStays
  <2> QED
    BY <2>1, <2>2
<1> QED
  BY <1>8, <1>9, <1>10, <1>11, <1>12, <1>13 DEF BridgesInv

\* A clone serves the keys it does not leave out as the router does.
LEMMA ServesCloned ==
  ASSUME NEW routes \in Seq(RouteRecord), NEW names, NEW k, NEW h, Serves(routes, k, h)
  PROVE  Serves(CloneExcluding(routes, names), k, IF k \in names THEN Nil ELSE h)
<1> PICK clone : clone = CloneExcluding(routes, names)
  OBVIOUS
<1>1. PICK f \in [DOMAIN clone -> DOMAIN routes] :
        /\ \A n \in DOMAIN clone : clone[n] = routes[f[n]] /\ routes[f[n]].name \notin names
        /\ \A m, n \in DOMAIN clone : f[m] = f[n] => m = n
        /\ \A i \in DOMAIN routes : routes[i].name \notin names => \E n \in DOMAIN clone : f[n] = i
  BY ClonedRoutes
<1>2. CASE k \in names
  <2>1. \A n \in DOMAIN clone : clone[n].name # k
    BY <1>1, <1>2
  <2> QED
    BY <1>2, <2>1 DEF Serves, Once
<1>3. CASE k \notin names
  <2>1. Once(clone, k)
    BY <1>1 DEF Serves, Once
  <2>2. h # Nil => ~Absent(clone, k)
    <3> SUFFICES ASSUME h # Nil PROVE \E n \in DOMAIN clone : clone[n].name = k
      BY DEF Absent
    <3>1. PICK i \in DOMAIN routes : routes[i].name = k
      BY DEF Serves, Absent
    <3>2. PICK n \in DOMAIN clone : f[n] = i
      BY <1>1, <1>3, <3>1
    <3> QED
      BY <1>1, <3>1, <3>2
  <2>3. \A n \in DOMAIN clone : clone[n].name = k => clone[n].handler = h /\ h # Nil
    BY <1>1 DEF Serves
  <2> QED
    BY <1>3, <2>1, <2>2, <2>3 DEF Serves
<1> QED
  BY <1>2, <1>3

LEMMA ClearStep ==
  ASSUME RoutesInv, CallsMove, BridgesInv, NEW c \in Calls, Clear(c)
  PROVE  BridgesInv'
<1>0. /\ BridgesTyped /\ HandlersFormed /\ SetupForm /\ SettingForm /\ FetchedForm /\ EndpointsApart
      /\ RoutesServe /\ OwnHandlers
  BY DEF BridgesInv
<1> PICK s : s = call[c].service
  OBVIOUS
<1> PICK keys : keys = endpoints[s]
  OBVIOUS
<1> PICK clone : clone = CloneExcluding(router, keys)
  OBVIOUS
<1> PICK n : n = Len(routers) + 1
  OBVIOUS
<1>1. /\ setup[c].at = "new" /\ setting.at = "free"
      /\ routers' = Append(routers, clone)
      /\ setup' = [setup EXCEPT ![c].at = "cleared", ![c].clone = n]
      /\ endpoints' = [endpoints EXCEPT ![s] = {}]
      /\ handlers' = [k \in Keys |-> IF k \in keys THEN Nil ELSE handlers[k]]
      /\ stale' = stale \ keys
      /\ torn' = torn \cup {k \in Keys : Rehandled(k)}
                      \cup {k \in {router[i].name : i \in DOMAIN router} :
                              CloneUnderWay /\ handlers'[k] = Nil}
      /\ UNCHANGED <<call, channels, loaded, start, bridged, setting, originals, fetched>>
  BY DEF Clear, Unlocked, routeVars, middlewareVars
<1>2. /\ routers \in Seq(Seq(RouteRecord)) /\ loaded \in DOMAIN routers
      /\ router = routers[loaded] /\ router \in Seq(RouteRecord)
  BY <1>0 DEF BridgesTyped, router
<1>3. /\ clone \in Seq(RouteRecord)
      /\ \A m \in DOMAIN clone : \E i \in DOMAIN router : clone[m] = router[i]
  <2>1. PICK routes \in Seq(RouteRecord) : routes = router
    BY <1>2
  <2>2. clone = CloneExcluding(routes, keys)
    BY <2>1
  <2>3. clone \in Seq(RouteRecord)
    BY <2>2, ClonedRoutes
  <2>4. PICK f \in [DOMAIN clone -> DOMAIN routes] : \A m \in DOMAIN clone : clone[m] = routes[f[m]]
    BY <2>2, ClonedRoutes
  <2> QED
    BY <2>1, <2>3, <2>4
<1>4. /\ routers' \in Seq(Seq(RouteRecord)) /\ DOMAIN routers' = DOMAIN routers \cup {n}
      /\ n \in Nat /\ n \notin DOMAIN routers
      /\ \A q \in DOMAIN routers : routers'[q] = routers[q]
      /\ routers'[n] = clone
  <2>1. clone \in Seq(RouteRecord) /\ routers \in Seq(Seq(RouteRecord)) /\ Len(routers) \in Nat
    BY <1>2, <1>3
  <2>2. PICK t : t = Append(routers, clone)
    OBVIOUS
  <2>3. /\ t \in Seq(Seq(RouteRecord)) /\ Len(t) = Len(routers) + 1
        /\ DOMAIN t = DOMAIN routers \cup {Len(t)} /\ Len(t) \notin DOMAIN routers
        /\ \A q \in DOMAIN routers : t[q] = routers[q]
        /\ t[Len(t)] = clone
    BY <2>1, <2>2, Appended
  <2> QED
    BY <1>1, <2>1, <2>2, <2>3
<1>5. router' = router /\ RoutersGrow /\ DOMAIN routers \subseteq DOMAIN routers'
  BY <1>1, <1>2, <1>4 DEF router, RoutersGrow
<1>6. /\ setup'[c].at = "cleared" /\ setup'[c].clone = n /\ setup'[c].todo = setup[c].todo
      /\ setup'[c] \in SetupRecord
      /\ \A d \in Calls : d # c => setup'[d] = setup[d]
  BY <1>0, <1>1, <1>4 DEF BridgesTyped, SetupRecord
<1>7. s \in Services /\ keys \subseteq Keys
  BY <1>0, <1>1 DEF SetupForm, SetupOf, BridgesTyped
<1>8. /\ \A k \in Keys : handlers'[k] = IF k \in keys THEN Nil ELSE handlers[k]
      /\ endpoints'[s] = {}
      /\ \A t \in Services : t # s => endpoints'[t] = endpoints[t]
  BY <1>0, <1>1, <1>7 DEF BridgesTyped
<1>9. BridgesTyped'
  <2>1. setup' \in [Calls -> SetupRecord]
    BY <1>0, <1>1, <1>6 DEF BridgesTyped
  <2>2. handlers' \in [Keys -> HandlerRecord \cup {Nil}]
    BY <1>0, <1>1 DEF BridgesTyped
  <2>3. endpoints' \in [Services -> SUBSET Keys]
    BY <1>0, <1>1 DEF BridgesTyped
  <2>4. start' \in [at : {"off", "read", "done"}, router : DOMAIN routers']
    BY <1>0, <1>1, <1>5 DEF BridgesTyped
  <2> QED
    BY <1>0, <1>1, <1>4, <2>1, <2>2, <2>3, <2>4 DEF BridgesTyped
<1>10. HandlersFormed'
  <2>1. RoutesFormed(call, clone)
    BY <1>0, <1>2, <1>3 DEF HandlersFormed, RoutesFormed
  <2>2. \A q \in DOMAIN routers' : RoutesFormed(call, routers'[q])
    BY <1>0, <1>4, <2>1 DEF HandlersFormed
  <2>3. \A k \in Keys : Sound(call, handlers'[k], k) /\ Sound(call, originals[k], k)
    BY <1>0, <1>8 DEF HandlersFormed, Sound
  <2> QED
    BY <1>0, <1>1, <2>2, <2>3 DEF HandlersFormed
<1>11. SetupForm' /\ SettingForm'
  <2>1. SetupOf(c)'
    BY <1>0, <1>1, <1>4, <1>6 DEF SetupForm, SetupOf
  <2>2. \A d \in Calls : d # c => SetupOf(d)'
    BY <1>0, <1>5, <1>6, SetupStays DEF SetupForm
  <2> QED
    BY <1>0, <1>1, <1>5, <2>1, <2>2 DEF SetupForm, SettingForm
<1>12. SameStages
  BY <1>1 DEF SameStages
<1>13. FetchedForm' /\ \A l : SameWrites(l)
  BY <1>0, <1>1, <1>5, <1>12, FetchedStays
<1>14. \A k \in keys : handlers[k] # Nil
  BY <1>0, <1>7 DEF EndpointsApart
<1>15. EndpointsApart'
  <2>0. \A t \in Services : endpoints[t] \subseteq Keys
    BY <1>0 DEF BridgesTyped
  <2>1. \A t, u \in Services : t # u => endpoints'[t] \cap endpoints'[u] = {}
    BY <1>0, <1>8 DEF EndpointsApart
  <2>2. ASSUME NEW t \in Services, NEW k \in endpoints'[t] PROVE handlers'[k] # Nil
    <3>1. t # s /\ k \in endpoints[t] /\ k \in Keys
      BY <1>8, <2>0, <2>2
    <3>2. k \notin keys
      BY <1>0, <1>7, <3>1 DEF EndpointsApart
    <3> QED
      BY <1>0, <1>8, <3>1, <3>2 DEF EndpointsApart
  <2>3. ASSUME NEW k \in Keys \ torn', handlers'[k] # Nil
        PROVE  \E t \in Services : k \in endpoints'[t]
    <3>1. k \notin torn /\ k \notin keys /\ handlers[k] # Nil
      BY <1>1, <1>8, <2>3
    <3>2. PICK t \in Services : k \in endpoints[t]
      BY <1>0, <3>1 DEF EndpointsApart
    <3> QED
      BY <1>8, <3>1, <3>2
  <2>4. \A t \in Services : endpoints'[t] # {} => t \in bridged'
    BY <1>0, <1>1, <1>8 DEF EndpointsApart
  <2> QED
    BY <2>1, <2>2, <2>3, <2>4 DEF EndpointsApart
<1>16. OwnHandlers'
  <2> SUFFICES ASSUME NEW k \in Keys \ (stale' \cup torn'), handlers'[k] # Nil
               PROVE  handlers'[k].builder # None /\ k \in endpoints'[handlers'[k].service]
    BY DEF OwnHandlers
  <2>1. k \notin keys /\ k \notin stale /\ k \notin torn /\ handlers'[k] = handlers[k]
    BY <1>1, <1>8
  <2>2. handlers[k].builder # None /\ k \in endpoints[handlers[k].service]
    BY <1>0, <2>1 DEF OwnHandlers
  <2>3. HandlerOf(call, handlers[k], k)
    BY <1>0, <2>1 DEF HandlersFormed, Sound
  <2>4. handlers[k].service \in Services
    BY <2>2, <2>3 DEF HandlerOf
  <2> QED
    BY <1>8, <2>1, <2>2, <2>4
<1>17. RoutesServe'
  <2> SUFFICES ASSUME NEW k \in Keys \ torn' PROVE KeyServed(k)'
    BY DEF RoutesServe
  <2> PICK h : h = handlers[k]
    OBVIOUS
  <2>1. CloneUnderWay'
    BY <1>6 DEF CloneUnderWay
  <2>2. KeyServed(k) /\ k \notin torn /\ ~Rehandled(k)
    BY <1>0, <1>1 DEF RoutesServe
  <2>3. setting.key # k /\ setting' = setting
    BY <1>0, <1>1, HandlersAreNotNil DEF SettingForm
  <2>4. Settled(k)
    BY <2>2, <2>3 DEF Settled
  <2>5. ~Rehandled(k)' /\ Settled(k)'
    BY <1>1, <2>2, <2>3 DEF Rehandled, Settled
  <2>6. CloneUnderWay /\ handlers'[k] = Nil => Absent(router, k)
    BY <1>1 DEF Absent
  <2>7. Serves(router, k, h)
    <3>1. CASE CloneUnderWay /\ h = Nil
      <4>1. handlers'[k] = Nil
        BY <1>8, <3>1
      <4>2. Absent(router, k)
        BY <2>6, <3>1, <4>1
      <4> QED
        BY <3>1, <4>2 DEF Serves, Absent, Once
    <3> QED
      BY <2>2, <2>4, <3>1 DEF KeyServed
  <2>8. k \in keys => ~CloneUnderWay
    <3> SUFFICES ASSUME k \in keys, CloneUnderWay PROVE FALSE
      OBVIOUS
    <3>1. h # Nil /\ handlers'[k] = Nil
      BY <1>8, <1>14
    <3>2. ~Absent(router, k)
      BY <2>7, <3>1 DEF Serves
    <3> QED
      BY <2>6, <3>1, <3>2
  <2>9. Serves(clone, k, handlers'[k])
    <3>1. Serves(clone, k, IF k \in keys THEN Nil ELSE h)
      BY <1>2, <2>7, ServesCloned
    <3> QED
      BY <1>8, <3>1
  <2>10. ASSUME NEW d \in Calls, setup'[d].at = "cleared"
         PROVE  Serves(routers'[setup'[d].clone], k, handlers'[k])
    <3>1. CASE d = c
      BY <1>4, <1>6, <2>9, <3>1
    <3>2. CASE d # c
      <4>1. setup'[d] = setup[d] /\ CloneUnderWay /\ setup[d].clone \in DOMAIN routers
        BY <1>0, <1>6, <2>10, <3>2 DEF CloneUnderWay, SetupForm, SetupOf
      <4>2. handlers'[k] = h
        BY <1>8, <2>8, <4>1
      <4>3. Serves(routers[setup[d].clone], k, h)
        BY <2>2, <2>10, <4>1 DEF KeyServed
      <4> QED
        BY <1>4, <4>1, <4>2, <4>3
    <3> QED
      BY <3>1, <3>2
  <2>11. \A q \in DOMAIN routers' : Once(routers'[q], k)
    <3>1. Once(clone, k)
      BY <2>9 DEF Serves
    <3> QED
      BY <1>4, <2>2, <3>1 DEF KeyServed
  <2>12. Serves(router', k, handlers'[k]) \/ (CloneUnderWay' /\ handlers'[k] = Nil)
    BY <1>5, <1>8, <2>1, <2>7
  <2>13. \A d \in Calls : ~(call'[d].at = "written" /\ fetched'[d].key = k)
    BY <2>5 DEF Rehandled
  <2> QED
    BY <2>3, <2>5, <2>10, <2>11, <2>12, <2>13 DEF KeyServed
<1> QED
  BY <1>9, <1>10, <1>11, <1>13, <1>15, <1>16, <1>17 DEF BridgesInv

\* Nothing is at a key while the router is replaced.
LEMMA AllSettled ==
  ASSUME BridgesInv, Unlocked, ~Rewiring, NEW k \in Keys
  PROVE  setting.key # k /\ Settled(k) /\ \A d \in Calls : call[d].at # "written"
<1>1. setting.key # k
  BY HandlersAreNotNil DEF BridgesInv, SettingForm, Unlocked
<1>2. \A d \in Calls : call[d].at # "written"
  BY DEF Rewiring
<1> QED
  BY <1>1, <1>2 DEF Settled, Rehandled

\* Another of the routers becomes the router.
LEMMA LoadedStep ==
  ASSUME RoutesInv, CallsMove, BridgesInv, Unlocked, ~Rewiring,
         loaded' \in DOMAIN routers,
         start' \in [at : {"off", "read", "done"}, router : DOMAIN routers],
         setup' \in [Calls -> SetupRecord], SetupForm',
         \A d \in Calls : setup'[d].at = "cleared" => setup'[d] = setup[d],
         UNCHANGED <<routeVars, routers, mapVars, middlewareVars, stale>>, torn \subseteq torn',
         \A k \in Keys \ torn' :
           \/ Serves(routers[loaded'], k, handlers[k])
           \/ CloneUnderWay' /\ handlers[k] = Nil
  PROVE  BridgesInv'
<1>0. /\ BridgesTyped /\ HandlersFormed /\ SetupForm /\ SettingForm /\ FetchedForm /\ EndpointsApart
      /\ RoutesServe /\ OwnHandlers
  BY DEF BridgesInv
<1>1. UNCHANGED <<call, channels, routers, handlers, endpoints, bridged, setting, originals, fetched>>
  BY DEF routeVars, mapVars, middlewareVars
<1>2. BridgesTyped'
  BY <1>0, <1>1 DEF BridgesTyped
<1>3. HandlersFormed' /\ FetchedForm'
  BY <1>0, <1>1 DEF HandlersFormed, FetchedForm, FetchedOf
<1>4. SettingForm'
  BY <1>0, <1>1 DEF SettingForm, Unlocked
<1>5. EndpointsApart' /\ OwnHandlers'
  BY <1>0, <1>1 DEF EndpointsApart, OwnHandlers
<1>6. RoutesServe'
  <2> SUFFICES ASSUME NEW k \in Keys \ torn' PROVE KeyServed(k)'
    BY DEF RoutesServe
  <2>1. KeyServed(k)
    BY <1>0 DEF RoutesServe
  <2>2. setting.key # k /\ Settled(k) /\ \A d \in Calls : call[d].at # "written"
    BY AllSettled
  <2>3. Settled(k)' /\ setting'.key # k /\ \A d \in Calls : call'[d].at # "written"
    BY <1>1, <2>2 DEF Settled, Rehandled
  <2>4. router' = routers[loaded']
    BY <1>1 DEF router
  <2>5. \A d \in Calls : setup'[d].at = "cleared" => Serves(routers'[setup'[d].clone], k, handlers'[k])
    BY <1>1, <2>1 DEF KeyServed
  <2>6. \A q \in DOMAIN routers' : Once(routers'[q], k)
    BY <1>1, <2>1 DEF KeyServed
  <2>7. Serves(router', k, handlers'[k]) \/ (CloneUnderWay' /\ handlers'[k] = Nil)
    BY <1>1, <2>4
  <2> QED
    BY <2>3, <2>5, <2>6, <2>7 DEF KeyServed
<1> QED
  BY <1>2, <1>3, <1>4, <1>5, <1>6 DEF BridgesInv

LEMMA LoadStep ==
  ASSUME RoutesInv, CallsMove, BridgesInv, NEW c \in Calls, LoadGlobalHttpHandler(c)
  PROVE  BridgesInv'
<1>0. BridgesTyped /\ SetupForm /\ RoutesServe
  BY DEF BridgesInv
<1> PICK n : n = setup[c].clone
  OBVIOUS
<1>1. /\ Unlocked /\ ~Rewiring /\ setup[c].at = "cleared" /\ loaded' = n
      /\ setup' = [setup EXCEPT ![c].at = "setting", ![c].clone = 0]
      /\ UNCHANGED <<routeVars, routers, start, mapVars, middlewareVars, torn, stale>>
  BY DEF LoadGlobalHttpHandler
<1>2. n \in DOMAIN routers
  BY <1>0, <1>1 DEF SetupForm, SetupOf
<1>3. /\ setup'[c].at = "setting" /\ setup'[c].clone = 0 /\ setup'[c].todo = setup[c].todo
      /\ setup'[c] \in SetupRecord
      /\ \A d \in Calls : d # c => setup'[d] = setup[d]
  BY <1>0, <1>1 DEF BridgesTyped, SetupRecord
<1>4. setup' \in [Calls -> SetupRecord]
  BY <1>0, <1>1, <1>3 DEF BridgesTyped
<1>5. call' = call
  BY <1>1 DEF routeVars
<1>6. SetupForm'
  <2>1. SetupOf(c)'
    <3>1. /\ call[c].service \in Services /\ call[c].at # "registered"
          /\ \A i \in DOMAIN setup[c].todo : setup[c].todo[i] \in BridgesFor(call[c].service)
      BY <1>0, <1>1 DEF SetupForm, SetupOf
    <3> QED
      BY <1>3, <1>5, <3>1 DEF SetupOf
  <2>2. \A d \in Calls : d # c => SetupOf(d)'
    BY <1>0, <1>1, <1>3, SetupStays DEF SetupForm
  <2> QED
    BY <2>1, <2>2 DEF SetupForm
<1>7. \A d \in Calls : setup'[d].at = "cleared" => setup'[d] = setup[d]
  BY <1>3
<1>8. start' \in [at : {"off", "read", "done"}, router : DOMAIN routers]
  BY <1>0, <1>1 DEF BridgesTyped
<1>9. \A k \in Keys \ torn' : Serves(routers[loaded'], k, handlers[k])
  BY <1>0, <1>1 DEF RoutesServe, KeyServed
<1> QED
  BY <1>1, <1>2, <1>4, <1>6, <1>7, <1>8, <1>9, LoadedStep

\* A router with as many routes of a key, each of them once, serves it alike.
LEMMA AlikeServes ==
  ASSUME NEW routes, NEW others, NEW k, NEW h, Once(others, k), Serves(routes, k, h),
         {others[i] : i \in {j \in DOMAIN others : others[j].name = k}}
           = {routes[i] : i \in {j \in DOMAIN routes : routes[j].name = k}}
  PROVE  Serves(others, k, h)
<1>1. \A i \in DOMAIN others : others[i].name = k =>
        \E j \in DOMAIN routes : routes[j].name = k /\ routes[j] = others[i]
  OBVIOUS
<1>2. \A i \in DOMAIN routes : routes[i].name = k =>
        \E j \in DOMAIN others : others[j].name = k /\ others[j] = routes[i]
  OBVIOUS
<1> QED
  BY <1>1, <1>2 DEF Serves, Absent

LEMMA LoadAtStartStep ==
  ASSUME RoutesInv, CallsMove, BridgesInv, LoadAtStart
  PROVE  BridgesInv'
<1> DEFINE RoutesNamed(r, k) == {routers[r][i] : i \in {j \in DOMAIN routers[r] : routers[r][j].name = k}}
<1>0. BridgesTyped /\ SetupForm /\ RoutesServe
  BY DEF BridgesInv
<1>1. /\ Unlocked /\ ~Rewiring /\ loaded' = start.router
      /\ start' = [start EXCEPT !.at = "done"]
      /\ torn' = torn \cup {k \in Keys : RoutesNamed(start.router, k) # RoutesNamed(loaded, k)}
      /\ UNCHANGED <<routeVars, setup, routers, mapVars, middlewareVars, stale>>
  BY DEF LoadAtStart
<1>2. start.router \in DOMAIN routers
  BY <1>0 DEF BridgesTyped
<1>3. start' \in [at : {"off", "read", "done"}, router : DOMAIN routers]
  BY <1>0, <1>1 DEF BridgesTyped
<1>4. setup' \in [Calls -> SetupRecord] /\ call' = call
  BY <1>0, <1>1 DEF BridgesTyped, routeVars
<1>5. SetupForm'
  BY <1>0, <1>1, <1>4 DEF SetupForm, SetupOf
<1>6. ASSUME NEW k \in Keys \ torn'
      PROVE  \/ Serves(routers[loaded'], k, handlers[k])
             \/ CloneUnderWay' /\ handlers[k] = Nil
  <2>1. k \notin torn /\ RoutesNamed(start.router, k) = RoutesNamed(loaded, k)
    BY <1>1
  <2>2. KeyServed(k) /\ Settled(k)
    BY <1>0, <1>1, <2>1, AllSettled DEF RoutesServe
  <2>3. CloneUnderWay' <=> CloneUnderWay
    BY <1>1 DEF CloneUnderWay
  <2>4. Once(routers[start.router], k)
    BY <1>2, <2>2 DEF KeyServed
  <2>5. CASE Serves(router, k, handlers[k])
    <3>1. Serves(routers[loaded], k, handlers[k])
      BY <2>5 DEF router
    <3>2. Serves(routers[start.router], k, handlers[k])
      BY <2>1, <2>4, <3>1, AlikeServes
    <3> QED
      BY <1>1, <3>2
  <2> QED
    BY <2>2, <2>3, <2>5 DEF KeyServed
<1>7. torn \subseteq torn'
  BY <1>1
<1> HIDE DEF RoutesNamed
<1> QED
  BY <1>1, <1>2, <1>3, <1>4, <1>5, <1>6, <1>7, LoadedStep

LEMMA RegistryFetches ==
  ASSUME RoutesInv, RegistryStep
  PROVE  SameStages /\ channels \subseteq channels'
<1>0. CallsTyped
  BY RoutesFacts
<1>1. ASSUME NEW c \in Calls, NEW s \in Services, Register(c, s) \/ Unregister(c, s)
      PROVE  SameStages /\ channels \subseteq channels'
  <2>1. Make(c, "register", s, "registered") \/ Make(c, "unregister", s, "removed")
    BY <1>1 DEF Register, Unregister
  <2>2. SameStages
    BY <1>0, <2>1, MakeFetches DEF Stages
  <2> QED
    BY <1>1, <2>2 DEF Register, Unregister
<1>2. ASSUME NEW c \in Calls, RouteStep(c)
      PROVE  SameStages /\ channels \subseteq channels'
  <2>1. (Proceed(c, "done") \/ Proceed(c, "refused")) /\ channels' = channels /\ call[c].at \notin Stages
    BY <1>2 DEF RouteStep, PendRoute, RegisterRoute, RefuseRoute, Withdraw, RemoveRoute, Stages
  <2>2. SameStages
    BY <1>0, <2>1, ProceedFetches DEF Stages
  <2> QED
    BY <2>1, <2>2
<1>3. ASSUME EndpointStep PROVE SameStages /\ channels \subseteq channels'
  <2>1. call' = call /\ channels' = channels
    BY <1>3 DEF EndpointStep, ServerStep, SetEndpoint, DrainPendingRoutes, CloseRouter, DropEndpoint
  <2> QED
    BY <2>1 DEF SameStages
<1> QED
  BY <1>1, <1>2, <1>3 DEF RegistryStep

\* Every step, as far as the endpoints go.
LEMMA BridgesMove ==
  ASSUME RoutesInv, BridgesInv, [Next]_vars
  PROVE  BridgesInv'
<1>0. CallsMove
  BY RoutesMove
<1>1. ASSUME RegistryStep PROVE BridgesInv'
  <2>1. UNCHANGED bridgeVars
    BY <1>1 DEF RegistryStep
  <2> QED
    BY <1>0, <1>1, <2>1, RegistryFetches, UnchangedBridges
<1>2. ASSUME PublishRoute \/ SetRouteHandler \/ ReadRouter \/ LoadAtStart PROVE BridgesInv'
  BY <1>0, <1>2, PublishRouteStep, SetRouteHandlerStep, ReadRouterStep, LoadAtStartStep
<1>3. ASSUME NEW c \in Calls,
             \/ AnnounceBridges(c) \/ Clear(c) \/ LoadGlobalHttpHandler(c)
             \/ SetHttpChannelBridge(c)
             \/ SetNewMiddleware(c) \/ RemoveMiddleware(c) \/ RefuseMiddleware(c)
             \/ WriteHandler(c) \/ RouteHandler(c)
      PROVE  BridgesInv'
  BY <1>0, <1>3, AnnounceBridgesStep, ClearStep, LoadStep, AnnouncedBridgeStep, CheckStep,
     RefuseMiddlewareStep, WriteHandlerStep, RouteHandlerStep
<1>4. ASSUME NEW c \in Calls, NEW s \in Services, NEW b \in OverridesOf[s],
             OverrideRESTBridgeConfig(c, s, b)
      PROVE  BridgesInv'
  BY <1>0, <1>4, OverrideStep
<1>5. ASSUME NEW c \in Calls, NEW s \in Services, NEW b \in ByHandOf[s], BridgeByHand(c, s, b)
      PROVE  BridgesInv'
  BY <1>0, <1>5, BridgeByHandStep
<1>6. ASSUME NEW c \in Calls, NEW k \in Keys, GetRoute(c, "wrap", k) \/ GetRoute(c, "unwrap", k)
      PROVE  BridgesInv'
  BY <1>0, <1>6, GetRouteStep
<1>7. ASSUME NEW h, NEW m, NEW p, NEW s,
             \/ SendRequest(h, m, p) \/ SendResponse(h) \/ ReceiveResponse(h) \/ TimeOut(h)
             \/ BridgeMessage(h, s) \/ UNCHANGED vars
      PROVE  BridgesInv'
  <2>1. UNCHANGED routeVars /\ UNCHANGED bridgeVars
    BY <1>7 DEF SendRequest, SendResponse, ReceiveResponse, TimeOut, BridgeMessage, AsksFor, vars
  <2>2. call' = call /\ channels' = channels
    BY <2>1 DEF routeVars
  <2>3. SameStages
    BY <2>2 DEF SameStages
  <2> QED
    BY <1>0, <2>1, <2>2, <2>3, UnchangedBridges
<1> QED
  BY <1>1, <1>2, <1>3, <1>4, <1>5, <1>6, <1>7 DEF Next

\* The routes of the router as the lemmas on Dispatch need them.
LEMMA RouterIsRouted ==
  ASSUME BridgesInv
  PROVE  /\ router \in Seq(RouteRecord)
         /\ \A i \in DOMAIN router : Routed(router[i]) /\ RouteForm(call, router[i])
                                     /\ router[i].name \in Keys
<1>1. router \in Seq(RouteRecord) /\ RoutesFormed(call, router)
  BY DEF BridgesInv, BridgesTyped, HandlersFormed, router
<1>2. ASSUME NEW i \in DOMAIN router
      PROVE  Routed(router[i]) /\ RouteForm(call, router[i]) /\ router[i].name \in Keys
  <2> PICK rt : rt = router[i]
    OBVIOUS
  <2>1. rt \in RouteRecord
    BY <1>1
  <2>2. RouteForm(call, rt)
    BY <1>1 DEF RoutesFormed
  <2>3. /\ rt.path \in Paths /\ rt.prefix \in BOOLEAN /\ rt.name \in Keys /\ rt.methods \subseteq Verbs
    BY <2>1 DEF RouteRecord
  <2>4. rt.path \in Seq(STRING) /\ AnyMethod \notin rt.methods
    BY <2>3, PathAssumption, VerbsAreNamed
  <2>5. rt.prefix <=> rt.methods = {}
    BY <2>2 DEF RouteForm, RouteShape
  <2>6. Routed(rt)
    BY <2>3, <2>4, <2>5 DEF Routed
  <2> QED
    BY <2>2, <2>3, <2>6
<1> QED
  BY <1>1, <1>2

\* A request that is answered is for the service of the handler, unless that
\* is broken.
LEMMA SendRequestStep ==
  ASSUME BridgesInv, HttpInv, NEW h \in Requests, NEW m, NEW p \in Paths, SendRequest(h, m, p)
  PROVE  HttpInv'
<1>1. p \in Seq(STRING)
  BY PathAssumption
<1> PICK answer : answer = Dispatch(router, m, p)
  OBVIOUS
<1>2. answer.code = 200 /\ answer.handler.service # None /\ AsksFor(h, answer.handler.service, "waiting")
  BY DEF SendRequest
<1>3. PICK i \in DOMAIN router : answer = Answer(200, router[i].handler) /\ router[i].handler # Nil
  BY <1>1, <1>2, RouterIsRouted, AnswerIsOfRoute DEF AnsweredBy
<1> PICK g : g = router[i].handler
  OBVIOUS
<1>4. answer.handler = g
  BY <1>3 DEF Answer
<1>5. HandlerOf(call, g, router[i].name)
  BY <1>3, RouterIsRouted DEF RouteForm, Sound
<1>6. g.service \in Services
  BY <1>2, <1>4, <1>5 DEF HandlerOf
<1> QED
  BY <1>2, <1>4, <1>6, AskStep

\* Every step, as far as the requests go.
LEMMA HttpMove ==
  ASSUME RoutesInv, BridgesInv, HttpInv, [Next]_vars
  PROVE  HttpInv'
<1>1. ASSUME RegistryStep PROVE HttpInv'
  BY <1>1, UnchangedHttp DEF RegistryStep, bridgeVars, mapVars
<1>2. ASSUME PublishRoute \/ SetRouteHandler \/ ReadRouter \/ LoadAtStart PROVE HttpInv'
  <2>1. UNCHANGED httpVars /\ bridged' = bridged
    BY <1>2 DEF PublishRoute, SetRouteHandler, ReadRouter, LoadAtStart, mapVars
  <2> QED
    BY <2>1, UnchangedHttp
<1>3. ASSUME NEW c \in Calls,
             \/ AnnounceBridges(c) \/ Clear(c) \/ LoadGlobalHttpHandler(c)
             \/ SetNewMiddleware(c) \/ RemoveMiddleware(c) \/ RefuseMiddleware(c)
             \/ WriteHandler(c) \/ RouteHandler(c)
      PROVE  HttpInv'
  <2>1. UNCHANGED httpVars /\ bridged' = bridged
    BY <1>3 DEF AnnounceBridges, Clear, LoadGlobalHttpHandler, SetNewMiddleware, RemoveMiddleware,
                RefuseMiddleware, WriteHandler, RouteHandler, MiddlewareStep, mapVars
  <2> QED
    BY <2>1, UnchangedHttp
<1>4. ASSUME NEW c \in Calls, SetHttpChannelBridge(c) PROVE HttpInv'
  <2>1. UNCHANGED httpVars /\ bridged \subseteq bridged'
    BY <1>4 DEF SetHttpChannelBridge, SetBridge, StoreBridge, mapVars
  <2> QED
    BY <2>1, UnchangedHttp
<1>5. ASSUME NEW c \in Calls, NEW s \in Services, NEW b,
             OverrideRESTBridgeConfig(c, s, b) \/ BridgeByHand(c, s, b)
      PROVE  HttpInv'
  <2>1. UNCHANGED httpVars /\ bridged \subseteq bridged'
    BY <1>5 DEF OverrideRESTBridgeConfig, BridgeByHand, SetBridge, StoreBridge, mapVars
  <2> QED
    BY <2>1, UnchangedHttp
<1>6. ASSUME NEW c, NEW k, GetRoute(c, "wrap", k) \/ GetRoute(c, "unwrap", k) PROVE HttpInv'
  <2>1. UNCHANGED httpVars /\ bridged' = bridged
    BY <1>6 DEF GetRoute, mapVars
  <2> QED
    BY <2>1, UnchangedHttp
<1>7. ASSUME NEW h \in Requests, NEW m \in Methods, NEW p \in Paths, SendRequest(h, m, p)
      PROVE  HttpInv'
  BY <1>7, SendRequestStep
<1>8. ASSUME NEW h \in Requests, SendResponse(h) \/ ReceiveResponse(h) \/ TimeOut(h)
      PROVE  HttpInv'
  BY <1>8, SendResponseStep, ReceiveResponseStep, TimeOutStep
<1>9. ASSUME NEW h \in Requests, NEW s \in Services, BridgeMessage(h, s) PROVE HttpInv'
  BY <1>9, AskStep DEF BridgeMessage
<1>10. ASSUME UNCHANGED vars PROVE HttpInv'
  BY <1>10, UnchangedHttp DEF vars, bridgeVars, mapVars
<1> QED
  BY <1>1, <1>2, <1>3, <1>4, <1>5, <1>6, <1>7, <1>8, <1>9, <1>10 DEF Next

(***************************************************************************)
(* The theorems.                                                           *)
(***************************************************************************)
IInv == RoutesInv /\ BridgesInv /\ HttpInv

\* Handlers have no more layers than there are calls.
LEMMA HandlerTypes ==
  ASSUME NEW h, NEW k, Sound(call, h, k)
  PROVE  h \in HandlerType
<1> SUFFICES ASSUME h # Nil PROVE h \in HandlerType
  BY DEF HandlerType
<1>1. Wraps(call) \in SUBSET Calls
  BY DEF Wraps
<1>2. /\ Cardinality(Wraps(call)) \in Nat /\ Cardinality(Calls) \in Nat
      /\ Cardinality(Wraps(call)) <= Cardinality(Calls)
  BY <1>1, CallsAssumption, FS_Subset, FS_CardinalityType
<1>3. h \in HandlerRecord /\ h.layers <= Cardinality(Wraps(call))
  BY DEF Sound, HandlerOf
<1>4. h.layers \in 0..Cardinality(Calls)
  BY <1>2, <1>3 DEF HandlerRecord
<1> QED
  BY <1>3, <1>4 DEF HandlerRecord, HandlerType

LEMMA TypesHold ==
  ASSUME IInv
  PROVE  TypeOK
<1>0. /\ BridgesTyped /\ HandlersFormed /\ SetupForm /\ FetchedForm /\ EndpointsApart /\ RequestsTyped
      /\ RoutesTypeOK
  BY DEF IInv, BridgesInv, HttpInv, RoutesInv
<1>1. ASSUME NEW c \in Calls
      PROVE  /\ setup[c].at \in {"none", "new", "cleared", "setting", "done"}
             /\ Range(setup[c].todo) \subseteq ExactBridges
             /\ setup[c].clone \in (IF setup[c].at = "cleared" THEN DOMAIN routers ELSE {0})
             /\ fetched[c].key # Nil => /\ fetched[c].router \in DOMAIN routers
                                        /\ fetched[c].index \in DOMAIN routers[fetched[c].router]
  <2>1. setup[c] \in SetupRecord
    BY <1>0 DEF BridgesTyped
  <2>2. /\ setup[c].at \in {"none", "new", "cleared", "setting", "done"}
        /\ setup[c].todo \in Seq(ExactBridges)
    BY <2>1 DEF SetupRecord
  <2>3. Range(setup[c].todo) \subseteq ExactBridges
    BY <2>2 DEF Range
  <2> QED
    BY <1>0, <2>2, <2>3 DEF SetupForm, SetupOf, FetchedForm, FetchedOf
<1>2. ASSUME NEW r \in DOMAIN routers, NEW i \in DOMAIN routers[r]
      PROVE  routers[r][i].name \in Keys /\ routers[r][i].handler \in HandlerType
  <2> PICK rt : rt = routers[r][i]
    OBVIOUS
  <2>1. routers[r] \in Seq(RouteRecord)
    BY <1>0 DEF BridgesTyped
  <2>2. rt \in RouteRecord
    BY <2>1
  <2>3. Sound(call, rt.handler, rt.name)
    BY <1>0 DEF HandlersFormed, RoutesFormed, RouteForm
  <2>4. rt.name \in Keys
    BY <2>2 DEF RouteRecord
  <2> QED
    BY <2>3, <2>4, HandlerTypes
<1>3. handlers \in [Keys -> HandlerType] /\ originals \in [Keys -> HandlerType]
  <2>1. \A k \in Keys : handlers[k] \in HandlerType /\ originals[k] \in HandlerType
    BY <1>0, HandlerTypes DEF HandlersFormed
  <2> QED
    BY <1>0, <2>1 DEF BridgesTyped
<1>4. /\ \A s, t \in Services : s # t => endpoints[s] \cap endpoints[t] = {}
      /\ UNION {endpoints[s] : s \in Services} \subseteq {k \in Keys : handlers[k] # Nil}
      /\ {k \in Keys \ torn : handlers[k] # Nil} \subseteq UNION {endpoints[s] : s \in Services}
      /\ {s \in Services : endpoints[s] # {}} \subseteq bridged /\ bridged \subseteq channels
  <2>1. \A s \in Services : endpoints[s] \subseteq Keys
    BY <1>0 DEF BridgesTyped
  <2>2. UNION {endpoints[s] : s \in Services} \subseteq {k \in Keys : handlers[k] # Nil}
    BY <1>0, <2>1 DEF EndpointsApart
  <2>3. {k \in Keys \ torn : handlers[k] # Nil} \subseteq UNION {endpoints[s] : s \in Services}
    BY <1>0 DEF EndpointsApart
  <2> QED
    BY <1>0, <2>2, <2>3 DEF EndpointsApart, BridgesTyped
<1>5. /\ request \in [Requests -> [at : {"unsent", "waiting", "done", "foreign"},
                                   service : Services \cup {None}, owed : BOOLEAN,
                                   got : Requests \cup {None}]]
      /\ \A s \in Services : Len(payload[s]) =< PayloadCap /\ (payload[s] # <<>> => s \in bridged)
  BY <1>0 DEF RequestsTyped, RequestRecord
<1>6. loaded \in DOMAIN routers /\ start.router \in DOMAIN routers
  BY <1>0 DEF BridgesTyped
<1> QED
  BY <1>0, <1>1, <1>2, <1>3, <1>4, <1>5, <1>6 DEF TypeOK

\* What EndpointsAreServed says of an endpoint k.
LEMMA EndpointIsServed ==
  ASSUME BridgesInv, ~CloneUnderWay, NEW k \in Keys \ torn, Settled(k)
  PROVE  /\ (\E i \in DOMAIN router : router[i].name = k) <=> handlers[k] # Nil
         /\ \A i \in DOMAIN router : router[i].name = k =>
              /\ handlers[k] # Nil /\ HandlerOf(call, handlers[k], k) /\ router[i].handler = handlers[k]
              /\ \A j \in DOMAIN router : router[j].name = k => i = j
              /\ k \notin stale => /\ handlers[k].bridge = k
                                   /\ k \in endpoints[handlers[k].service]
<1>1. Serves(router, k, handlers[k])
  BY DEF BridgesInv, RoutesServe, KeyServed
<1>2. handlers[k] # Nil => HandlerOf(call, handlers[k], k)
  BY DEF BridgesInv, HandlersFormed, Sound
<1>3. handlers[k] # Nil /\ k \notin stale =>
        handlers[k].builder # None /\ k \in endpoints[handlers[k].service]
  BY DEF BridgesInv, OwnHandlers
<1>4. handlers[k] # Nil /\ k \notin stale => handlers[k].bridge = k
  BY <1>2, <1>3 DEF HandlerOf
<1>5. (\E i \in DOMAIN router : router[i].name = k) <=> handlers[k] # Nil
  BY <1>1 DEF Serves, Absent
<1>6. \A i \in DOMAIN router : router[i].name = k =>
        /\ handlers[k] # Nil /\ router[i].handler = handlers[k]
        /\ \A j \in DOMAIN router : router[j].name = k => i = j
  BY <1>1 DEF Serves, Once
<1> QED
  BY <1>2, <1>3, <1>4, <1>5, <1>6

\* An endpoint is given its handler: no route of another endpoint is a rival
\* for a method which those of its path do not have.
LEMMA EndpointAnswers ==
  ASSUME BridgesInv, ~CloneUnderWay, NEW k \in Keys \ torn, Settled(k),
         NEW i \in DOMAIN router, router[i].name = k, NEW m \in Methods,
         router[i].methods = {} \/ m \in router[i].methods,
         \A j \in DOMAIN router : router[j].name # k /\ router[j].path = k.path =>
           m \notin router[j].methods /\ ~(m = "HEAD" /\ "GET" \in router[j].methods)
  PROVE  Dispatch(router, m, k.path) = Answer(200, handlers[k])
<1> PICK path : path = k.path
  OBVIOUS
<1>1. path \in Seq(STRING) /\ m # AnyMethod
  BY KeyFields, PathAssumption
<1>2. /\ router \in Seq(RouteRecord)
      /\ \A j \in DOMAIN router : Routed(router[j]) /\ RouteForm(call, router[j])
                                  /\ router[j].name \in Keys
  BY RouterIsRouted
<1>3. path = router[i].path
  BY <1>2 DEF RouteForm, RouteShape
<1>4. /\ router[i].handler = handlers[k] /\ handlers[k] # Nil
      /\ \A j \in DOMAIN router : router[j].name = k => i = j
  BY EndpointIsServed
<1>5. NoRival(router, i, m)
  <2> SUFFICES ASSUME NEW j \in DOMAIN router \ {i}, router[j].path = router[i].path
               PROVE  ~(router[j].methods = {} /\ router[i].methods = {})
    BY <1>3, <1>4 DEF NoRival
  <2> SUFFICES ASSUME router[j].methods = {}, router[i].methods = {} PROVE FALSE
    OBVIOUS
  <2> PICK l : l = router[j].name
    OBVIOUS
  <2>1. l \in Keys /\ l.path = path
    BY <1>2, <1>3 DEF RouteForm, RouteShape
  <2>2. l.method = AllMethodsWildcard /\ k.method = AllMethodsWildcard
    <3>1. RouteShape(router[i]) /\ RouteShape(router[j])
      BY <1>2 DEF RouteForm
    <3> QED
      BY <3>1 DEF RouteShape
  <2>3. l = Key(l.path, l.method) /\ k = Key(k.path, k.method)
    BY <2>1, KeyFields
  <2>4. l = k
    BY <2>1, <2>2, <2>3
  <2> QED
    BY <1>4, <2>4
<1>6. Asked(router, i, m, path)
  BY <1>1, <1>3, <1>4, <1>5 DEF Asked
<1>7. Dispatch(router, m, path) = Answer(200, router[i].handler)
  BY <1>1, <1>2, <1>6, RouteAnswers
<1> QED
  BY <1>4, <1>7

\* An endpoint whose handler is its own takes no method that its route does not
\* have.
LEMMA EndpointRefuses ==
  ASSUME BridgesInv, ~CloneUnderWay, NEW k \in Keys \ torn, Settled(k),
         NEW i \in DOMAIN router, router[i].name = k, NEW m \in Methods,
         ~(router[i].methods = {} \/ m \in router[i].methods), handlers[k].bridge = k
  PROVE  Dispatch(router, m, k.path).handler # handlers[k]
<1> PICK path : path = k.path
  OBVIOUS
<1> PICK answer : answer = Dispatch(router, m, path)
  OBVIOUS
<1>1. path \in Seq(STRING)
  BY KeyFields, PathAssumption
<1>2. /\ router \in Seq(RouteRecord)
      /\ \A j \in DOMAIN router : Routed(router[j]) /\ RouteForm(call, router[j])
                                  /\ router[j].name \in Keys
  BY RouterIsRouted
<1>3. handlers[k] # Nil /\ \A j \in DOMAIN router : router[j].name = k => i = j
  BY EndpointIsServed
<1>4. \/ answer.handler = Nil
      \/ AnsweredBy(router, m, answer)
  BY <1>1, <1>2, AnswerIsOfRoute
<1>5. ASSUME NEW j \in DOMAIN router, router[j].methods = {} \/ m \in router[j].methods,
             answer = Answer(200, router[j].handler)
      PROVE  answer.handler # handlers[k]
  <2> SUFFICES ASSUME answer.handler = handlers[k] PROVE FALSE
    OBVIOUS
  <2>1. router[j].handler = handlers[k]
    BY <1>5 DEF Answer
  <2>2. HandlerOf(call, handlers[k], router[j].name)
    BY <1>2, <1>3, <2>1 DEF RouteForm, Sound
  <2>3. router[j].name = k
    BY <2>2, HandlersAreNotNil DEF HandlerOf
  <2>4. j = i
    BY <1>3, <2>3
  <2> QED
    BY <1>5, <2>4
<1> QED
  BY <1>3, <1>4, <1>5 DEF AnsweredBy

\* The inductive invariant: the account of the routes of services, the shape of
\* handlers, routes and clones, and what becomes of a response.
THEOREM Invariant == Spec => []IInv
<1>1. Init => IInv
  BY InitRoutes, InitBridges, InitHttp DEF Init, IInv
<1>2. IInv /\ [Next]_vars => IInv'
  BY RoutesMove, BridgesMove, HttpMove DEF IInv
<1> QED
  BY <1>1, <1>2, PTL DEF Spec

\* The maps of the REST bridge registry: an endpoint is one of one service at
\* most, whose response stream exists, and it has a handler (SetBridge,
\* ClearForService); a handler without endpoint is left only where a key was
\* changed in the middle of another change of it, as when the middleware manager
\* writes a handler back that was cleared after it had looked at it.  Every
\* route that a middleware call holds, and every clone, exists; and no payload
\* channel exceeds its capacity.
THEOREM TypeCorrect == Spec => []TypeOK
<1>1. IInv => TypeOK
  BY TypesHold
<1> QED
  BY <1>1, Invariant, PTL

\* A registered service has one route, in the router or pending, and one that is
\* not registered has none, when none of its calls is running and none was
\* overtaken by UnregisterService (RegisterService, UnregisterService,
\* drainPendingRoutes).
THEOREM RoutesFollow == Spec => []RoutesFollowServices
<1>1. IInv => RoutesFollowServices
  BY RoutesAreRight DEF IInv
<1> QED
  BY <1>1, Invariant, PTL

\* Between the replacements of the router, an endpoint that neither set nor the
\* middleware manager is at is given its handler for its methods and for no
\* other, and the handler is that of the service that set it, if it was never
\* changed in the middle of another change (RestBridgeRegistry, MiddlewareManager,
\* loadGlobalHttpHandler, ServeHTTP).
THEOREM EndpointsServed == Spec => []EndpointsAreServed
<1>1. IInv => EndpointsAreServed
  <2> SUFFICES ASSUME BridgesInv, ~CloneUnderWay, NEW k \in Keys \ torn,
                      setting.key # k, ~Rehandled(k)
               PROVE  LET routes == {i \in DOMAIN router : router[i].name = k}
                          takes(i, m) == router[i].methods = {} \/ m \in router[i].methods
                          others(m) == {i \in DOMAIN router \ routes :
                                          router[i].path = k.path
                                            /\ (m \in router[i].methods
                                                 \/ (m = "HEAD" /\ "GET" \in router[i].methods))}
                      IN  /\ routes # {} <=> handlers[k] # Nil
                          /\ \A i \in routes, m \in Methods :
                               /\ takes(i, m) => \/ Dispatch(router, m, k.path) = Answer(200, handlers[k])
                                                 \/ others(m) # {}
                               /\ ~takes(i, m) /\ handlers[k].bridge = k =>
                                    Dispatch(router, m, k.path).handler # handlers[k]
                          /\ routes # {} /\ k \notin stale =>
                               handlers[k].bridge = k /\ k \in endpoints[handlers[k].service]
    BY DEF IInv, EndpointsAreServed
  <2> DEFINE routes == {i \in DOMAIN router : router[i].name = k}
             takes(i, m) == router[i].methods = {} \/ m \in router[i].methods
             others(m) == {i \in DOMAIN router \ routes :
                             router[i].path = k.path
                               /\ (m \in router[i].methods \/ (m = "HEAD" /\ "GET" \in router[i].methods))}
  <2>0. Settled(k)
    BY DEF Settled
  <2>1. routes # {} <=> handlers[k] # Nil
    BY <2>0, EndpointIsServed
  <2>2. routes # {} /\ k \notin stale => handlers[k].bridge = k /\ k \in endpoints[handlers[k].service]
    BY <2>0, EndpointIsServed
  <2>3. ASSUME NEW i \in routes, NEW m \in Methods, takes(i, m), others(m) = {}
        PROVE  Dispatch(router, m, k.path) = Answer(200, handlers[k])
    <3>1. \A j \in DOMAIN router : router[j].name # k /\ router[j].path = k.path =>
            m \notin router[j].methods /\ ~(m = "HEAD" /\ "GET" \in router[j].methods)
      BY <2>3
    <3> QED
      BY <2>0, <2>3, <3>1, EndpointAnswers
  <2>4. ASSUME NEW i \in routes, NEW m \in Methods, ~takes(i, m), handlers[k].bridge = k
        PROVE  Dispatch(router, m, k.path).handler # handlers[k]
    BY <2>0, <2>4, EndpointRefuses
  <2> HIDE DEF routes, takes, others
  <2> QED
    BY <2>1, <2>2, <2>3, <2>4 DEF routes, takes, others
<1> QED
  BY <1>1, Invariant, PTL

\* A response is given to one request at most, of its service; to the one it
\* answers unless the service has ever had two requests open or a response that
\* nobody waited for (buildEndpointHandler).
THEOREM OwnResponse == Spec => []OwnAnswer
<1>1. IInv => OwnAnswer
  BY DEF IInv, HttpInv
<1> QED
  BY <1>1, Invariant, PTL
=============================================================================
