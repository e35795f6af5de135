------------------------- MODULE ProjectQuotaProofs -------------------------
(***************************************************************************)
(* Proofs about ProjectQuota, for any cluster and any quotas: its types,   *)
(* and that the status ends up with the totals of the project.             *)
(***************************************************************************)
EXTENDS ProjectQuota, FiniteSetTheorems, WellFoundedInduction, TLAPS

---------------------------------------------------------------------------
(* Sums.  SumFunctionOnSet adds up the values of a function in an order    *)
(* that CHOOSE picks; what is shown here is that the order is of no        *)
(* account.  A set for which a lemma were wrong would have a smaller one   *)
(* for which it is wrong.                                                  *)

(* Among finite sets there is one that includes no other of them.          *)
LEMMA SmallestSet ==
    ASSUME NEW S, IsFiniteSet(S), NEW C, C \subseteq SUBSET S, C # {}
    PROVE  \E T \in C : \A U \in C : U \subseteq T => U = T
<1>1. C \subseteq FiniteSubsetsOf(S)  BY FS_Subset DEF FiniteSubsetsOf
<1>2. PICK T \in C : \A U \in C : ~ (<<U, T>> \in StrictSubsetOrdering(S))
  BY <1>1, FS_StrictSubsetOrderingWellFounded, WFMin
<1>3. ASSUME NEW U \in C, U \subseteq T, U # T PROVE FALSE
  <2>1. T \subseteq S /\ U \subseteq S  OBVIOUS
  <2>2. <<U, T>> \in StrictSubsetOrdering(S)  BY <1>3, <2>1 DEF StrictSubsetOrdering
  <2> QED  BY <1>2, <2>2
<1> QED  BY <1>3

\* The element with which the sum over a set begins, and the sums over the
\* subsets of a set.
First(s) == CHOOSE x \in s : TRUE
Sums(f, S, g) ==
    g = [s \in SUBSET S |-> IF s = {} THEN 0 ELSE f[First(s)] + g[s \ {First(s)}]]

(* The first element of a set is one of its elements.                      *)
LEMMA FirstIn ==
    ASSUME NEW s, s # {}
    PROVE  First(s) \in s
BY DEF First

(* Sums over different sets agree on what they have in common.             *)
LEMMA SumsAgree ==
    ASSUME NEW f, NEW S, IsFiniteSet(S), NEW g, Sums(f, S, g),
           NEW S1, NEW g1, Sums(f, S1, g1)
    PROVE  \A s \in SUBSET S : s \in SUBSET S1 => g[s] = g1[s]
<1> DEFINE Bad == {s \in SUBSET S : s \in SUBSET S1 /\ g[s] # g1[s]}
<1> SUFFICES ASSUME Bad # {} PROVE FALSE  OBVIOUS
<1>1. PICK T \in Bad : \A U \in Bad : U \subseteq T => U = T
  <2>1. Bad \subseteq SUBSET S  OBVIOUS
  <2> HIDE DEF Bad
  <2> QED  BY <2>1, SmallestSet
<1>2. T \in SUBSET S /\ T \in SUBSET S1 /\ g[T] # g1[T]  OBVIOUS
<1>3. CASE T = {}
  <2>1. g[T] = 0 /\ g1[T] = 0  BY <1>2, <1>3 DEF Sums
  <2> QED  BY <1>2, <2>1
<1>4. CASE T # {}
  <2> DEFINE U == T \ {First(T)}
  <2>1. U \subseteq T /\ U # T  BY <1>4, FirstIn
  <2>2. U \notin Bad  BY <1>1, <2>1
  <2>3. g[U] = g1[U]  BY <1>2, <2>1, <2>2
  <2>4. g[T] = f[First(T)] + g[U] /\ g1[T] = f[First(T)] + g1[U]
    BY <1>2, <1>4 DEF Sums
  <2> QED  BY <1>2, <2>3, <2>4
<1> QED  BY <1>3, <1>4

(* There are such sums.                                                    *)
LEMMA SumsExist ==
    ASSUME NEW f, NEW S, IsFiniteSet(S)
    PROVE  \E g : Sums(f, S, g)
<1> DEFINE Bad == {s \in SUBSET S : ~ \E g : Sums(f, s, g)}
<1> SUFFICES ASSUME Bad # {} PROVE FALSE  OBVIOUS
<1>1. PICK T \in Bad : \A U \in Bad : U \subseteq T => U = T
  <2>1. Bad \subseteq SUBSET S  OBVIOUS
  <2> HIDE DEF Bad
  <2> QED  BY <2>1, SmallestSet
<1>2. T \subseteq S /\ ~ \E g : Sums(f, T, g)  OBVIOUS
<1> DEFINE G(s) == CHOOSE g : Sums(f, s, g)
<1>3. ASSUME NEW s, s \subseteq T, s # T PROVE Sums(f, s, G(s)) /\ IsFiniteSet(s)
  <2>1. s \in SUBSET S /\ s \notin Bad  BY <1>1, <1>2, <1>3
  <2>2. \E g : Sums(f, s, g)  BY <2>1
  <2>3. IsFiniteSet(s)  BY <2>1, FS_Subset
  <2> QED  BY <2>2, <2>3
<1> HIDE DEF Bad, G
<1> DEFINE V(s) == IF s = {} THEN 0 ELSE f[First(s)] + G(s \ {First(s)})[s \ {First(s)}]
           h == [s \in SUBSET T |-> V(s)]
<1>4. ASSUME NEW s, s \subseteq T, s # T PROVE G(s)[s] = V(s)
  <2>1. CASE s = {}  BY <1>3, <1>4, <2>1 DEF Sums
  <2>2. CASE s # {}
    <3> DEFINE u == s \ {First(s)}
    <3>1. u \subseteq s /\ u \subseteq T /\ u # T  BY <1>4
    <3>2. Sums(f, s, G(s)) /\ Sums(f, u, G(u)) /\ IsFiniteSet(s)  BY <1>3, <1>4, <3>1
    <3>3. G(s)[u] = G(u)[u]
      <4> HIDE DEF u
      <4> QED  BY <3>1, <3>2, SumsAgree
    <3>4. G(s)[s] = f[First(s)] + G(s)[u]  BY <2>2, <3>2 DEF Sums
    <3> QED  BY <2>2, <3>3, <3>4
  <2> QED  BY <2>1, <2>2
<1>5. ASSUME NEW s \in SUBSET T
      PROVE  h[s] = IF s = {} THEN 0 ELSE f[First(s)] + h[s \ {First(s)}]
  <2>1. CASE s = {}  BY <2>1
  <2>2. CASE s # {}
    <3> DEFINE u == s \ {First(s)}
    <3>1. u \subseteq T /\ u # T  BY <2>2, FirstIn
    <3>2. h[u] = V(u) /\ h[s] = V(s)  BY <3>1
    <3>3. V(u) = G(u)[u]
      <4> HIDE DEF u, V
      <4> QED  BY <1>4, <3>1
    <3>4. V(s) = f[First(s)] + G(u)[u]  BY <2>2
    <3> HIDE DEF h, V, u
    <3>5. h[s] = f[First(s)] + h[u]  BY <3>2, <3>3, <3>4
    <3> QED  BY <2>2, <3>5 DEF u
  <2> QED  BY <2>1, <2>2
<1>6. h = [s \in SUBSET T |-> h[s]]  OBVIOUS
<1> HIDE DEF h
<1>7. Sums(f, T, h)  BY <1>5, <1>6 DEF Sums
<1> QED  BY <1>2, <1>7

(* A sum starts with the first element.                                    *)
LEMMA SumIs ==
    ASSUME NEW f, NEW S, IsFiniteSet(S)
    PROVE  SumFunctionOnSet(f, S) =
             IF S = {} THEN 0
             ELSE f[First(S)] + SumFunctionOnSet(f, S \ {First(S)})
<1> DEFINE G(s) == CHOOSE g : Sums(f, s, g)
<1>1. \A s : SumFunctionOnSet(f, s) = G(s)[s]
  BY DEF SumFunctionOnSet, FoldFunctionOnSet, MapThenFoldSet, Sums, First
<1>2. Sums(f, S, G(S))  BY SumsExist
<1>3. CASE S = {}
  <2>1. G(S)[S] = 0  BY <1>2, <1>3 DEF Sums
  <2> QED  BY <1>1, <1>3, <2>1
<1>4. CASE S # {}
  <2> DEFINE u == S \ {First(S)}
  <2>1. u \in SUBSET S /\ IsFiniteSet(u)  BY FS_Subset
  <2>2. Sums(f, u, G(u))  BY <2>1, SumsExist
  <2> HIDE DEF G
  <2>3. G(S)[S] = f[First(S)] + G(S)[u]  BY <1>2, <1>4 DEF Sums
  <2>4. G(S)[u] = G(u)[u]
    <3> HIDE DEF u
    <3> QED  BY <1>2, <2>1, <2>2, SumsAgree
  <2> QED  BY <1>1, <1>4, <2>3, <2>4
<1> QED  BY <1>3, <1>4

(* A sum of numbers is a number.                                           *)
LEMMA SumNat ==
    ASSUME NEW f, NEW S, IsFiniteSet(S), \A x \in S : f[x] \in Nat
    PROVE  SumFunctionOnSet(f, S) \in Nat
<1> DEFINE Bad == {s \in SUBSET S : SumFunctionOnSet(f, s) \notin Nat}
<1> SUFFICES ASSUME Bad # {} PROVE FALSE
  <2>1. S \in SUBSET S  OBVIOUS
  <2> QED  BY <2>1
<1>1. PICK T \in Bad : \A U \in Bad : U \subseteq T => U = T
  <2>1. Bad \subseteq SUBSET S  OBVIOUS
  <2> HIDE DEF Bad
  <2> QED  BY <2>1, SmallestSet
<1>2. T \in SUBSET S /\ IsFiniteSet(T) /\ SumFunctionOnSet(f, T) \notin Nat
  <2>1. T \in SUBSET S /\ SumFunctionOnSet(f, T) \notin Nat  OBVIOUS
  <2> QED  BY <2>1, FS_Subset
<1>3. T # {}
  <2>1. T = {} => SumFunctionOnSet(f, T) = 0  BY <1>2, SumIs
  <2> QED  BY <1>2, <2>1
<1>4. First(T) \in T /\ T \ {First(T)} \subseteq T /\ T \ {First(T)} # T  BY <1>3, FirstIn
<1>5. T \ {First(T)} \notin Bad  BY <1>1, <1>4
<1>6. SumFunctionOnSet(f, T \ {First(T)}) \in Nat  BY <1>2, <1>4, <1>5
<1>7. SumFunctionOnSet(f, T) = f[First(T)] + SumFunctionOnSet(f, T \ {First(T)})
  BY <1>2, <1>3, SumIs
<1>8. f[First(T)] \in Nat  BY <1>2, <1>4
<1> QED  BY <1>2, <1>6, <1>7, <1>8

(* It may as well start with any other.                                    *)
LEMMA SumWithout ==
    ASSUME NEW f, NEW S, IsFiniteSet(S), \A x \in S : f[x] \in Nat, NEW y \in S
    PROVE  SumFunctionOnSet(f, S) = f[y] + SumFunctionOnSet(f, S \ {y})
<1> DEFINE Sum(s) == SumFunctionOnSet(f, s)
           Bad == {s \in SUBSET S : \E x \in s : Sum(s) # f[x] + Sum(s \ {x})}
<1> SUFFICES ASSUME Bad # {} PROVE FALSE
  <2>1. S \in SUBSET S  OBVIOUS
  <2> QED  BY <2>1
<1>1. PICK T \in Bad : \A U \in Bad : U \subseteq T => U = T
  <2>1. Bad \subseteq SUBSET S  OBVIOUS
  <2> HIDE DEF Bad
  <2> QED  BY <2>1, SmallestSet
<1>2. T \in SUBSET S /\ \E x \in T : Sum(T) # f[x] + Sum(T \ {x})  OBVIOUS
<1>3. PICK x \in T : Sum(T) # f[x] + Sum(T \ {x})  BY <1>2
<1> DEFINE c == First(T)
<1>4. IsFiniteSet(T) /\ c \in T  BY <1>2, FS_Subset, FirstIn
<1>5. Sum(T) = f[c] + Sum(T \ {c})  BY <1>4, SumIs
<1>6. x # c  BY <1>3, <1>5
<1>7. /\ T \ {c} \in SUBSET S /\ T \ {c} # T /\ x \in T \ {c}
      /\ T \ {x} \in SUBSET S /\ T \ {x} # T /\ c \in T \ {x}
  BY <1>2, <1>4, <1>6
<1>8. T \ {c} \notin Bad /\ T \ {x} \notin Bad  BY <1>1, <1>7
<1>9. Sum(T \ {c}) = f[x] + Sum((T \ {c}) \ {x})  BY <1>7, <1>8
<1>10. Sum(T \ {x}) = f[c] + Sum((T \ {x}) \ {c})  BY <1>7, <1>8
<1>11. PICK u : u = (T \ {c}) \ {x}  OBVIOUS
<1>12. u = (T \ {x}) \ {c} /\ u \in SUBSET S  BY <1>2, <1>11
<1>13. Sum(u) \in Nat
  <2>1. IsFiniteSet(u) /\ \A z \in u : f[z] \in Nat  BY <1>12, FS_Subset
  <2> QED  BY <2>1, SumNat
<1>14. f[x] \in Nat /\ f[c] \in Nat  BY <1>2, <1>4
<1> HIDE DEF Sum, Bad, c
<1>15. Sum(T) = f[c] + (f[x] + Sum(u)) /\ Sum(T \ {x}) = f[c] + Sum(u)
  BY <1>5, <1>9, <1>10, <1>11, <1>12
<1> QED  BY <1>3, <1>13, <1>14, <1>15

(* And it depends on the values of the elements only.                      *)
LEMMA SumSame ==
    ASSUME NEW f, NEW g, NEW S, IsFiniteSet(S), \A x \in S : f[x] = g[x]
    PROVE  SumFunctionOnSet(f, S) = SumFunctionOnSet(g, S)
<1> DEFINE Bad == {s \in SUBSET S : SumFunctionOnSet(f, s) # SumFunctionOnSet(g, s)}
<1> SUFFICES ASSUME Bad # {} PROVE FALSE
  <2>1. S \in SUBSET S  OBVIOUS
  <2> QED  BY <2>1
<1>1. PICK T \in Bad : \A U \in Bad : U \subseteq T => U = T
  <2>1. Bad \subseteq SUBSET S  OBVIOUS
  <2> HIDE DEF Bad
  <2> QED  BY <2>1, SmallestSet
<1>2. T \in SUBSET S /\ SumFunctionOnSet(f, T) # SumFunctionOnSet(g, T)  OBVIOUS
<1>3. IsFiniteSet(T)  BY <1>2, FS_Subset
<1>4. T # {}
  <2>1. T = {} => SumFunctionOnSet(f, T) = 0 /\ SumFunctionOnSet(g, T) = 0  BY <1>3, SumIs
  <2> QED  BY <1>2, <2>1
<1>5. First(T) \in T /\ T \ {First(T)} \subseteq T /\ T \ {First(T)} # T  BY <1>4, FirstIn
<1>6. T \ {First(T)} \notin Bad  BY <1>1, <1>5
<1>7. SumFunctionOnSet(f, T \ {First(T)}) = SumFunctionOnSet(g, T \ {First(T)})
  BY <1>2, <1>5, <1>6
<1>8. /\ SumFunctionOnSet(f, T) = f[First(T)] + SumFunctionOnSet(f, T \ {First(T)})
      /\ SumFunctionOnSet(g, T) = g[First(T)] + SumFunctionOnSet(g, T \ {First(T)})
  BY <1>3, <1>4, SumIs
<1>9. f[First(T)] = g[First(T)]  BY <1>2, <1>5
<1> QED  BY <1>2, <1>7, <1>8, <1>9

---------------------------------------------------------------------------
(* Sequences without duplicates.                                           *)

(* SetToSeq holds each element once.                                       *)
LEMMA SeqOfSet ==
    ASSUME NEW S, IsFiniteSet(S)
    PROVE  /\ SetToSeq(S) \in Seq(S) /\ IsInjective(SetToSeq(S))
           /\ Range(SetToSeq(S)) = S
<1> DEFINE n == Cardinality(S)
           s == SetToSeq(S)
<1>1. n \in Nat /\ ExistsBijection(1 .. n, S)  BY FS_CardinalityType
<1>2. PICK f \in Bijection(1 .. n, S) : TRUE  BY <1>1 DEF ExistsBijection
<1>3. f \in [1 .. n -> S] /\ IsInjective(f)
  BY <1>2 DEF Bijection, Injection
<1>4. s \in [1 .. n -> S] /\ IsInjective(s)  BY <1>3 DEF SetToSeq
<1> HIDE DEF s
<1>5. s \in Injection(1 .. n, S)  BY <1>4 DEF Injection
<1>6. IsFiniteSet(1 .. n) /\ Cardinality(1 .. n) = n  BY <1>1, FS_Interval
<1>7. s \in Surjection(1 .. n, S)  BY <1>5, <1>6, FS_Injection
<1>8. s \in Seq(S) /\ DOMAIN s = 1 .. n  BY <1>1, <1>4
<1>9. Range(s) = S  BY <1>4, <1>7, <1>8 DEF Surjection, Range
<1> HIDE DEF n
<1> QED  BY <1>4, <1>8, <1>9 DEF s

(* Its head is not in its tail.                                            *)
LEMMA HeadAndTail ==
    ASSUME NEW S, NEW s \in Seq(S), IsInjective(s), s # <<>>
    PROVE  /\ Len(s) \in Nat /\ Len(s) >= 1
           /\ Head(s) \in S /\ Head(s) \in Range(s)
           /\ Tail(s) \in Seq(S) /\ IsInjective(Tail(s))
           /\ Range(Tail(s)) = Range(s) \ {Head(s)}
           /\ Len(s) = 1 => Range(s) = {Head(s)}
           /\ Len(s) > 1 => Tail(s) # <<>>
<1>1. /\ Len(s) \in Nat /\ Len(s) >= 1 /\ DOMAIN s = 1 .. Len(s)
      /\ Head(s) = s[1] /\ s[1] \in S
  OBVIOUS
<1> DEFINE t == Tail(s)
<1>3. /\ t \in Seq(S) /\ Len(t) = Len(s) - 1 /\ DOMAIN t = 1 .. (Len(s) - 1)
      /\ \A k \in 1 .. (Len(s) - 1) : t[k] = s[k + 1]
  OBVIOUS
<1> HIDE DEF t
<1>4. IsInjective(t)
  <2> SUFFICES ASSUME NEW a \in 1 .. Len(s) - 1, NEW b \in 1 .. Len(s) - 1, t[a] = t[b]
               PROVE  a = b
    BY <1>3 DEF IsInjective
  <2>1. s[a + 1] = s[b + 1] /\ a + 1 \in DOMAIN s /\ b + 1 \in DOMAIN s  BY <1>1, <1>3
  <2>2. a + 1 = b + 1  BY <2>1 DEF IsInjective
  <2> QED  BY <2>2
<1>5. Range(t) = Range(s) \ {s[1]}
  <2>1. ASSUME NEW k \in 1 .. Len(s) - 1 PROVE t[k] \in Range(s) \ {s[1]}
    <3>1. k + 1 \in DOMAIN s /\ 1 \in DOMAIN s /\ k + 1 # 1  BY <1>1
    <3>2. s[k + 1] # s[1]  BY <3>1 DEF IsInjective
    <3> QED  BY <1>3, <3>1, <3>2 DEF Range
  <2>2. ASSUME NEW k \in DOMAIN s, s[k] # s[1] PROVE s[k] \in Range(t)
    <3>1. k # 1 /\ k - 1 \in 1 .. Len(s) - 1 /\ (k - 1) + 1 = k  BY <1>1, <2>2
    <3>2. t[k - 1] = s[k] /\ k - 1 \in DOMAIN t  BY <1>3, <3>1
    <3> QED  BY <3>2 DEF Range
  <2> QED  BY <1>3, <2>1, <2>2 DEF Range
<1>6. s[1] \in Range(s)  BY <1>1 DEF Range
<1>7. Len(s) = 1 => Range(s) = {s[1]}  BY <1>1 DEF Range
<1>8. Len(s) > 1 => t # <<>>  BY <1>3
<1> QED  BY <1>1, <1>3, <1>4, <1>5, <1>6, <1>7, <1>8 DEF t

---------------------------------------------------------------------------
(* The inductive invariant.                                                *)

Stages == {"idle", "get", "members", "kinds", "count", "group", "patch"}
Cache  == [Types \union Groups -> Count \union {None}]
Locals == [pc : Stages, spec : Seq(Types \union Groups), todo : Seq(Namespaces),
           kinds : SUBSET Types, i : Nat, nsUsed : Cache, turn : SUBSET Types,
           counts : Seq(Count)]

\* The loops over namespaces, quotas and types.
LocalsOK ==
    /\ w \in Locals
    /\ w.pc \in {"members", "kinds", "count", "group", "patch"} => w.spec \in Specs
    /\ w.pc \in {"kinds", "count", "group", "patch"} => DOMAIN w.counts = DOMAIN w.spec
    /\ w.pc \in {"get", "members", "kinds"} =>
          w.i = 1 /\ w.nsUsed = NothingCached /\ w.turn = {}
    /\ w.pc \in {"get", "members"} => w.todo = <<>>
    /\ IsInjective(w.todo)
    /\ w.pc = "patch" => w.todo = <<>> \/ w.spec = <<>>
    /\ w.pc = "group" => Quota \in Groups /\ \A t \in w.turn : GroupOf[t] = Quota

\* The cache holds quotas that came before.
CacheOK ==
    w.pc \in {"count", "group"} =>
        \A q \in Types \union Groups :
            Cached(q) => \E k \in DOMAIN w.spec :
                            w.spec[k] = q /\ (k < w.i \/ (k = w.i /\ w.pc = "group"))

\* Nothing has changed, or is to be announced, that the pass has to see.
Fresh == /\ ~ queued /\ ~ missed
         /\ \A ns \in members : ns \notin events
         /\ \A ns \in members, t \in Calculated \ watched : objects[ns][t] = 0

\* What a quota counts, and the cells <<namespace, type>> counted so far.
CountedTypes(q) == Covered(q) \intersect Calculated
Visited == members \ Range(w.todo)
Part(i) == IF i < w.i THEN CountedTypes(w.spec[i])
           ELSE IF i = w.i /\ w.pc = "group" THEN CountedTypes(w.spec[i]) \ w.turn ELSE {}
Counted(i) == (Visited \X CountedTypes(w.spec[i])) \union
              (IF w.pc \in {"count", "group"} THEN {Head(w.todo)} \X Part(i) ELSE {})

Units(ns, t) == IF t \in Calculated THEN objects[ns][t] ELSE 0

\* Then the totals so far are those of the cells, and so is the cache.
PassOK ==
    Fresh /\ w.pc \notin {"idle", "get"} =>
        /\ w.spec = spec
        /\ w.pc # "members" => Range(w.todo) \subseteq members
        /\ w.pc = "kinds" => Range(w.todo) = members
        /\ w.pc \in {"count", "group", "patch"} => w.kinds = Types
        /\ w.pc \in {"count", "group"} /\ IsInjective(w.spec) =>
              \A t \in Types : Cached(t) => w.nsUsed[t].used = Units(Head(w.todo), t)
        /\ w.pc # "members" /\ IsInjective(w.spec) =>
              \A i \in DOMAIN w.spec : w.counts[i].used = SumFunctionOnSet(Use, Counted(i))

\* And in the end those of the project.
StatusOK ==
    Fresh /\ w.pc = "idle" /\ spec # None /\ IsInjective(spec) =>
        /\ status # None /\ status.quotas = spec
        /\ \A i \in DOMAIN spec : status.counts[i].used = Total(spec[i])

IInv == TypeOK /\ LocalsOK /\ CacheOK /\ PassOK /\ StatusOK

(* The worker at rest.                                                     *)
LEMMA IdleType ==
    /\ Idle \in Locals /\ Idle.pc = "idle" /\ Idle.spec = <<>> /\ Idle.todo = <<>>
    /\ Idle.kinds = {} /\ Idle.turn = {} /\ Idle.i = 1 /\ Idle.nsUsed = NothingCached
    /\ Idle.counts = <<>>
<1>1. NothingCached \in Cache  BY DEF NothingCached, Cache
<1>2. <<>> \in Seq(Types \union Groups) /\ <<>> \in Seq(Namespaces) /\ <<>> \in Seq(Count)
  OBVIOUS
<1> HIDE DEF NothingCached
<1> QED  BY <1>1, <1>2 DEF Idle, Locals, Stages

(* The start.                                                              *)
LEMMA Initially == Init => IInv
<1> SUFFICES ASSUME Init PROVE IInv  OBVIOUS
<1>1. w = Idle /\ w \in Locals /\ queued  BY IdleType DEF Init
<1>2. IsInjective(<<>>)  BY DEF IsInjective
<1>3. LocalsOK  BY <1>1, <1>2, IdleType DEF LocalsOK
<1>4. CacheOK /\ PassOK /\ StatusOK  BY <1>1, IdleType DEF CacheOK, PassOK, StatusOK, Fresh
<1>5. TypeOK
  <2>1. spent \in [changes : 0 .. MaxChanges, failures : 0 .. MaxFailures]
    BY LimitsAssumption DEF Init
  <2>2. /\ w.pc = "idle" /\ w.spec \in Specs \union {<<>>} /\ w.kinds \subseteq Types
        /\ w.turn \subseteq w.kinds /\ w.counts \in Seq(Count)
        /\ w.nsUsed \in [Types \union Groups -> Count \union {None}]
    BY <1>1, IdleType DEF Locals, Cache
  <2>3. objects \in [Namespaces -> [Types -> 0 .. MaxObjects]]  BY DEF Init
  <2>4. /\ members \subseteq Namespaces /\ watched \subseteq Calculated
        /\ spec \in Specs \union {None} /\ status = None /\ queued \in BOOLEAN
        /\ missed \in BOOLEAN /\ events \subseteq Namespaces
    BY DEF Init
  <2> QED  BY <2>1, <2>2, <2>3, <2>4 DEF TypeOK
<1> QED  BY <1>3, <1>4, <1>5 DEF IInv

---------------------------------------------------------------------------
(* Users, events and watches.                                              *)

OtherStep ==
    \/ \E ns \in Namespaces : \/ Deliver(ns) \/ MapFails(ns) \/ MoveNamespace(ns)
                              \/ \E t \in Types, n \in 0..MaxObjects : ChangeObjects(ns, t, n)
    \/ \E t \in Types : StartWatcher(t)
    \/ \E new \in Specs \union {None} : ChangeQuota(new)

(* Counters stay within their bounds.                                      *)
LEMMA SpentType ==
    ASSUME TypeOK, SpendChange \/ SpendFailure \/ spent' = spent
    PROVE  spent' \in [changes : 0..MaxChanges, failures : 0..MaxFailures]
<1>1. MaxChanges \in Nat /\ MaxFailures \in Nat  BY LimitsAssumption
<1>2. spent \in [changes : 0..MaxChanges, failures : 0..MaxFailures]  BY DEF TypeOK
<1> QED  BY <1>1, <1>2 DEF SpendChange, SpendFailure, Spend

(* What a change of an object does to the cells.                           *)
LEMMA CellChanges ==
    ASSUME TypeOK, NEW ns \in Namespaces, NEW t \in Types, NEW n \in 0..MaxObjects,
           ChangeObjects(ns, t, n)
    PROVE  /\ objects' \in [Namespaces -> [Types -> 0..MaxObjects]]
           /\ objects'[ns][t] = n
           /\ \A ns1 \in Namespaces, t1 \in Types :
                 ns1 # ns \/ t1 # t => objects'[ns1][t1] = objects[ns1][t1]
<1>1. objects' = [objects EXCEPT ![ns][t] = n]  BY DEF ChangeObjects
<1>2. objects \in [Namespaces -> [Types -> 0..MaxObjects]]  BY DEF TypeOK
<1> QED  BY <1>1, <1>2

(* What nothing announces makes the pass stale; what is announced will     *)
(* make it stale as long as it has to do with the project.                 *)
LEMMA OthersDo ==
    ASSUME TypeOK, OtherStep
    PROVE  /\ w' = w
           /\ Fresh' => /\ Fresh /\ spec' = spec /\ members' = members /\ status' = status
                        /\ \A ns \in members, t \in Calculated :
                              objects'[ns][t] = objects[ns][t]
<1> USE DEF Fresh, cluster
<1>1. ASSUME NEW ns \in Namespaces, Deliver(ns)
      PROVE  /\ w' = w
             /\ Fresh' => /\ Fresh /\ spec' = spec /\ members' = members /\ status' = status
                          /\ objects' = objects
  <2>1. /\ w' = w /\ objects' = objects /\ members' = members /\ spec' = spec
        /\ status' = status /\ missed' = missed /\ watched' = watched
        /\ events' = events \ {ns}
    BY <1>1 DEF Deliver
  <2>2. queued \/ ns \in members => queued'  BY <1>1 DEF Deliver
  <2>3. ASSUME Fresh' PROVE Fresh
    <3>1. ~ queued /\ ns \notin members  BY <2>2, <2>3
    <3> QED  BY <2>1, <2>3, <3>1
  <2> QED  BY <2>1, <2>3
<1>2. CASE \E ns \in Namespaces : MapFails(ns)  BY <1>2 DEF MapFails
<1>3. CASE \E ns \in Namespaces : MoveNamespace(ns)  BY <1>3 DEF MoveNamespace
<1>4. ASSUME NEW ns \in Namespaces, NEW t \in Types, NEW n \in 0..MaxObjects,
             ChangeObjects(ns, t, n), Fresh'
      PROVE  /\ Fresh /\ ns \notin members
             /\ \A ns1 \in members, t1 \in Calculated :
                   objects'[ns1][t1] = objects[ns1][t1]
  <2>1. /\ members' = members /\ watched' = watched /\ queued' = queued
        /\ events \subseteq events'
    BY <1>4 DEF ChangeObjects
  <2>2. \A ns1 \in members : ns1 \in Namespaces  BY DEF TypeOK
  <2>3. \A t1 \in Calculated : t1 \in Types  BY TypesAssumption
  <2>4. ns \notin members
    <3> SUFFICES ASSUME ns \in members PROVE FALSE  OBVIOUS
    <3>1. t \notin watched  BY <1>4, <2>1 DEF ChangeObjects
    <3>2. t \in Calculated /\ n # 0  BY <1>4, <3>1 DEF ChangeObjects
    <3>3. objects'[ns][t] = n  BY <1>4, CellChanges
    <3> QED  BY <1>4, <2>1, <3>1, <3>2, <3>3
  <2>5. \A ns1 \in members, t1 \in Calculated : objects'[ns1][t1] = objects[ns1][t1]
    BY <1>4, <2>2, <2>3, <2>4, CellChanges
  <2>6. ~ missed  BY <1>4 DEF ChangeObjects
  <2>7. Fresh  BY <1>4, <2>1, <2>5, <2>6
  <2> QED  BY <2>4, <2>5, <2>7
<1>5. ASSUME NEW ns \in Namespaces, NEW t \in Types, NEW n \in 0..MaxObjects,
             ChangeObjects(ns, t, n)
      PROVE  w' = w /\ spec' = spec /\ members' = members /\ status' = status
  BY <1>5 DEF ChangeObjects
<1>6. ASSUME NEW t \in Types, StartWatcher(t)
      PROVE  /\ w' = w
             /\ Fresh' => /\ Fresh /\ spec' = spec /\ members' = members /\ status' = status
                          /\ objects' = objects
  <2>1. /\ w' = w /\ objects' = objects /\ members' = members /\ spec' = spec
        /\ status' = status /\ queued' = queued /\ missed' = missed
        /\ watched' = watched \union {t}
        /\ events' = events \union {ns \in Namespaces : objects[ns][t] > 0}
    BY <1>6 DEF StartWatcher
  <2>2. ASSUME Fresh' PROVE Fresh
    <3>1. ASSUME NEW ns \in members PROVE objects[ns][t] = 0
      <4>1. ns \in Namespaces /\ objects[ns][t] \in Nat  BY <3>1 DEF TypeOK
      <4>2. ~ objects[ns][t] > 0  BY <2>1, <2>2, <4>1
      <4> QED  BY <4>1, <4>2
    <3> QED  BY <2>1, <2>2, <3>1
  <2> QED  BY <2>1, <2>2
<1>7. CASE \E new \in Specs \union {None} : ChangeQuota(new)  BY <1>7 DEF ChangeQuota
<1> QED  BY <1>1, <1>2, <1>3, <1>4, <1>5, <1>6, <1>7 DEF OtherStep

(* The types of all but the worker.                                        *)
LEMMA OthersType ==
    ASSUME TypeOK, OtherStep
    PROVE  TypeOK'
<1> USE DEF TypeOK, cluster
<1>1. CASE \E ns \in Namespaces : Deliver(ns)
  <2>1. spent' \in [changes : 0..MaxChanges, failures : 0..MaxFailures]
    BY <1>1, SpentType DEF Deliver
  <2> QED  BY <1>1, <2>1 DEF Deliver
<1>2. CASE \E ns \in Namespaces : MapFails(ns)
  <2>1. spent' \in [changes : 0..MaxChanges, failures : 0..MaxFailures]
    BY <1>2, SpentType DEF MapFails
  <2> QED  BY <1>2, <2>1 DEF MapFails
<1>3. CASE \E ns \in Namespaces : MoveNamespace(ns)
  <2>1. spent' \in [changes : 0..MaxChanges, failures : 0..MaxFailures]
    BY <1>3, SpentType DEF MoveNamespace
  <2> QED  BY <1>3, <2>1 DEF MoveNamespace, SymDiff
<1>4. ASSUME NEW ns \in Namespaces, NEW t \in Types, NEW n \in 0..MaxObjects,
             ChangeObjects(ns, t, n)
      PROVE  TypeOK'
  <2>1. spent' \in [changes : 0..MaxChanges, failures : 0..MaxFailures]
    BY <1>4, SpentType DEF ChangeObjects
  <2>2. objects' \in [Namespaces -> [Types -> 0..MaxObjects]]  BY <1>4, CellChanges
  <2>3. events' \subseteq Namespaces /\ missed' \in BOOLEAN  BY <1>4 DEF ChangeObjects
  <2>4. UNCHANGED <<members, spec, watched, status, queued, w>>  BY <1>4 DEF ChangeObjects
  <2> QED  BY <2>1, <2>2, <2>3, <2>4
<1>5. CASE \E t \in Types : StartWatcher(t)
  <2>1. spent' \in [changes : 0..MaxChanges, failures : 0..MaxFailures]
    BY <1>5, SpentType DEF StartWatcher
  <2> QED  BY <1>5, <2>1 DEF StartWatcher
<1>6. CASE \E new \in Specs \union {None} : ChangeQuota(new)
  <2>1. spent' \in [changes : 0..MaxChanges, failures : 0..MaxFailures]
    BY <1>6, SpentType DEF ChangeQuota
  <2> QED  BY <1>6, <2>1 DEF ChangeQuota
<1> QED  BY <1>1, <1>2, <1>3, <1>4, <1>5, <1>6 DEF OtherStep

(* The cells of a project.                                                 *)
LEMMA Cells ==
    ASSUME TypeOK
    PROVE  /\ members \subseteq Namespaces /\ Calculated \subseteq Types
           /\ \A cells : cells \subseteq Namespaces \X Types => IsFiniteSet(cells)
           /\ \A ns \in Namespaces, t \in Types :
                 objects[ns][t] \in Nat /\ Use[<<ns, t>>] = objects[ns][t]
<1>1. members \subseteq Namespaces /\ Calculated \subseteq Types
  BY TypesAssumption DEF TypeOK
<1>2. IsFiniteSet(Namespaces \X Types)
  BY TypesAssumption, NamespacesAssumption, FS_Product
<1>3. \A cells : cells \subseteq Namespaces \X Types => IsFiniteSet(cells)
  BY <1>2, FS_Subset
<1>4. \A ns \in Namespaces, t \in Types : objects[ns][t] \in Nat  BY DEF TypeOK
<1>5. \A ns \in Namespaces, t \in Types : Use[<<ns, t>>] = objects[ns][t]  BY DEF Use
<1> QED  BY <1>1, <1>3, <1>4, <1>5

(* A sum stays as long as its cells do.                                    *)
LEMMA SumStays ==
    ASSUME TypeOK, NEW cells, cells \subseteq members \X Calculated,
           \A ns \in members, t \in Calculated : objects'[ns][t] = objects[ns][t]
    PROVE  SumFunctionOnSet(Use', cells) = SumFunctionOnSet(Use, cells)
<1>1. members \subseteq Namespaces /\ Calculated \subseteq Types  BY Cells
<1>2. cells \subseteq Namespaces \X Types  BY <1>1
<1>3. IsFiniteSet(cells)  BY <1>2, Cells
<1>4. PICK f, g : f = Use /\ g = Use'  OBVIOUS
<1>5. \A x \in cells : f[x] = g[x]
  <2> SUFFICES ASSUME NEW x \in cells PROVE f[x] = g[x]  OBVIOUS
  <2>1. PICK ns \in members, t \in Calculated : x = <<ns, t>>  OBVIOUS
  <2>2. x \in Namespaces \X Types /\ x[1] = ns /\ x[2] = t  BY <1>2, <2>1
  <2>3. f[x] = objects[ns][t]  BY <1>4, <2>2 DEF Use
  <2>4. g[x] = objects'[ns][t]  BY <1>4, <2>2 DEF Use
  <2> QED  BY <2>3, <2>4
<1>6. SumFunctionOnSet(f, cells) = SumFunctionOnSet(g, cells)  BY <1>3, <1>5, SumSame
<1> QED  BY <1>4, <1>6

(* What has been counted are cells of the project.                         *)
LEMMA CountedCells ==
    ASSUME TypeOK, LocalsOK, NEW i, Range(w.todo) \subseteq members
    PROVE  Counted(i) \subseteq members \X Calculated
<1>1. CountedTypes(w.spec[i]) \subseteq Calculated /\ Part(i) \subseteq Calculated
  BY DEF CountedTypes, Part
<1>2. Visited \subseteq members  BY DEF Visited
<1>3. w.pc \in {"count", "group"} => Head(w.todo) \in members
  BY HeadAndTail DEF TypeOK, LocalsOK, Locals
<1> HIDE DEF Visited, Part, CountedTypes
<1> QED  BY <1>1, <1>2, <1>3 DEF Counted

\* All that the invariant says of the pass.
PassInv == LocalsOK /\ CacheOK /\ PassOK /\ StatusOK

(* The others leave the pass alone, or make it stale.                      *)
LEMMA OthersStep ==
    ASSUME IInv, OtherStep
    PROVE  PassInv'
<1> USE DEF IInv
<1>1. /\ w' = w
      /\ Fresh' => /\ Fresh /\ spec' = spec /\ members' = members /\ status' = status
                   /\ \A ns \in members, t \in Calculated : objects'[ns][t] = objects[ns][t]
  BY OthersDo
<1>2. LocalsOK' /\ CacheOK'  BY <1>1 DEF LocalsOK, CacheOK, Quota, Cached
<1>3. ASSUME Fresh' PROVE PassOK'
  <2> SUFFICES ASSUME w.pc \notin {"idle", "get"}
               PROVE  /\ w.spec = spec
                      /\ w.pc # "members" => Range(w.todo) \subseteq members
                      /\ w.pc = "kinds" => Range(w.todo) = members
                      /\ w.pc \in {"count", "group", "patch"} => w.kinds = Types
                      /\ w.pc \in {"count", "group"} /\ IsInjective(w.spec) =>
                            \A t \in Types : Cached(t) =>
                                w.nsUsed[t].used = Units(Head(w.todo), t)'
                      /\ w.pc # "members" /\ IsInjective(w.spec) =>
                            \A i \in DOMAIN w.spec :
                                w.counts[i].used = SumFunctionOnSet(Use, Counted(i))'
    BY <1>1, <1>3 DEF PassOK, Cached
  <2>1. /\ w.spec = spec
        /\ w.pc # "members" => Range(w.todo) \subseteq members
        /\ w.pc = "kinds" => Range(w.todo) = members
        /\ w.pc \in {"count", "group", "patch"} => w.kinds = Types
    BY <1>1, <1>3 DEF PassOK
  <2>2. ASSUME w.pc \in {"count", "group"}, IsInjective(w.spec), NEW t \in Types, Cached(t)
        PROVE  w.nsUsed[t].used = Units(Head(w.todo), t)'
    <3>1. w.nsUsed[t].used = Units(Head(w.todo), t)  BY <1>1, <1>3, <2>2 DEF PassOK
    <3>2. Head(w.todo) \in members
      BY <2>1, <2>2, HeadAndTail DEF TypeOK, LocalsOK, Locals
    <3> QED  BY <1>1, <1>3, <3>1, <3>2 DEF Units
  <2>3. ASSUME w.pc # "members", IsInjective(w.spec), NEW i \in DOMAIN w.spec
        PROVE  w.counts[i].used = SumFunctionOnSet(Use, Counted(i))'
    <3>1. w.counts[i].used = SumFunctionOnSet(Use, Counted(i))
      BY <1>1, <1>3, <2>3 DEF PassOK
    <3>2. PICK cells : cells = Counted(i)  OBVIOUS
    <3>3. Counted(i)' = cells
      BY <1>1, <1>3, <3>2 DEF Counted, Visited, Part
    <3>4. cells \subseteq members \X Calculated  BY <2>1, <2>3, <3>2, CountedCells
    <3>5. SumFunctionOnSet(Use', cells) = SumFunctionOnSet(Use, cells)
      BY <1>1, <1>3, <3>4, SumStays
    <3> QED  BY <3>1, <3>2, <3>3, <3>5
  <2> QED  BY <2>1, <2>2, <2>3
<1>4. ASSUME Fresh' PROVE StatusOK'
  <2> SUFFICES ASSUME w.pc = "idle", spec # None, IsInjective(spec)
               PROVE  /\ status # None /\ status.quotas = spec
                      /\ \A i \in DOMAIN spec : status.counts[i].used = Total(spec[i])'
    BY <1>1, <1>4 DEF StatusOK
  <2>1. /\ status # None /\ status.quotas = spec
        /\ \A i \in DOMAIN spec : status.counts[i].used = Total(spec[i])
    BY <1>1, <1>4 DEF StatusOK
  <2>2. ASSUME NEW q PROVE Total(q)' = Total(q)
    <3>1. PICK cells : cells = members \X (Covered(q) \intersect Calculated)  OBVIOUS
    <3>2. cells = members' \X (Covered(q) \intersect Calculated)
          /\ cells \subseteq members \X Calculated
      BY <1>1, <1>4, <3>1
    <3>3. SumFunctionOnSet(Use', cells) = SumFunctionOnSet(Use, cells)
      BY <1>1, <1>4, <3>2, SumStays
    <3> QED  BY <3>1, <3>2, <3>3 DEF Total
  <2>3. \A i \in DOMAIN spec : status.counts[i].used = Total(spec[i])'
    <3> SUFFICES ASSUME NEW i \in DOMAIN spec
                 PROVE  status.counts[i].used = Total(spec[i])'
      OBVIOUS
    <3>1. PICK q : q = spec[i]  OBVIOUS
    <3>2. spec'[i] = q  BY <1>1, <1>4, <3>1
    <3> QED  BY <2>1, <2>2, <3>1, <3>2
  <2> QED  BY <2>1, <2>3
<1> QED  BY <1>2, <1>3, <1>4 DEF PassInv, PassOK, StatusOK

---------------------------------------------------------------------------
(* The pass.                                                               *)

(* Where the loops go on.                                                  *)
LEMMA AdvanceIs ==
    ASSUME NEW v \in Locals, IsInjective(v.todo), v.todo # <<>>, v.i \in DOMAIN v.spec
    PROVE  /\ Advance(v) \in Locals
           /\ Advance(v).spec = v.spec /\ Advance(v).kinds = v.kinds
           /\ Advance(v).turn = v.turn /\ Advance(v).counts = v.counts
           /\ IsInjective(Advance(v).todo)
           /\ \/ /\ v.i + 1 \in DOMAIN v.spec
                 /\ Advance(v).pc = "count" /\ Advance(v).i = v.i + 1
                 /\ Advance(v).todo = v.todo /\ Advance(v).nsUsed = v.nsUsed
              \/ /\ v.i = Len(v.spec) /\ Tail(v.todo) # <<>>
                 /\ Advance(v).pc = "count" /\ Advance(v).i = 1
                 /\ Advance(v).todo = Tail(v.todo) /\ Advance(v).nsUsed = NothingCached
              \/ /\ v.i = Len(v.spec) /\ Range(v.todo) = {Head(v.todo)}
                 /\ Advance(v).pc = "patch" /\ Advance(v).todo = <<>>
<1>1. /\ v.i \in 1 .. Len(v.spec) /\ Len(v.spec) \in Nat /\ DOMAIN v.spec = 1 .. Len(v.spec)
      /\ v.todo \in Seq(Namespaces)
  BY DEF Locals
<1>2. /\ Tail(v.todo) \in Seq(Namespaces) /\ IsInjective(Tail(v.todo))
      /\ Len(v.todo) \in Nat /\ Len(v.todo) >= 1
      /\ Len(v.todo) > 1 => Tail(v.todo) # <<>>
      /\ Len(v.todo) = 1 => Range(v.todo) = {Head(v.todo)}
  BY <1>1, HeadAndTail
<1>3. NothingCached \in Cache  BY IdleType DEF Locals
<1>4. CASE v.i < Len(v.spec)
  <2>1. Advance(v) = [v EXCEPT !.pc = "count", !.i = @ + 1]  BY <1>4 DEF Advance
  <2>2. v.i + 1 \in DOMAIN v.spec /\ v.i + 1 \in Nat  BY <1>1, <1>4
  <2> QED  BY <2>1, <2>2 DEF Locals, Stages
<1>5. CASE v.i = Len(v.spec) /\ Len(v.todo) > 1
  <2>1. Advance(v) = [v EXCEPT !.pc = "count", !.i = 1, !.todo = Tail(@),
                               !.nsUsed = NothingCached]
    BY <1>1, <1>5 DEF Advance
  <2>2. PICK t, c : t = Tail(v.todo) /\ c = NothingCached  OBVIOUS
  <2>3. t \in Seq(Namespaces) /\ IsInjective(t) /\ t # <<>> /\ c \in Cache
    BY <1>2, <1>3, <1>5, <2>2
  <2>4. Advance(v) = [v EXCEPT !.pc = "count", !.i = 1, !.todo = t, !.nsUsed = c]
    BY <2>1, <2>2 DEF Locals
  <2> HIDE DEF NothingCached, Cache
  <2>5. /\ Advance(v).pc = "count" /\ Advance(v).i = 1 /\ Advance(v).todo = t
        /\ Advance(v).nsUsed = c /\ Advance(v).spec = v.spec
        /\ Advance(v).kinds = v.kinds /\ Advance(v).turn = v.turn
        /\ Advance(v).counts = v.counts
    BY <2>4 DEF Locals
  <2>6. Advance(v) \in Locals
    <3>1. "count" \in Stages /\ 1 \in Nat  BY DEF Stages
    <3>2. [v EXCEPT !.pc = "count", !.i = 1] \in Locals  BY <3>1 DEF Locals
    <3>3. PICK u : u = [v EXCEPT !.pc = "count", !.i = 1]  OBVIOUS
    <3>4. [u EXCEPT !.todo = t, !.nsUsed = c] \in Locals  BY <2>3, <3>2, <3>3 DEF Locals
    <3>5. [u EXCEPT !.todo = t, !.nsUsed = c] = Advance(v)  BY <2>4, <3>3 DEF Locals
    <3> QED  BY <3>4, <3>5
  <2> QED  BY <1>5, <2>2, <2>3, <2>5, <2>6
<1>6. CASE v.i = Len(v.spec) /\ ~ Len(v.todo) > 1
  <2>1. Advance(v) = [v EXCEPT !.pc = "patch", !.todo = <<>>]
    BY <1>1, <1>6 DEF Advance
  <2>2. Len(v.todo) = 1
    <3>1. PICK n : n = Len(v.todo)  OBVIOUS
    <3>2. n \in Nat /\ n >= 1 /\ ~ n > 1  BY <1>2, <1>6, <3>1
    <3>3. n = 1  BY <3>2
    <3> QED  BY <3>1, <3>3
  <2>3. <<>> \in Seq(Namespaces) /\ IsInjective(<<>>)  BY DEF IsInjective
  <2> QED  BY <1>2, <1>6, <2>1, <2>2, <2>3 DEF Locals, Stages
<1> QED  BY <1>1, <1>4, <1>5, <1>6

\* The cells of a quota, once it is counted in the namespace at hand.
Full(i) == (Visited \union {Head(w.todo)}) \X CountedTypes(w.spec[i])

(* What is counted when the loops go on.                                   *)
LEMMA AdvanceCounts ==
    ASSUME TypeOK, LocalsOK, w.pc \in {"count", "group"}, Range(w.todo) \subseteq members,
           members' = members, NEW v \in Locals, w' = Advance(v),
           v.spec = w.spec, v.todo = w.todo, v.i = w.i,
           NEW i \in DOMAIN w.spec
    PROVE  /\ Range(w'.todo) \subseteq members
           /\ i = w.i => Counted(i)' = Full(i)
           /\ i # w.i => Counted(i)' = Counted(i)
<1>1. /\ w.i \in 1 .. Len(w.spec) /\ Len(w.spec) \in Nat /\ DOMAIN w.spec = 1 .. Len(w.spec)
      /\ w.todo \in Seq(Namespaces) /\ w.todo # <<>> /\ IsInjective(w.todo)
  BY DEF TypeOK, LocalsOK, Locals
<1>2. /\ w'.spec = w.spec
      /\ \/ /\ w'.pc = "count" /\ w'.i = w.i + 1 /\ w'.todo = w.todo
         \/ /\ w.i = Len(w.spec) /\ w'.pc = "count" /\ w'.i = 1 /\ w'.todo = Tail(w.todo)
         \/ /\ w.i = Len(w.spec) /\ w'.pc = "patch" /\ w'.todo = <<>>
            /\ Range(w.todo) = {Head(w.todo)}
  BY <1>1, AdvanceIs
<1>3. /\ Head(w.todo) \in Range(w.todo) /\ Range(Tail(w.todo)) = Range(w.todo) \ {Head(w.todo)}
  BY <1>1, HeadAndTail
<1>4. Range(<<>>) = {}  BY DEF Range
<1>5. Range(w'.todo) \subseteq members  BY <1>2, <1>3, <1>4
<1>6. PICK C : C = CountedTypes(w.spec[i])  OBVIOUS
<1>7. CountedTypes(w.spec[i])' = C  BY <1>2, <1>6 DEF CountedTypes, Covered
<1>8. i \in 1 .. Len(w.spec)  BY <1>1
<1>9. PICK h, V : h = Head(w.todo) /\ V = Visited  OBVIOUS
<1>10. /\ Full(i) = (V \union {h}) \X C
       /\ i < w.i => Counted(i) = (V \X C) \union ({h} \X C)
       /\ i > w.i => Counted(i) = (V \X C) \union ({h} \X {})
  <2>1. i < w.i => Part(i) = C  BY <1>6 DEF Part
  <2>2. i > w.i => Part(i) = {}  BY <1>1, <1>8 DEF Part
  <2> QED  BY <1>6, <1>9, <2>1, <2>2 DEF Full, Counted
<1>11. (V \union {h}) \X C = (V \X C) \union ({h} \X C) /\ {h} \X {} = {}  OBVIOUS
<1>12. CASE w'.pc = "count" /\ w'.i = w.i + 1 /\ w'.todo = w.todo
  <2>1. Visited' = V /\ Head(w'.todo) = h  BY <1>9, <1>12 DEF Visited
  <2>2. i <= w.i => Part(i)' = C
    <3>1. i <= w.i => i < w'.i  BY <1>1, <1>8, <1>12
    <3> QED  BY <1>7, <3>1 DEF Part
  <2>3. i > w.i => Part(i)' = {}
    <3>1. i > w.i => ~ i < w'.i  BY <1>1, <1>8, <1>12
    <3> QED  BY <1>12, <3>1 DEF Part
  <2>4. Counted(i)' = (V \X C) \union ({h} \X Part(i)')  BY <1>7, <1>12, <2>1 DEF Counted
  <2>5. i < w.i \/ i = w.i \/ i > w.i  BY <1>1, <1>8
  <2>6. i < w.i => i <= w.i  BY <1>1, <1>8
  <2>7. i < w.i => Counted(i)' = Counted(i)  BY <1>10, <2>2, <2>4, <2>6
  <2>8. i > w.i => Counted(i)' = Counted(i)  BY <1>10, <2>3, <2>4
  <2>9. i = w.i => Counted(i)' = Full(i)
    <3>1. i = w.i => i <= w.i  BY <1>1
    <3> QED  BY <1>10, <1>11, <2>2, <2>4, <3>1
  <2> QED  BY <1>5, <2>5, <2>7, <2>8, <2>9
<1>13. CASE w.i = Len(w.spec) /\ ~ (w'.i = w.i + 1 /\ w'.todo = w.todo /\ w'.pc = "count")
  <2>1. Visited' = V \union {h}
    BY <1>2, <1>3, <1>4, <1>9, <1>13 DEF Visited
  <2>2. w'.pc = "count" => Part(i)' = {}
    <3>1. w'.pc = "count" => ~ i < w'.i  BY <1>2, <1>8, <1>13
    <3> QED  BY <3>1 DEF Part
  <2>3. Counted(i)' = (V \union {h}) \X C
    <3>1. CASE w'.pc = "count"
      <4>1. PICK h1 : h1 = Head(w'.todo)  OBVIOUS
      <4>2. Counted(i)' = ((V \union {h}) \X C) \union ({h1} \X {})
        BY <1>7, <2>1, <2>2, <3>1, <4>1 DEF Counted
      <4> QED  BY <4>2
    <3>2. CASE w'.pc = "patch"  BY <1>7, <2>1, <3>2 DEF Counted
    <3> QED  BY <1>2, <3>1, <3>2
  <2>4. i < w.i \/ i = w.i  BY <1>1, <1>8, <1>13
  <2>5. i < w.i => Counted(i)' = Counted(i)  BY <1>10, <1>11, <2>3
  <2>6. i = w.i => Counted(i)' = Full(i)  BY <1>10, <2>3
  <2> QED  BY <1>5, <2>4, <2>5, <2>6
<1> QED  BY <1>2, <1>12, <1>13

(* The types after a step of the worker.                                   *)
LEMMA TypeAfter ==
    ASSUME TypeOK, UNCHANGED <<cluster, events>>, w' \in Locals,
           w'.spec \in Specs \union {<<>>}, w'.turn \subseteq w'.kinds,
           w'.pc \in {"count", "group"} => w'.i \in DOMAIN w'.spec /\ w'.todo # <<>>,
           queued' \in BOOLEAN, missed' \in BOOLEAN,
           SpendFailure \/ spent' = spent,
           status' # None => /\ status'.quotas \in Specs
                             /\ status'.counts \in [DOMAIN status'.quotas -> Count]
    PROVE  TypeOK'
<1>1. spent' \in [changes : 0..MaxChanges, failures : 0..MaxFailures]  BY SpentType
<1>2. /\ objects' = objects /\ members' = members /\ spec' = spec /\ watched' = watched
      /\ events' = events
  BY DEF cluster
<1>3. /\ w'.pc \in Stages /\ w'.kinds \subseteq Types /\ w'.counts \in Seq(Count)
      /\ w'.nsUsed \in Cache
  BY DEF Locals
<1>4. /\ objects' \in [Namespaces -> [Types -> 0..MaxObjects]]
      /\ members' \subseteq Namespaces /\ watched' \subseteq Calculated
      /\ spec' \in Specs \union {None} /\ events' \subseteq Namespaces
  BY <1>2 DEF TypeOK
<1> QED  BY <1>1, <1>3, <1>4 DEF TypeOK, Stages, Cache

(* A pass that ends with an error is repeated.                             *)
LEMMA Stops ==
    ASSUME IInv, UNCHANGED <<cluster, events>>, w' = Idle, queued' = TRUE, missed' = missed,
           SpendFailure \/ spent' = spent,
           status' # None => /\ status'.quotas \in Specs
                             /\ status'.counts \in [DOMAIN status'.quotas -> Count]
    PROVE  TypeOK' /\ PassInv'
<1>1. /\ w' \in Locals /\ w'.pc = "idle" /\ w'.spec = <<>> /\ w'.todo = <<>>
      /\ w'.turn = {}
  BY IdleType
<1>2. TypeOK /\ missed' \in BOOLEAN  BY DEF IInv, TypeOK
<1>3. TypeOK'  BY <1>1, <1>2, TypeAfter
<1>4. IsInjective(<<>>)  BY DEF IsInjective
<1>5. LocalsOK' /\ CacheOK'  BY <1>1, <1>4 DEF LocalsOK, CacheOK
<1>6. ~ Fresh'  BY DEF Fresh
<1>7. PassOK' /\ StatusOK'  BY <1>6 DEF PassOK, StatusOK
<1> QED  BY <1>3, <1>5, <1>7 DEF PassInv

(* As a failed request ends.                                               *)
LEMMA FailStep ==
    ASSUME IInv, RequestFails
    PROVE  TypeOK' /\ PassInv'
<1>1. /\ UNCHANGED <<cluster, events>> /\ w' = Idle /\ queued' = TRUE /\ missed' = missed
      /\ SpendFailure /\ status' = status
  BY DEF RequestFails, ReturnErr
<1>2. status' # None => /\ status'.quotas \in Specs
                        /\ status'.counts \in [DOMAIN status'.quotas -> Count]
  BY <1>1 DEF IInv, TypeOK
<1> QED  BY <1>1, <1>2, Stops

(* A pass begins.                                                          *)
LEMMA DequeueStep ==
    ASSUME IInv, Dequeue
    PROVE  TypeOK' /\ PassInv'
<1>1. /\ UNCHANGED <<cluster, events>> /\ queued' = FALSE /\ missed' = FALSE
      /\ spent' = spent /\ status' = status
  BY DEF Dequeue
<1>2. /\ w' \in Locals /\ w'.pc = "get" /\ w'.spec = <<>> /\ w'.todo = <<>>
      /\ w'.turn = {} /\ w'.i = 1 /\ w'.nsUsed = NothingCached
  <2>1. PICK v : v = Idle  OBVIOUS
  <2>2. /\ v \in Locals /\ v.spec = <<>> /\ v.todo = <<>> /\ v.turn = {} /\ v.i = 1
        /\ v.nsUsed = NothingCached
    BY <2>1, IdleType
  <2>3. w' = [v EXCEPT !.pc = "get"]  BY <2>1 DEF Dequeue
  <2>4. "get" \in Stages  BY DEF Stages
  <2> HIDE DEF NothingCached
  <2> QED  BY <2>2, <2>3, <2>4 DEF Locals
<1>3. TypeOK /\ status' # None => /\ status'.quotas \in Specs
                                  /\ status'.counts \in [DOMAIN status'.quotas -> Count]
  BY <1>1 DEF TypeOK
<1>4. TypeOK'  BY <1>1, <1>2, <1>3, TypeAfter DEF IInv
<1>5. IsInjective(<<>>)  BY DEF IsInjective
<1>6. LocalsOK' /\ CacheOK'  BY <1>2, <1>5 DEF LocalsOK, CacheOK
<1>7. PassOK' /\ StatusOK'  BY <1>2 DEF PassOK, StatusOK
<1> QED  BY <1>4, <1>6, <1>7 DEF PassInv

\* The worker works on without a change of what it is to see.
Working == UNCHANGED <<cluster, events, status, queued, missed, spent>>

(* The types after such a step, and that what was fresh still is.          *)
LEMMA WorkingType ==
    ASSUME TypeOK, Working, w' \in Locals,
           w'.spec \in Specs \union {<<>>}, w'.turn \subseteq w'.kinds,
           w'.pc \in {"count", "group"} => w'.i \in DOMAIN w'.spec /\ w'.todo # <<>>
    PROVE  /\ TypeOK' /\ Fresh' = Fresh /\ members' = members /\ spec' = spec
           /\ objects' = objects /\ Use' = Use
<1>1. /\ UNCHANGED <<cluster, events>> /\ status' = status /\ queued' = queued
      /\ missed' = missed /\ spent' = spent
  BY DEF Working
<1>2. /\ queued' \in BOOLEAN /\ missed' \in BOOLEAN
      /\ status' # None => /\ status'.quotas \in Specs
                           /\ status'.counts \in [DOMAIN status'.quotas -> Count]
  BY <1>1 DEF TypeOK
<1>3. TypeOK'  BY <1>1, <1>2, TypeAfter
<1>4. /\ objects' = objects /\ members' = members /\ spec' = spec /\ watched' = watched
      /\ events' = events
  BY <1>1 DEF cluster
<1> QED  BY <1>1, <1>3, <1>4 DEF Fresh, Use

(* The quota is read.                                                      *)
LEMMA GetStep ==
    ASSUME IInv, GetQuota
    PROVE  TypeOK' /\ PassInv'
<1>1. Working /\ w.pc = "get" /\ TypeOK
  BY DEF GetQuota, Working, IInv, ReturnNil
<1>2. IsInjective(<<>>)  BY DEF IsInjective
<1>3. CASE spec = None
  <2>1. w' = Idle  BY <1>3 DEF GetQuota, ReturnNil
  <2>2. /\ w' \in Locals /\ w'.pc = "idle" /\ w'.spec = <<>> /\ w'.todo = <<>>
        /\ w'.turn = {}
    BY <2>1, IdleType
  <2>3. TypeOK' /\ spec' = spec  BY <1>1, <2>2, WorkingType
  <2>4. LocalsOK' /\ CacheOK'  BY <1>2, <2>2 DEF LocalsOK, CacheOK
  <2>5. PassOK' /\ StatusOK'  BY <1>3, <2>2, <2>3 DEF PassOK, StatusOK
  <2> QED  BY <2>3, <2>4, <2>5 DEF PassInv
<1>4. CASE spec # None
  <2>1. w' = [w EXCEPT !.pc = "members", !.spec = spec]  BY <1>4 DEF GetQuota
  <2>2. /\ w \in Locals /\ w.todo = <<>> /\ w.i = 1 /\ w.nsUsed = NothingCached
        /\ w.turn = {}
    BY <1>1 DEF IInv, LocalsOK
  <2>3. spec \in Specs /\ spec \in Seq(Types \union Groups) /\ "members" \in Stages
    BY <1>1, <1>4, QuotasAssumption DEF TypeOK, Stages
  <2> HIDE DEF NothingCached
  <2>4. /\ w'.pc = "members" /\ w'.spec = spec /\ w'.todo = <<>> /\ w'.i = 1
        /\ w'.nsUsed = NothingCached /\ w'.turn = {}
    BY <2>1, <2>2 DEF Locals
  <2>5. w' \in Locals  BY <2>1, <2>2, <2>3 DEF Locals
  <2>6. TypeOK' /\ spec' = spec  BY <1>1, <2>3, <2>4, <2>5, WorkingType
  <2>7. LocalsOK' /\ CacheOK'  BY <1>2, <2>3, <2>4, <2>5 DEF LocalsOK, CacheOK
  <2>8. PassOK' /\ StatusOK'  BY <2>4, <2>6 DEF PassOK, StatusOK
  <2> QED  BY <2>6, <2>7, <2>8 DEF PassInv
<1> QED  BY <1>3, <1>4

(* The namespaces are listed; nothing is counted yet.                      *)
LEMMA MembersStep ==
    ASSUME IInv, ListMembers
    PROVE  TypeOK' /\ PassInv'
<1>1. Working /\ w.pc = "members" /\ TypeOK  BY DEF ListMembers, Working, IInv
<1>2. /\ w \in Locals /\ w.spec \in Specs /\ w.i = 1 /\ w.nsUsed = NothingCached
      /\ w.turn = {}
  BY <1>1 DEF IInv, LocalsOK
<1>3. PICK s : s = SetToSeq(members)  OBVIOUS
<1>4. IsFiniteSet(members) /\ members \subseteq Namespaces
  BY <1>1, NamespacesAssumption, FS_Subset DEF TypeOK
<1>5. s \in Seq(members) /\ IsInjective(s) /\ Range(s) = members  BY <1>3, <1>4, SeqOfSet
<1>6. s \in Seq(Namespaces)  BY <1>4, <1>5
<1>7. PICK z : z = [i \in DOMAIN w.spec |-> [used |-> 0, result |-> ""]]  OBVIOUS
<1>8. z \in Seq(Count) /\ DOMAIN z = DOMAIN w.spec /\ \A i \in DOMAIN w.spec : z[i].used = 0
  <2>1. w.spec \in Seq(Types \union Groups)  BY <1>2 DEF Locals
  <2>2. PICK n \in Nat : DOMAIN w.spec = 1 .. n  BY <2>1
  <2>3. PICK c : c = [used |-> 0, result |-> ""]  OBVIOUS
  <2>4. c \in Count /\ c.used = 0  BY <2>3 DEF Count, Results
  <2>5. z = [i \in 1 .. n |-> c]  BY <1>7, <2>2, <2>3
  <2>6. z \in Seq(Count)  BY <2>4, <2>5
  <2> QED  BY <2>2, <2>4, <2>5, <2>6
<1>9. w' = [w EXCEPT !.pc = "kinds", !.todo = s, !.counts = z]
  BY <1>3, <1>7 DEF ListMembers
<1> HIDE DEF NothingCached
<1>10. /\ w'.pc = "kinds" /\ w'.spec = w.spec /\ w'.todo = s /\ w'.i = 1
       /\ w'.nsUsed = NothingCached /\ w'.turn = {} /\ w'.counts = z
  BY <1>2, <1>9 DEF Locals
<1>11. w' \in Locals
  <2>1. "kinds" \in Stages  BY DEF Stages
  <2> QED  BY <1>2, <1>6, <1>8, <1>9, <2>1 DEF Locals
<1>12. /\ TypeOK' /\ Fresh' = Fresh /\ members' = members /\ spec' = spec
       /\ Use' = Use
  BY <1>1, <1>2, <1>10, <1>11, WorkingType
<1>13. LocalsOK' /\ CacheOK'
  BY <1>2, <1>5, <1>8, <1>10, <1>11 DEF LocalsOK, CacheOK
<1>14. Visited' = {}  BY <1>5, <1>10, <1>12 DEF Visited
<1>15. ASSUME NEW i \in DOMAIN w.spec
       PROVE  w'.counts[i].used = SumFunctionOnSet(Use', Counted(i)')
  <2>1. Counted(i)' = {}  BY <1>10, <1>14 DEF Counted
  <2>2. PICK f : f = Use'  OBVIOUS
  <2>3. IsFiniteSet({})  BY FS_EmptySet
  <2>4. SumFunctionOnSet(f, {}) = 0  BY <2>3, SumIs
  <2> QED  BY <1>8, <1>10, <2>1, <2>2, <2>4
<1>16. PassOK'
  <2>1. Fresh' => w'.spec = spec'  BY <1>1, <1>10, <1>12 DEF IInv, PassOK
  <2> QED  BY <1>5, <1>10, <1>12, <1>15, <2>1 DEF PassOK
<1>17. StatusOK'  BY <1>10 DEF StatusOK
<1> QED  BY <1>12, <1>13, <1>16, <1>17 DEF PassInv

(* The types are discovered, or the pass is stale.                         *)
LEMMA KindsStep ==
    ASSUME IInv, NEW seen \in SUBSET Types, ListKinds(seen)
    PROVE  TypeOK' /\ PassInv'
<1>1. w.pc = "kinds" /\ TypeOK /\ LocalsOK  BY DEF ListKinds, IInv
<1>2. /\ w \in Locals /\ w.spec \in Specs /\ w.i = 1 /\ w.nsUsed = NothingCached
      /\ IsInjective(w.todo) /\ DOMAIN w.counts = DOMAIN w.spec /\ w.turn = {}
  BY <1>1 DEF LocalsOK
<1>3. PICK p : p = IF w.todo = <<>> \/ w.spec = <<>> THEN "patch" ELSE "count"  OBVIOUS
<1>4. p \in Stages /\ p \in {"patch", "count"}  BY <1>3 DEF Stages
<1>5. w' = [w EXCEPT !.kinds = seen, !.pc = p]  BY <1>3 DEF ListKinds
<1> HIDE DEF NothingCached
<1>6. /\ w'.pc = p /\ w'.spec = w.spec /\ w'.todo = w.todo /\ w'.i = 1
      /\ w'.nsUsed = NothingCached /\ w'.turn = {} /\ w'.counts = w.counts
      /\ w'.kinds = seen
  BY <1>2, <1>5 DEF Locals
<1>7. w' \in Locals  BY <1>2, <1>4, <1>5 DEF Locals
<1>8. p = "count" => w.spec # <<>> /\ 1 \in DOMAIN w.spec /\ w.todo # <<>>
  <2>1. w.spec \in Seq(Types \union Groups)  BY <1>2 DEF Locals
  <2>2. p = "count" => w.spec # <<>> /\ w.todo # <<>>  BY <1>3
  <2> QED  BY <2>1, <2>2
<1>9. /\ UNCHANGED <<cluster, events>> /\ status' = status /\ queued' = queued
      /\ SpendFailure \/ spent' = spent
      /\ missed' = TRUE \/ (missed' = missed /\ seen = Types)
  BY DEF ListKinds
<1>10. TypeOK'
  <2>1. /\ queued' \in BOOLEAN /\ missed' \in BOOLEAN
        /\ status' # None => /\ status'.quotas \in Specs
                             /\ status'.counts \in [DOMAIN status'.quotas -> Count]
    BY <1>1, <1>9 DEF TypeOK
  <2>2. /\ w'.spec \in Specs \union {<<>>} /\ w'.turn \subseteq w'.kinds
        /\ w'.pc \in {"count", "group"} => w'.i \in DOMAIN w'.spec /\ w'.todo # <<>>
    BY <1>2, <1>4, <1>6, <1>8
  <2> QED  BY <1>1, <1>7, <1>9, <2>1, <2>2, TypeAfter
<1>11. LocalsOK'
  <2>1. p = "patch" => w.todo = <<>> \/ w.spec = <<>>  BY <1>3
  <2> QED  BY <1>2, <1>4, <1>6, <1>7, <2>1 DEF LocalsOK
<1>12. CacheOK'
  <2>1. \A q \in Types \union Groups : NothingCached[q] = None  BY DEF NothingCached
  <2> QED  BY <1>6, <2>1 DEF CacheOK, Cached
<1>13. StatusOK'  BY <1>4, <1>6 DEF StatusOK
<1>14. ASSUME Fresh'
       PROVE  /\ Fresh /\ seen = Types /\ members' = members /\ spec' = spec /\ Use' = Use
  <2>1. missed' = missed /\ seen = Types  BY <1>9, <1>14 DEF Fresh
  <2>2. /\ objects' = objects /\ members' = members /\ spec' = spec
        /\ watched' = watched /\ events' = events
    BY <1>9 DEF cluster
  <2> QED  BY <1>9, <1>14, <2>1, <2>2 DEF Fresh, Use
<1>15. ASSUME Fresh'
       PROVE  /\ w'.spec = spec' /\ Range(w'.todo) = members'
              /\ \A q \in Types : w'.nsUsed[q] = None
              /\ IsInjective(w'.spec) =>
                    \A i \in DOMAIN w'.spec :
                        w'.counts[i].used = SumFunctionOnSet(Use', Counted(i)')
  <2>1. /\ w.spec = spec /\ Range(w.todo) = members
        /\ IsInjective(w.spec) =>
              \A i \in DOMAIN w.spec : w.counts[i].used = SumFunctionOnSet(Use, Counted(i))
    BY <1>1, <1>14, <1>15 DEF IInv, PassOK
  <2>2. \A q \in Types : NothingCached[q] = None  BY DEF NothingCached
  <2>3. ASSUME NEW i \in DOMAIN w.spec PROVE Counted(i)' = {} /\ Counted(i) = {}
    <3>1. Visited' = {} /\ Visited = {}  BY <1>6, <1>14, <1>15, <2>1 DEF Visited
    <3>2. w.spec \in Seq(Types \union Groups)  BY <1>2 DEF Locals
    <3>3. i \in Nat /\ i >= 1  BY <3>2
    <3>4. Part(i)' = {}  BY <1>4, <1>6, <3>3 DEF Part
    <3>5. Counted(i) = {}  BY <1>1, <3>1 DEF Counted
    <3>6. PICK h : h = Head(w'.todo)  OBVIOUS
    <3>7. PICK C : C = CountedTypes(w.spec[i])'  OBVIOUS
    <3>8. Counted(i)' = ({} \X C) \union (IF w'.pc \in {"count", "group"} THEN {h} \X {} ELSE {})
      BY <1>6, <3>1, <3>4, <3>6, <3>7 DEF Counted, CountedTypes, Covered
    <3>9. {} \X C = {} /\ {h} \X {} = {}  OBVIOUS
    <3> QED  BY <3>5, <3>8, <3>9
  <2> QED  BY <1>6, <1>14, <1>15, <2>1, <2>2, <2>3
<1>16. PassOK'  BY <1>4, <1>6, <1>14, <1>15 DEF PassOK, Cached
<1> QED  BY <1>10, <1>11, <1>12, <1>13, <1>16 DEF PassInv

(* One more type is counted in the namespace at hand.                      *)
LEMMA AddCell ==
    ASSUME TypeOK, NEW ns \in members, NEW t \in Types, NEW cells,
           cells \subseteq members \X Calculated, <<ns, t>> \notin cells
    PROVE  /\ SumFunctionOnSet(Use, cells) \in Nat /\ Units(ns, t) \in Nat
           /\ SumFunctionOnSet(Use, cells \union ({ns} \X ({t} \intersect Calculated))) =
                 SumFunctionOnSet(Use, cells) + Units(ns, t)
<1>1. /\ ns \in Namespaces /\ members \subseteq Namespaces /\ Calculated \subseteq Types
      /\ objects[ns][t] \in Nat /\ Use[<<ns, t>>] = objects[ns][t]
  BY Cells
<1>2. PICK f : f = Use  OBVIOUS
<1>3. \A x \in members \X Calculated : f[x] \in Nat
  <2> SUFFICES ASSUME NEW n1 \in members, NEW t1 \in Calculated PROVE f[<<n1, t1>>] \in Nat
    OBVIOUS
  <2> QED  BY <1>1, <1>2, Cells
<1>4. cells \subseteq Namespaces \X Types /\ IsFiniteSet(cells)  BY <1>1, Cells
<1>5. SumFunctionOnSet(f, cells) \in Nat  BY <1>3, <1>4, SumNat
<1>6. CASE t \in Calculated
  <2>1. PICK more : more = cells \union {<<ns, t>>}  OBVIOUS
  <2>2. more \subseteq members \X Calculated /\ more \subseteq Namespaces \X Types
    BY <1>1, <1>6, <2>1
  <2>3. IsFiniteSet(more) /\ \A x \in more : f[x] \in Nat  BY <1>3, <2>2, Cells
  <2>4. <<ns, t>> \in more /\ more \ {<<ns, t>>} = cells  BY <2>1
  <2>5. SumFunctionOnSet(f, more) = f[<<ns, t>>] + SumFunctionOnSet(f, cells)
    BY <2>3, <2>4, SumWithout
  <2>6. cells \union ({ns} \X ({t} \intersect Calculated)) = more  BY <1>6, <2>1
  <2>7. Units(ns, t) = objects[ns][t]  BY <1>6 DEF Units
  <2>8. SumFunctionOnSet(f, more) = SumFunctionOnSet(f, cells) + objects[ns][t]
    BY <1>1, <1>2, <1>5, <2>5
  <2> QED  BY <1>1, <1>2, <1>5, <2>6, <2>7, <2>8
<1>7. CASE t \notin Calculated
  <2>1. cells \union ({ns} \X ({t} \intersect Calculated)) = cells  BY <1>7
  <2>2. Units(ns, t) = 0  BY <1>7 DEF Units
  <2> QED  BY <1>2, <1>5, <2>1, <2>2
<1> QED  BY <1>6, <1>7

(* The loops go on, with one more quota counted.                           *)
LEMMA AdvanceStep ==
    ASSUME IInv, Working, w.pc \in {"count", "group"}, NEW v \in Locals, w' = Advance(v),
           v.spec = w.spec, v.todo = w.todo, v.i = w.i, v.kinds = w.kinds,
           v.turn = w.turn, DOMAIN v.counts = DOMAIN w.spec,
           \A q \in Types \union Groups :
               v.nsUsed[q] # None => \E k \in DOMAIN w.spec : w.spec[k] = q /\ k <= w.i,
           Fresh /\ IsInjective(w.spec) =>
              \A t \in Types :
                 v.nsUsed[t] # None => v.nsUsed[t].used = Units(Head(w.todo), t),
           Fresh /\ IsInjective(w.spec) =>
              \A i \in DOMAIN w.spec :
                 /\ i = w.i => v.counts[i].used = SumFunctionOnSet(Use, Full(i))
                 /\ i # w.i => v.counts[i].used = SumFunctionOnSet(Use, Counted(i))
    PROVE  TypeOK' /\ PassInv'
<1>1. TypeOK /\ LocalsOK  BY DEF IInv
<1>2. /\ w.spec \in Specs /\ w.i \in DOMAIN w.spec /\ w.todo # <<>> /\ IsInjective(w.todo)
      /\ w.turn \subseteq w.kinds
  BY <1>1 DEF TypeOK, LocalsOK
<1>3. /\ w' \in Locals /\ w'.spec = w.spec /\ w'.kinds = w.kinds /\ w'.turn = w.turn
      /\ w'.counts = v.counts /\ IsInjective(w'.todo)
      /\ \/ /\ w.i + 1 \in DOMAIN w.spec
            /\ w'.pc = "count" /\ w'.i = w.i + 1 /\ w'.todo = w.todo /\ w'.nsUsed = v.nsUsed
         \/ /\ Tail(w.todo) # <<>>
            /\ w'.pc = "count" /\ w'.i = 1 /\ w'.todo = Tail(w.todo)
            /\ w'.nsUsed = NothingCached
         \/ w'.pc = "patch" /\ w'.todo = <<>>
  BY <1>2, AdvanceIs
<1>4. /\ w'.pc \in {"count", "patch"}
      /\ w'.pc = "patch" => w'.todo = <<>>
      /\ w'.pc = "count" => w'.i \in DOMAIN w.spec /\ w'.todo # <<>>
  <2>1. w.spec \in Seq(Types \union Groups)  BY <1>2, QuotasAssumption
  <2>2. 1 \in DOMAIN w.spec  BY <1>2, <2>1
  <2> QED  BY <1>2, <1>3, <2>2
<1>5. /\ TypeOK' /\ Fresh' = Fresh /\ members' = members /\ spec' = spec
      /\ objects' = objects /\ Use' = Use
  BY <1>1, <1>2, <1>3, <1>4, WorkingType
<1>6. LocalsOK'  BY <1>2, <1>3, <1>4 DEF LocalsOK
<1>7. \A q \in Types \union Groups : NothingCached[q] = None  BY DEF NothingCached
<1>8. CacheOK'
  <2> SUFFICES ASSUME w'.pc = "count", NEW q \in Types \union Groups, w'.nsUsed[q] # None
               PROVE  \E k \in DOMAIN w.spec : w.spec[k] = q /\ k < w'.i
    BY <1>3, <1>4 DEF CacheOK, Cached
  <2> HIDE DEF NothingCached
  <2>1. CASE w'.i = w.i + 1 /\ w'.nsUsed = v.nsUsed
    <3>1. PICK k \in DOMAIN w.spec : w.spec[k] = q /\ k <= w.i  BY <2>1
    <3>2. w.spec \in Seq(Types \union Groups)  BY <1>2, QuotasAssumption
    <3>3. k \in Nat /\ w.i \in Nat  BY <1>2, <3>2
    <3>4. k < w'.i  BY <2>1, <3>1, <3>3
    <3> QED  BY <3>1, <3>4
  <2>2. CASE w'.nsUsed = NothingCached  BY <1>7, <2>2
  <2> QED  BY <1>3, <2>1, <2>2
<1>9. ASSUME Fresh' PROVE PassOK'
  <2>1. /\ w.spec = spec /\ Range(w.todo) \subseteq members /\ w.kinds = Types
    BY <1>1, <1>5, <1>9 DEF IInv, PassOK
  <2>2. Range(w'.todo) \subseteq members
    BY <1>1, <1>2, <1>5, <2>1, AdvanceCounts
  <2>3. ASSUME IsInjective(w.spec), w'.pc = "count", NEW t \in Types, w'.nsUsed[t] # None
        PROVE  w'.nsUsed[t].used = Units(Head(w.todo), t)'
    <3>1. w'.todo = w.todo /\ w'.nsUsed = v.nsUsed
      <4> HIDE DEF NothingCached
      <4>1. w'.nsUsed # NothingCached  BY <1>7, <2>3
      <4> QED  BY <1>3, <2>3, <4>1
    <3>2. v.nsUsed[t].used = Units(Head(w.todo), t)  BY <1>5, <1>9, <2>3, <3>1
    <3> QED  BY <1>5, <3>1, <3>2 DEF Units
  <2>4. ASSUME IsInjective(w.spec), NEW i \in DOMAIN w.spec
        PROVE  w'.counts[i].used = SumFunctionOnSet(Use, Counted(i))'
    <3>1. /\ i = w.i => Counted(i)' = Full(i)
          /\ i # w.i => Counted(i)' = Counted(i)
      BY <1>1, <1>2, <1>5, <2>1, AdvanceCounts
    <3>2. /\ i = w.i => v.counts[i].used = SumFunctionOnSet(Use, Full(i))
          /\ i # w.i => v.counts[i].used = SumFunctionOnSet(Use, Counted(i))
      BY <1>5, <1>9, <2>4
    <3>3. CASE i = w.i
      <4>1. v.counts[i].used = SumFunctionOnSet(Use, Full(i)) /\ Counted(i)' = Full(i)
        BY <3>1, <3>2, <3>3
      <4> QED  BY <1>3, <1>5, <4>1
    <3>4. CASE i # w.i
      <4>1. v.counts[i].used = SumFunctionOnSet(Use, Counted(i)) /\ Counted(i)' = Counted(i)
        BY <3>1, <3>2, <3>4
      <4> QED  BY <1>3, <1>5, <4>1
    <3> QED  BY <3>3, <3>4
  <2> QED  BY <1>3, <1>4, <1>5, <2>1, <2>2, <2>3, <2>4 DEF PassOK, Cached
<1>10. StatusOK'  BY <1>4 DEF StatusOK
<1>11. PassOK'  BY <1>9 DEF PassOK
<1> QED  BY <1>5, <1>6, <1>8, <1>10, <1>11 DEF PassInv

(* Where the loops are.                                                    *)
LEMMA AtQuota ==
    ASSUME IInv, w.pc \in {"count", "group"}
    PROVE  /\ TypeOK /\ LocalsOK /\ w \in Locals /\ w.spec \in Specs
           /\ w.spec \in Seq(Types \union Groups)
           /\ w.i \in DOMAIN w.spec /\ w.i \in Nat /\ \A i \in DOMAIN w.spec : i \in Nat
           /\ DOMAIN w.counts = DOMAIN w.spec /\ w.counts[w.i] \in Count
           /\ Quota = w.spec[w.i] /\ Quota \in Types \union Groups
           /\ w.todo # <<>> /\ Head(w.todo) \in Namespaces
           /\ Fresh => /\ w.kinds = Types /\ Range(w.todo) \subseteq members
                       /\ Head(w.todo) \in members /\ Head(w.todo) \notin Visited
<1>1. TypeOK /\ LocalsOK /\ w \in Locals /\ w.spec \in Specs
  BY DEF IInv, LocalsOK
<1>2. /\ w.spec \in Seq(Types \union Groups) /\ w.counts \in Seq(Count)
      /\ w.todo \in Seq(Namespaces)
  BY <1>1 DEF Locals
<1>3. /\ w.i \in DOMAIN w.spec /\ w.todo # <<>> /\ DOMAIN w.counts = DOMAIN w.spec
      /\ IsInjective(w.todo)
  BY <1>1 DEF TypeOK, LocalsOK
<1>4. \A i \in DOMAIN w.spec : i \in Nat /\ w.spec[i] \in Types \union Groups  BY <1>2
<1>5. \A i \in DOMAIN w.counts : w.counts[i] \in Count  BY <1>2
<1>6. Head(w.todo) \in Namespaces /\ Head(w.todo) \in Range(w.todo)
  BY <1>2, <1>3, HeadAndTail
<1>7. Fresh => w.kinds = Types /\ Range(w.todo) \subseteq members
  BY DEF IInv, PassOK
<1> QED  BY <1>1, <1>2, <1>3, <1>4, <1>5, <1>6, <1>7 DEF Quota, Visited

(* The total of one quota changes.                                         *)
LEMMA CountsChange ==
    ASSUME IInv, w.pc \in {"count", "group"}, NEW c \in Count, NEW z,
           z = [w.counts EXCEPT ![w.i] = c]
    PROVE  /\ z \in Seq(Count) /\ DOMAIN z = DOMAIN w.spec /\ z[w.i] = c
           /\ \A i \in DOMAIN w.spec : i # w.i => z[i] = w.counts[i]
<1>1. w.counts \in Seq(Count)  BY AtQuota DEF Locals
<1>2. PICK n \in Nat : DOMAIN w.counts = 1 .. n /\ w.counts \in [1 .. n -> Count]  BY <1>1
<1>3. z \in [1 .. n -> Count]  BY <1>2
<1>4. z \in Seq(Count)  BY <1>2, <1>3
<1>5. DOMAIN w.counts = DOMAIN w.spec /\ w.i \in DOMAIN w.spec  BY AtQuota
<1> QED  BY <1>2, <1>3, <1>4, <1>5

(* A key that was counted before: the list names a quota twice.            *)
LEMMA AgainStep ==
    ASSUME IInv, CountAgain
    PROVE  TypeOK' /\ PassInv'
<1>1. w.pc = "count" /\ Working /\ Cached(Quota)  BY DEF CountAgain, Working
<1>2. PICK c, z, v : /\ c = w.nsUsed[Quota] /\ z = [w.counts EXCEPT ![w.i] = c]
                     /\ v = [w EXCEPT !.counts = z]
  OBVIOUS
<1>3. w \in Locals /\ w' = Advance(v)
  <2>1. w \in Locals  BY <1>1, AtQuota
  <2>2. v = [w EXCEPT !.counts[w.i] = w.nsUsed[Quota]]  BY <1>2, <2>1 DEF Locals
  <2> QED  BY <2>1, <2>2 DEF CountAgain
<1>4. c \in Count
  <2>1. w.nsUsed \in Cache /\ Quota \in Types \union Groups  BY <1>1, <1>3, AtQuota DEF Locals
  <2> QED  BY <1>1, <1>2, <2>1 DEF Cached, Cache
<1>5. z \in Seq(Count) /\ DOMAIN z = DOMAIN w.spec  BY <1>1, <1>2, <1>4, CountsChange
<1>6. /\ v \in Locals /\ v.spec = w.spec /\ v.todo = w.todo /\ v.i = w.i
      /\ v.kinds = w.kinds /\ v.turn = w.turn /\ v.counts = z /\ v.nsUsed = w.nsUsed
  BY <1>2, <1>3, <1>5 DEF Locals
<1>7. \A q \in Types \union Groups :
          w.nsUsed[q] # None => \E k \in DOMAIN w.spec : w.spec[k] = q /\ k < w.i
  BY <1>1 DEF IInv, CacheOK, Cached
<1>8. ~ IsInjective(w.spec)
  <2>1. Quota \in Types \union Groups /\ Quota = w.spec[w.i] /\ w.i \in DOMAIN w.spec
        /\ w.i \in Nat
    BY <1>1, AtQuota
  <2>2. PICK k \in DOMAIN w.spec : w.spec[k] = w.spec[w.i] /\ k < w.i
    BY <1>1, <1>7, <2>1 DEF Cached
  <2>3. k # w.i  BY <2>1, <2>2
  <2> QED  BY <2>1, <2>2, <2>3 DEF IsInjective
<1>9. \A q \in Types \union Groups :
          v.nsUsed[q] # None => \E k \in DOMAIN w.spec : w.spec[k] = q /\ k <= w.i
  <2>1. \A k \in DOMAIN w.spec : k < w.i => k <= w.i  BY <1>1, AtQuota
  <2> QED  BY <1>6, <1>7, <2>1
<1> QED  BY <1>1, <1>3, <1>5, <1>6, <1>8, <1>9, AdvanceStep

(* The cells of a quota, before and after it is counted.                   *)
LEMMA CellsOfQuota ==
    ASSUME IInv, w.pc \in {"count", "group"}
    PROVE  /\ w.pc = "count" => Counted(w.i) = Visited \X CountedTypes(Quota)
           /\ w.pc = "group" => Counted(w.i) = (Visited \X CountedTypes(Quota)) \union
                                    ({Head(w.todo)} \X (CountedTypes(Quota) \ w.turn))
           /\ Full(w.i) = (Visited \X CountedTypes(Quota)) \union
                          ({Head(w.todo)} \X CountedTypes(Quota))
<1>1. Quota = w.spec[w.i] /\ w.i \in Nat  BY AtQuota
<1>2. PICK C, V, h : C = CountedTypes(Quota) /\ V = Visited /\ h = Head(w.todo)  OBVIOUS
<1>3. /\ w.pc = "count" => Part(w.i) = {}
      /\ w.pc = "group" => Part(w.i) = C \ w.turn
  BY <1>1, <1>2 DEF Part
<1>4. {h} \X {} = {} /\ (V \union {h}) \X C = (V \X C) \union ({h} \X C)  OBVIOUS
<1>5. Counted(w.i) = (V \X C) \union ({h} \X Part(w.i))  BY <1>1, <1>2 DEF Counted
<1>6. Full(w.i) = (V \union {h}) \X C  BY <1>1, <1>2 DEF Full
<1> QED  BY <1>2, <1>3, <1>4, <1>5, <1>6

(* What a namespace uses of a type.                                        *)
LEMMA UsedIsUnits ==
    ASSUME TypeOK, NEW ns \in Namespaces, NEW t \in Types
    PROVE  UsedQuota(ns, t) \in Count /\ UsedQuota(ns, t).used = Units(ns, t)
<1>1. objects[ns][t] \in Nat  BY Cells
<1>2. CASE t \in Calculated  BY <1>1, <1>2 DEF UsedQuota, Units, Count, Results
<1>3. CASE t \notin Calculated
  <2>1. UsedQuota(ns, t) = [used |-> 0, result |-> IF objects[ns][t] > 0 THEN "Error" ELSE "Success"]
    BY <1>3 DEF UsedQuota
  <2>2. PICK r : r = IF objects[ns][t] > 0 THEN "Error" ELSE "Success"  OBVIOUS
  <2>3. r \in Results  BY <2>2 DEF Results
  <2> QED  BY <1>3, <2>1, <2>2, <2>3 DEF Units, Count
<1> QED  BY <1>2, <1>3

(* A quota of one type is counted.                                         *)
LEMMA TypeStep ==
    ASSUME IInv, CountType
    PROVE  TypeOK' /\ PassInv'
<1>1. w.pc = "count" /\ Quota \in Types /\ ~ Cached(Quota)  BY DEF CountType
<1>2. CASE Quota \notin w.kinds \intersect Namespaced
  <2>1. /\ UNCHANGED <<cluster, events>> /\ w' = Idle /\ queued' = TRUE
        /\ missed' = missed /\ spent' = spent /\ status' = status
    BY <1>2 DEF CountType, ReturnErr
  <2>2. status' # None => /\ status'.quotas \in Specs
                          /\ status'.counts \in [DOMAIN status'.quotas -> Count]
    BY <2>1 DEF IInv, TypeOK
  <2> QED  BY <2>1, <2>2, Stops
<1>3. CASE Quota \in w.kinds \intersect Namespaced
  <2>1. Working  BY <1>3 DEF CountType, Working
  <2>2. PICK q, h, u : q = Quota /\ h = Head(w.todo) /\ u = UsedQuota(h, q)  OBVIOUS
  <2>3. /\ TypeOK /\ w \in Locals /\ w.i \in DOMAIN w.spec /\ w.i \in Nat
        /\ q = w.spec[w.i] /\ q \in Types /\ h \in Namespaces /\ w.counts[w.i] \in Count
        /\ Fresh => h \in members /\ h \notin Visited
    BY <1>1, <2>2, AtQuota
  <2>4. u \in Count /\ u.used = Units(h, q)  BY <2>2, <2>3, UsedIsUnits
  <2>5. PICK c : c = [used |-> w.counts[w.i].used + u.used, result |-> u.result]  OBVIOUS
  <2>6. c \in Count /\ c.used = w.counts[w.i].used + Units(h, q)
    BY <2>3, <2>4, <2>5 DEF Count
  <2>7. PICK z, n, v : /\ z = [w.counts EXCEPT ![w.i] = c]
                       /\ n = [w.nsUsed EXCEPT ![q] = u]
                       /\ v = [w EXCEPT !.nsUsed = n, !.counts = z]
    OBVIOUS
  <2>8. w' = Advance(v)
    <3>1. v = [w EXCEPT !.nsUsed[Quota] = u,
                        !.counts[w.i] = [used |-> @.used + u.used, result |-> u.result]]
      BY <2>2, <2>3, <2>5, <2>7 DEF Locals
    <3> QED  BY <1>3, <2>2, <3>1 DEF CountType
  <2>9. /\ z \in Seq(Count) /\ DOMAIN z = DOMAIN w.spec /\ z[w.i] = c
        /\ \A i \in DOMAIN w.spec : i # w.i => z[i] = w.counts[i]
    BY <1>1, <2>6, <2>7, CountsChange
  <2>10. /\ n \in Cache /\ n[q] = u
         /\ \A x \in Types \union Groups : x # q => n[x] = w.nsUsed[x]
    BY <2>3, <2>4, <2>7 DEF Locals, Cache
  <2>11. /\ v \in Locals /\ v.spec = w.spec /\ v.todo = w.todo /\ v.i = w.i
         /\ v.kinds = w.kinds /\ v.turn = w.turn /\ v.counts = z /\ v.nsUsed = n
    BY <2>3, <2>7, <2>9, <2>10 DEF Locals
  <2>12. \A x \in Types \union Groups :
            v.nsUsed[x] # None => \E k \in DOMAIN w.spec : w.spec[k] = x /\ k <= w.i
    <3> SUFFICES ASSUME NEW x \in Types \union Groups, n[x] # None
                 PROVE  \E k \in DOMAIN w.spec : w.spec[k] = x /\ k <= w.i
      BY <2>11
    <3>1. CASE x = q
      <4>1. w.i <= w.i  BY <2>3
      <4> QED  BY <2>3, <3>1, <4>1
    <3>2. CASE x # q
      <4>1. w.nsUsed[x] # None  BY <2>10, <3>2
      <4>2. PICK k \in DOMAIN w.spec : w.spec[k] = x /\ k < w.i
        BY <1>1, <4>1 DEF IInv, CacheOK, Cached
      <4>3. k \in Nat  BY <1>1, AtQuota
      <4>4. k <= w.i  BY <2>3, <4>2, <4>3
      <4> QED  BY <4>2, <4>4
    <3> QED  BY <3>1, <3>2
  <2>13. ASSUME Fresh, IsInjective(w.spec), NEW t \in Types, n[t] # None
         PROVE  n[t].used = Units(h, t)
    <3>1. CASE t = q  BY <2>4, <2>10, <3>1
    <3>2. CASE t # q
      <4>1. n[t] = w.nsUsed[t]  BY <2>10, <3>2
      <4>2. w.nsUsed[t].used = Units(Head(w.todo), t)
        BY <1>1, <2>13, <4>1 DEF IInv, PassOK, Cached
      <4> QED  BY <2>2, <4>1, <4>2
    <3> QED  BY <3>1, <3>2
  <2>14. ASSUME Fresh, IsInjective(w.spec), NEW i \in DOMAIN w.spec
         PROVE  /\ i = w.i => z[i].used = SumFunctionOnSet(Use, Full(i))
                /\ i # w.i => z[i].used = SumFunctionOnSet(Use, Counted(i))
    <3>1. w.counts[i].used = SumFunctionOnSet(Use, Counted(i))
      BY <1>1, <2>14 DEF IInv, PassOK
    <3>2. CASE i # w.i  BY <2>9, <3>1, <3>2
    <3>3. CASE i = w.i
      <4>1. CountedTypes(q) = {q} \intersect Calculated
        BY <2>3, TypesAssumption DEF CountedTypes, Covered
      <4>2. PICK cells, C : cells = Counted(w.i) /\ C = {q} \intersect Calculated  OBVIOUS
      <4>3. cells = Visited \X C /\ Full(w.i) = cells \union ({h} \X C)
        BY <1>1, <2>2, <4>1, <4>2, CellsOfQuota
      <4>4. h \in members /\ h \notin Visited  BY <2>3, <2>14
      <4>5. <<h, q>> \notin cells  BY <4>3, <4>4
      <4>6. cells \subseteq members \X Calculated  BY <4>2, <4>3 DEF Visited
      <4>7. SumFunctionOnSet(Use, cells \union ({h} \X C)) =
               SumFunctionOnSet(Use, cells) + Units(h, q)
        BY <2>3, <4>2, <4>4, <4>5, <4>6, AddCell
      <4>8. z[i].used = w.counts[w.i].used + Units(h, q)  BY <2>6, <2>9, <3>3
      <4> QED  BY <3>1, <3>3, <4>2, <4>3, <4>7, <4>8
    <3> QED  BY <3>2, <3>3
  <2> QED  BY <1>1, <2>1, <2>2, <2>8, <2>9, <2>11, <2>12, <2>13, <2>14, AdvanceStep
<1> QED  BY <1>2, <1>3

(* A quota of a group is closed when its types are counted.                *)
LEMMA CloseStep ==
    ASSUME IInv, CloseGroup
    PROVE  TypeOK' /\ PassInv'
<1>1. w.pc = "group" /\ w.turn = {} /\ w' = Advance(w) /\ Working
  BY DEF CloseGroup, Working
<1>2. PICK v : v = w  OBVIOUS
<1>3. w \in Locals /\ DOMAIN w.counts = DOMAIN w.spec /\ Counted(w.i) = Full(w.i)
  <2>1. PICK C : C = CountedTypes(Quota)  OBVIOUS
  <2>2. C \ {} = C  OBVIOUS
  <2>3. Counted(w.i) = Full(w.i)  BY <1>1, <2>1, <2>2, CellsOfQuota
  <2> QED  BY <1>1, <2>3, AtQuota
<1>4. ASSUME NEW q \in Types \union Groups, w.nsUsed[q] # None
      PROVE  \E k \in DOMAIN w.spec : w.spec[k] = q /\ k <= w.i
  <2>1. PICK k \in DOMAIN w.spec : w.spec[k] = q /\ (k < w.i \/ k = w.i)
    BY <1>1, <1>4 DEF IInv, CacheOK, Cached
  <2>2. k \in Nat /\ w.i \in Nat  BY <1>1, AtQuota
  <2>3. k <= w.i  BY <2>1, <2>2
  <2> QED  BY <2>1, <2>3
<1>5. Fresh /\ IsInjective(w.spec) =>
         \A t \in Types : w.nsUsed[t] # None => w.nsUsed[t].used = Units(Head(w.todo), t)
  BY <1>1 DEF IInv, PassOK, Cached
<1>6. ASSUME Fresh, IsInjective(w.spec), NEW i \in DOMAIN w.spec
      PROVE  /\ i = w.i => w.counts[i].used = SumFunctionOnSet(Use, Full(i))
             /\ i # w.i => w.counts[i].used = SumFunctionOnSet(Use, Counted(i))
  <2>1. w.counts[i].used = SumFunctionOnSet(Use, Counted(i))
    BY <1>1, <1>6 DEF IInv, PassOK
  <2>2. CASE i = w.i  BY <1>3, <2>1, <2>2
  <2> QED  BY <2>1, <2>2
<1> QED  BY <1>1, <1>2, <1>3, <1>4, <1>5, <1>6, AdvanceStep

(* A quota of a group is opened; none of its types is counted yet.         *)
LEMMA OpenStep ==
    ASSUME IInv, OpenGroup
    PROVE  TypeOK' /\ PassInv'
<1>1. w.pc = "count" /\ Quota \in Groups /\ Working  BY DEF OpenGroup, Working
<1>2. PICK T : T = {t \in w.kinds : GroupOf[t] = Quota}  OBVIOUS
<1>3. /\ TypeOK /\ LocalsOK /\ w \in Locals /\ w.spec \in Specs /\ w.i \in DOMAIN w.spec
      /\ w.todo # <<>> /\ DOMAIN w.counts = DOMAIN w.spec /\ IsInjective(w.todo)
      /\ w.i \in Nat /\ \A i \in DOMAIN w.spec : i \in Nat
  BY <1>1, AtQuota DEF LocalsOK
<1>4. w' = [w EXCEPT !.pc = "group", !.turn = T]  BY <1>2 DEF OpenGroup
<1>5. /\ w'.pc = "group" /\ w'.spec = w.spec /\ w'.todo = w.todo /\ w'.i = w.i
      /\ w'.nsUsed = w.nsUsed /\ w'.counts = w.counts /\ w'.kinds = w.kinds /\ w'.turn = T
  BY <1>3, <1>4 DEF Locals
<1>6. w' \in Locals
  <2>1. T \subseteq Types /\ "group" \in Stages  BY <1>2, <1>3 DEF Locals, Stages
  <2> QED  BY <1>3, <1>4, <2>1 DEF Locals
<1>7. TypeOK' /\ Fresh' = Fresh /\ members' = members /\ spec' = spec /\ objects' = objects
      /\ Use' = Use
  <2>1. T \subseteq w.kinds  BY <1>2
  <2> QED  BY <1>1, <1>3, <1>5, <1>6, <2>1, WorkingType
<1>8. LocalsOK'
  <2>1. Quota' = Quota  BY <1>5 DEF Quota
  <2>2. \A t \in T : GroupOf[t] = Quota  BY <1>2
  <2> QED  BY <1>1, <1>3, <1>5, <1>6, <2>1, <2>2 DEF LocalsOK
<1>9. CacheOK'
  <2>1. \A q \in Types \union Groups :
           w.nsUsed[q] # None => \E k \in DOMAIN w.spec : w.spec[k] = q /\ k < w.i
    BY <1>1 DEF IInv, CacheOK, Cached
  <2> QED  BY <1>5, <2>1 DEF CacheOK, Cached
<1>10. StatusOK'  BY <1>5 DEF StatusOK
<1>11. ASSUME Fresh' PROVE PassOK'
  <2>1. /\ w.spec = spec /\ Range(w.todo) \subseteq members /\ w.kinds = Types
        /\ IsInjective(w.spec) =>
              \A t \in Types : w.nsUsed[t] # None => w.nsUsed[t].used = Units(Head(w.todo), t)
        /\ IsInjective(w.spec) =>
              \A i \in DOMAIN w.spec : w.counts[i].used = SumFunctionOnSet(Use, Counted(i))
    BY <1>1, <1>7, <1>11 DEF IInv, PassOK, Cached
  <2>2. ASSUME NEW i \in DOMAIN w.spec PROVE Counted(i)' = Counted(i)
    <3>1. Visited' = Visited /\ Head(w'.todo) = Head(w.todo)
      BY <1>5, <1>7 DEF Visited
    <3>2. Part(i)' = Part(i)
      <4>1. CASE i < w.i  BY <1>5, <4>1 DEF Part, CountedTypes, Covered
      <4>2. CASE ~ i < w.i /\ i # w.i  BY <1>5, <4>2 DEF Part
      <4>3. CASE i = w.i
        <5>1. ~ i < w.i  BY <1>3, <4>3
        <5>2. Part(i) = {}  BY <1>1, <5>1 DEF Part
        <5>3. T = {t \in Types : GroupOf[t] = Quota}  BY <1>2, <2>1
        <5>4. Covered(Quota) = T  BY <1>1, <5>3, TypesAssumption DEF Covered
        <5>5. CountedTypes(w.spec[i]) \subseteq T  BY <4>3, <5>4 DEF CountedTypes, Quota
        <5>6. Part(i)' = CountedTypes(w.spec[i]) \ T
          BY <1>5, <4>3, <5>1 DEF Part, CountedTypes, Covered
        <5> QED  BY <5>2, <5>5, <5>6
      <4> QED  BY <4>1, <4>2, <4>3
    <3> QED  BY <1>1, <1>5, <3>1, <3>2 DEF Counted, CountedTypes, Covered
  <2> QED  BY <1>5, <1>7, <2>1, <2>2 DEF PassOK, Cached, Units
<1>12. PassOK'  BY <1>11 DEF PassOK
<1> QED  BY <1>7, <1>8, <1>9, <1>10, <1>12 DEF PassInv

(* A type of a group is counted, or taken from the cache.                  *)
LEMMA GroupStep ==
    ASSUME IInv, NEW t \in Types, CountOfGroup(t)
    PROVE  TypeOK' /\ PassInv'
<1>1. w.pc = "group" /\ t \in w.turn  BY DEF CountOfGroup
<1>2. CASE t \notin Namespaced
  <2>1. /\ UNCHANGED <<cluster, events>> /\ w' = Idle /\ queued' = TRUE
        /\ missed' = missed /\ spent' = spent /\ status' = status
    BY <1>2 DEF CountOfGroup, ReturnErr
  <2>2. status' # None => /\ status'.quotas \in Specs
                          /\ status'.counts \in [DOMAIN status'.quotas -> Count]
    BY <2>1 DEF IInv, TypeOK
  <2> QED  BY <2>1, <2>2, Stops
<1>3. CASE t \in Namespaced
  <2>1. Working  BY <1>3 DEF CountOfGroup, Working
  <2>2. PICK q, h, u : /\ q = Quota /\ h = Head(w.todo)
                       /\ u = IF Cached(t) THEN w.nsUsed[t] ELSE UsedQuota(h, t)
    OBVIOUS
  <2>3. /\ TypeOK /\ LocalsOK /\ w \in Locals /\ w.i \in DOMAIN w.spec /\ w.i \in Nat
        /\ w.spec \in Specs /\ DOMAIN w.counts = DOMAIN w.spec /\ IsInjective(w.todo)
        /\ w.todo # <<>> /\ w.turn \subseteq w.kinds
        /\ q = w.spec[w.i] /\ q \in Groups /\ GroupOf[t] = q /\ h \in Namespaces
        /\ w.counts[w.i] \in Count /\ \A i \in DOMAIN w.spec : i \in Nat
        /\ \A t1 \in w.turn : GroupOf[t1] = q
        /\ Fresh => h \in members /\ h \notin Visited
    BY <1>1, <2>2, AtQuota DEF LocalsOK, TypeOK
  <2>4. t \in Types \union Groups /\ w.nsUsed \in Cache  BY <2>3 DEF Locals
  <2>5. u \in Count
    BY <2>2, <2>3, <2>4, UsedIsUnits DEF Cache, Cached
  <2>6. PICK r : r = IF "Error" \in {w.counts[w.i].result, u.result} THEN "Error" ELSE "Success"
    OBVIOUS
  <2>7. PICK c : c = [used |-> w.counts[w.i].used + u.used, result |-> r]  OBVIOUS
  <2>8. c \in Count /\ c.used = w.counts[w.i].used + u.used
    <3>1. r \in Results  BY <2>6 DEF Results
    <3> QED  BY <2>3, <2>5, <2>7, <3>1 DEF Count
  <2>9. PICK m : m = IF Cached(t) THEN w.nsUsed[q] ELSE u  OBVIOUS
  <2>10. m \in Count \union {None}
    <3>1. w.nsUsed[q] \in Count \union {None}  BY <2>3, <2>4 DEF Cache
    <3> QED  BY <2>5, <2>9, <3>1
  <2>11. PICK z, n, T : /\ z = [w.counts EXCEPT ![w.i] = c]
                        /\ n = [w.nsUsed EXCEPT ![q] = m]
                        /\ T = w.turn \ {t}
    OBVIOUS
  <2>12. w' = [w EXCEPT !.turn = T, !.nsUsed = n, !.counts = z]
    <3>1. w' = [w EXCEPT !.turn = @ \ {t},
                         !.nsUsed[q] = IF Cached(t) THEN @ ELSE u,
                         !.counts[w.i] = [used |-> @.used + u.used, result |-> r]]
      BY <1>3, <2>2, <2>6 DEF CountOfGroup
    <3> QED  BY <2>3, <2>7, <2>9, <2>11, <3>1 DEF Locals
  <2>13. /\ z \in Seq(Count) /\ DOMAIN z = DOMAIN w.spec /\ z[w.i] = c
         /\ \A i \in DOMAIN w.spec : i # w.i => z[i] = w.counts[i]
    BY <1>1, <2>8, <2>11, CountsChange
  <2>14. /\ n \in Cache /\ \A x \in Types \union Groups : x # q => n[x] = w.nsUsed[x]
    BY <2>4, <2>10, <2>11 DEF Cache
  <2>15. T \subseteq Types /\ T \subseteq w.turn  BY <2>3, <2>11 DEF Locals
  <2>16. /\ w'.pc = "group" /\ w'.spec = w.spec /\ w'.todo = w.todo /\ w'.i = w.i
         /\ w'.nsUsed = n /\ w'.counts = z /\ w'.kinds = w.kinds /\ w'.turn = T
    BY <1>1, <2>3, <2>12 DEF Locals
  <2>17. w' \in Locals  BY <2>3, <2>12, <2>13, <2>14, <2>15 DEF Locals
  <2>18. /\ TypeOK' /\ Fresh' = Fresh /\ members' = members /\ spec' = spec
         /\ objects' = objects /\ Use' = Use
    BY <2>1, <2>3, <2>15, <2>16, <2>17, WorkingType
  <2>19. LocalsOK'
    <3>1. Quota' = q  BY <2>3, <2>16 DEF Quota
    <3> QED  BY <2>3, <2>13, <2>15, <2>16, <2>17, <3>1 DEF LocalsOK
  <2>20. CacheOK'
    <3> SUFFICES ASSUME NEW x \in Types \union Groups, n[x] # None
                 PROVE  \E k \in DOMAIN w.spec : w.spec[k] = x /\ (k < w.i \/ k = w.i)
      BY <2>16 DEF CacheOK, Cached
    <3>1. CASE x = q  BY <2>3, <3>1
    <3>2. CASE x # q
      <4>1. w.nsUsed[x] # None  BY <2>14, <3>2
      <4> QED  BY <1>1, <4>1 DEF IInv, CacheOK, Cached
    <3> QED  BY <3>1, <3>2
  <2>21. StatusOK'  BY <2>16 DEF StatusOK
  <2>22. ASSUME Fresh', IsInjective(w.spec) PROVE u.used = Units(h, t)
    <3>1. CASE Cached(t)  BY <1>1, <2>2, <2>18, <2>22, <3>1 DEF IInv, PassOK
    <3>2. CASE ~ Cached(t)  BY <2>2, <2>3, <3>2, UsedIsUnits
    <3> QED  BY <3>1, <3>2
  <2>23. ASSUME Fresh', IsInjective(w.spec), NEW i \in DOMAIN w.spec
         PROVE  z[i].used = SumFunctionOnSet(Use, Counted(i)')
    <3>1. w.counts[i].used = SumFunctionOnSet(Use, Counted(i))
      BY <1>1, <2>18, <2>23 DEF IInv, PassOK
    <3>2. Visited' = Visited  BY <2>16, <2>18 DEF Visited
    <3>3. PICK C, V : C = CountedTypes(w.spec[i]) /\ V = Visited  OBVIOUS
    <3>4. CountedTypes(w.spec[i])' = C  BY <2>16, <3>3 DEF CountedTypes, Covered
    <3>5. Counted(i)' = (V \X C) \union ({h} \X Part(i)')
      BY <2>2, <2>16, <3>2, <3>3, <3>4 DEF Counted
    <3>6. Counted(i) = (V \X C) \union ({h} \X Part(i))
      BY <1>1, <2>2, <3>3 DEF Counted
    <3>7. CASE i # w.i
      <4>1. Part(i)' = Part(i)  BY <2>16, <3>7 DEF Part, CountedTypes, Covered
      <4>2. Counted(i)' = Counted(i)  BY <3>5, <3>6, <4>1
      <4> QED  BY <2>13, <3>1, <3>7, <4>2
    <3>8. CASE i = w.i
      <4>1. ~ i < w.i  BY <2>3, <3>8
      <4>2. Part(i) = C \ w.turn  BY <1>1, <3>3, <3>8, <4>1 DEF Part
      <4>3. Part(i)' = C \ T  BY <2>16, <3>4, <3>8, <4>1 DEF Part
      <4>4. {t} \intersect C = {t} \intersect Calculated
        BY <2>3, <3>3, <3>8 DEF CountedTypes, Covered
      <4>5. C \ T = (C \ w.turn) \union ({t} \intersect Calculated)
        BY <1>1, <2>11, <4>4
      <4>6. PICK cells : cells = Counted(i)  OBVIOUS
      <4>7. Counted(i)' = cells \union ({h} \X ({t} \intersect Calculated))
        <5>1. PICK P, D : P = C \ w.turn /\ D = {t} \intersect Calculated  OBVIOUS
        <5>2. {h} \X (P \union D) = ({h} \X P) \union ({h} \X D)  OBVIOUS
        <5> QED  BY <3>5, <3>6, <4>2, <4>3, <4>5, <4>6, <5>1, <5>2
      <4>8. h \in members /\ h \notin V  BY <2>3, <2>18, <2>23, <3>3
      <4>9. <<h, t>> \notin cells  BY <1>1, <3>6, <4>2, <4>6, <4>8
      <4>10. cells \subseteq members \X Calculated
        BY <3>3, <3>6, <4>2, <4>6, <4>8 DEF Visited, CountedTypes
      <4>11. SumFunctionOnSet(Use, cells \union ({h} \X ({t} \intersect Calculated))) =
               SumFunctionOnSet(Use, cells) + Units(h, t)
        BY <2>3, <4>8, <4>9, <4>10, AddCell
      <4>12. z[i].used = w.counts[i].used + Units(h, t)  BY <2>8, <2>13, <2>22, <2>23, <3>8
      <4> QED  BY <3>1, <4>6, <4>7, <4>11, <4>12
    <3> QED  BY <3>7, <3>8
  <2>24. ASSUME Fresh' PROVE PassOK'
    <3>1. /\ w.spec = spec /\ Range(w.todo) \subseteq members /\ w.kinds = Types
          /\ IsInjective(w.spec) =>
                \A t1 \in Types : w.nsUsed[t1] # None =>
                                      w.nsUsed[t1].used = Units(Head(w.todo), t1)
      BY <1>1, <2>18, <2>24 DEF IInv, PassOK, Cached
    <3>2. \A t1 \in Types : n[t1] = w.nsUsed[t1]  BY <2>3, <2>14, TypesAssumption
    <3> QED  BY <2>16, <2>18, <2>23, <2>24, <3>1, <3>2 DEF PassOK, Cached, Units
  <2>25. PassOK'  BY <2>24 DEF PassOK
  <2> QED  BY <2>18, <2>19, <2>20, <2>21, <2>25 DEF PassInv
<1> QED  BY <1>2, <1>3

(* The status is patched; a patch that changes it triggers another pass.   *)
LEMMA PatchStep ==
    ASSUME IInv, NEW out \in {"ok", "rejected", "lost"}, PatchStatus(out)
    PROVE  TypeOK' /\ PassInv'
<1>1. /\ w.pc = "patch" /\ w' = Idle /\ UNCHANGED <<cluster, events>> /\ missed' = missed
      /\ SpendFailure \/ spent' = spent
  BY DEF PatchStatus
<1>2. /\ TypeOK /\ LocalsOK /\ w \in Locals /\ w.spec \in Specs
      /\ DOMAIN w.counts = DOMAIN w.spec /\ (w.todo = <<>> \/ w.spec = <<>>)
  BY <1>1 DEF IInv, LocalsOK
<1>3. PICK new : new = [quotas |-> w.spec, counts |-> w.counts]  OBVIOUS
<1>4. /\ new.quotas \in Specs /\ new.counts \in [DOMAIN new.quotas -> Count]
      /\ new # None
  <2>1. w.counts \in Seq(Count)  BY <1>2 DEF Locals
  <2>2. w.counts \in [DOMAIN w.spec -> Count]  BY <1>2, <2>1
  <2>3. new \in [quotas : Specs, counts : Seq(Count)]  BY <1>2, <1>3, <2>1
  <2>4. new # None  BY <2>3, NoneAssumption
  <2> QED  BY <1>2, <1>3, <2>2, <2>4
<1>5. \/ status' = status /\ queued' = TRUE
      \/ status' = new /\ queued' = (queued \/ out # "ok" \/ new # status)
  BY <1>3 DEF PatchStatus, Notifies
<1>6. status' # None => /\ status'.quotas \in Specs
                        /\ status'.counts \in [DOMAIN status'.quotas -> Count]
  BY <1>2, <1>4, <1>5 DEF TypeOK
<1>7. CASE queued' = TRUE  BY <1>1, <1>6, <1>7, Stops
<1>8. CASE status' = new /\ queued' = (queued \/ out # "ok" \/ new # status)
  <2>1. /\ w' \in Locals /\ w'.pc = "idle" /\ w'.spec = <<>> /\ w'.todo = <<>>
        /\ w'.turn = {}
    BY <1>1, IdleType
  <2>2. TypeOK'
    <3>1. queued' \in BOOLEAN /\ missed' \in BOOLEAN
      BY <1>1, <1>2, <1>8 DEF TypeOK
    <3> QED  BY <1>1, <1>2, <1>6, <2>1, <3>1, TypeAfter
  <2>3. IsInjective(<<>>)  BY DEF IsInjective
  <2>4. LocalsOK' /\ CacheOK' /\ PassOK'
    BY <2>1, <2>3 DEF LocalsOK, CacheOK, PassOK
  <2>5. ASSUME Fresh', spec' # None, IsInjective(spec') PROVE StatusOK'
    <3>1. /\ objects' = objects /\ members' = members /\ spec' = spec
          /\ watched' = watched /\ events' = events
      BY <1>1 DEF cluster
    <3>2. ~ queued'  BY <2>5 DEF Fresh
    <3>3. queued = FALSE /\ status = new
      <4>1. ~ queued /\ ~ new # status  BY <1>8, <3>2
      <4>2. queued \in BOOLEAN  BY <1>2 DEF TypeOK
      <4> QED  BY <4>1, <4>2
    <3>4. Fresh  BY <1>1, <2>5, <3>1, <3>3 DEF Fresh
    <3>5. w.spec = spec /\ \A i \in DOMAIN w.spec :
                              w.counts[i].used = SumFunctionOnSet(Use, Counted(i))
      BY <1>1, <2>5, <3>1, <3>4 DEF IInv, PassOK
    <3>6. ASSUME NEW i \in DOMAIN spec PROVE status'.counts[i].used = Total(spec[i])'
      <4>1. w.spec # <<>>
        <5>1. w.spec \in Seq(Types \union Groups)  BY <1>2 DEF Locals
        <5> QED  BY <3>5, <3>6, <5>1
      <4>2. w.todo = <<>>  BY <1>2, <4>1
      <4>3. Range(<<>>) = {}  BY DEF Range
      <4>4. Visited = members  BY <4>2, <4>3 DEF Visited
      <4>5. Counted(i) = members \X CountedTypes(spec[i])
        BY <1>1, <3>5, <4>4 DEF Counted
      <4>6. PICK q : q = spec[i]  OBVIOUS
      <4>7. Total(q)' = Total(q)  BY <3>1 DEF Total, Use, Covered
      <4>8. Total(q) = SumFunctionOnSet(Use, Counted(i))
        BY <4>5, <4>6 DEF Total, CountedTypes
      <4>9. Total(spec[i])' = Total(q)'  BY <3>1, <4>6
      <4>10. status'.counts[i].used = w.counts[i].used  BY <1>3, <1>8
      <4> QED  BY <3>5, <3>6, <4>7, <4>8, <4>9, <4>10
    <3>7. status' # None /\ status'.quotas = spec  BY <1>3, <1>4, <1>8, <3>5
    <3> QED  BY <3>1, <3>6, <3>7 DEF StatusOK
  <2>6. StatusOK'  BY <2>5 DEF StatusOK
  <2> QED  BY <2>2, <2>4, <2>6 DEF PassInv
<1> QED  BY <1>5, <1>7, <1>8

---------------------------------------------------------------------------
(* The theorems.                                                           *)

(* Every step keeps the invariant.                                         *)
LEMMA Inductive ==
    ASSUME IInv, [Next]_vars
    PROVE  IInv'
<1>1. CASE Dequeue  BY <1>1, DequeueStep DEF IInv, PassInv
<1>2. CASE PassStep
  <2>1. TypeOK' /\ PassInv'
    BY <1>2, GetStep, MembersStep, KindsStep, AgainStep, TypeStep, OpenStep, CloseStep,
       GroupStep, PatchStep
    DEF PassStep
  <2> QED  BY <2>1 DEF IInv, PassInv
<1>3. CASE RequestFails  BY <1>3, FailStep DEF IInv, PassInv
<1>4. CASE OtherStep
  <2>1. TypeOK'  BY <1>4, OthersType DEF IInv
  <2>2. PassInv'  BY <1>4, OthersStep
  <2> QED  BY <2>1, <2>2 DEF IInv, PassInv
<1>5. CASE UNCHANGED vars
  <2>1. Working  BY <1>5 DEF vars, Working
  <2>2. /\ w' = w /\ objects' = objects /\ members' = members /\ spec' = spec
        /\ watched' = watched /\ status' = status /\ queued' = queued
        /\ events' = events /\ missed' = missed /\ spent' = spent
    BY <1>5 DEF vars, cluster
  <2>3. TypeOK'  BY <2>2 DEF IInv, TypeOK
  <2>4. LocalsOK' /\ CacheOK'  BY <2>2 DEF IInv, LocalsOK, CacheOK, Quota, Cached
  <2>5. PassOK'
    <3>1. Fresh' = Fresh /\ Use' = Use  BY <2>2 DEF Fresh, Use
    <3>2. \A i : Counted(i)' = Counted(i)
      BY <2>2 DEF Counted, Visited, Part, CountedTypes, Covered
    <3>3. \A ns, t : Units(ns, t)' = Units(ns, t)  BY <2>2 DEF Units
    <3>4. PassOK  BY DEF IInv
    <3> QED  BY <2>2, <3>1, <3>2, <3>3, <3>4 DEF PassOK, Cached
  <2>6. StatusOK'  BY <2>2 DEF IInv, StatusOK, Fresh, Total, Use, Covered
  <2> QED  BY <2>3, <2>4, <2>5, <2>6 DEF IInv
<1>6. Next => Dequeue \/ PassStep \/ RequestFails \/ OtherStep  BY DEF Next, OtherStep
<1> QED  BY <1>1, <1>2, <1>3, <1>4, <1>5, <1>6

(* The invariant holds in every behaviour.                                 *)
THEOREM Invariant == Spec => []IInv
<1>1. Init => IInv  BY Initially
<1>2. IInv /\ [Next]_vars => IInv'  BY Inductive
<1> QED  BY <1>1, <1>2, PTL DEF Spec

(* The types of all variables: the loops of CalculateStatus stay inside    *)
(* the namespaces, the quotas and the types they run over (main.go 243-305).*)
THEOREM TypeCorrect == Spec => []TypeOK
<1>1. IInv => TypeOK  BY DEF IInv
<1> QED  BY <1>1, Invariant, PTL

(* However the steps of passes, the events of objects, the start of        *)
(* watches and the changes of users follow each other, a controller that   *)
(* has come to rest leaves the totals of the project in the status         *)
(* (main.go 196-418).                                                      *)
THEOREM UsedIsTheTotal == Spec => []UsedIsTotal
<1>1. IInv => UsedIsTotal
  <2> SUFFICES ASSUME IInv, Settled PROVE UsedIsTotal  BY DEF UsedIsTotal
  <2>1. Calculated \ watched = {}  BY DEF Settled
  <2>2. Fresh /\ w.pc = "idle"  BY <2>1 DEF Settled, Fresh
  <2> QED  BY <2>2 DEF IInv, StatusOK, UsedIsTotal
<1> QED  BY <1>1, Invariant, PTL
=============================================================================
