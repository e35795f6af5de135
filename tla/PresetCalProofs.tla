-------------------------- MODULE PresetCalProofs --------------------------
(***************************************************************************)
(* Proofs about PresetCal, for any namespaces, presets and projects: its   *)
(* types, the precedence of the values and that no preset is lost.         *)
(***************************************************************************)
EXTENDS PresetCal, FiniteSetTheorems, WellFoundedInduction, TLAPS

---------------------------------------------------------------------------
(* Sorting.                                                                *)

Ascending(s, rank) == \A i, j \in DOMAIN s : i < j => rank[s[i]] < rank[s[j]]

(* A finite set of elements of different ranks can be put in order: a set  *)
(* that cannot, and none of whose proper subsets is such a set, can after  *)
(* all, with the element of the highest rank at its end.                   *)
LEMMA SortedExists ==
    ASSUME NEW S, IsFiniteSet(S), NEW rank \in [S -> Int],
           \A x, y \in S : rank[x] = rank[y] => x = y
    PROVE  \E s \in [1 .. Cardinality(S) -> S] : Ascending(s, rank)
<1> DEFINE Orders(T) == {s \in [1 .. Cardinality(T) -> T] : Ascending(s, rank)}
           Bad == {T \in SUBSET S : Orders(T) = {}}
<1>1. SUFFICES ASSUME Bad # {} PROVE FALSE
  <2>1. S \notin Bad  BY <1>1
  <2> QED  BY <2>1
<1>2. Bad \subseteq FiniteSubsetsOf(S)  BY FS_Subset DEF FiniteSubsetsOf
<1>3. PICK T \in Bad : \A U \in Bad : ~ (<<U, T>> \in StrictSubsetOrdering(S))
  <2> HIDE DEF Bad
  <2> QED  BY <1>1, <1>2, FS_StrictSubsetOrderingWellFounded, WFMin
<1>4. T \subseteq S /\ IsFiniteSet(T) /\ Orders(T) = {}
  <2>1. T \subseteq S /\ Orders(T) = {}  OBVIOUS
  <2>2. IsFiniteSet(T)  BY <2>1, FS_Subset
  <2> QED  BY <2>1, <2>2
<1>5. ASSUME NEW U, U \subseteq T, U # T PROVE Orders(U) # {}
  <2>1. U \subseteq S /\ <<U, T>> \in StrictSubsetOrdering(S)
    BY <1>4, <1>5 DEF StrictSubsetOrdering
  <2>2. U \notin Bad  BY <1>3, <2>1
  <2> QED  BY <2>1, <2>2
<1> HIDE DEF Bad
<1>6. T # {}
  <2> SUFFICES ASSUME T = {} PROVE FALSE  OBVIOUS
  <2>1. Cardinality(T) = 0  BY FS_EmptySet
  <2>2. <<>> \in [1 .. Cardinality(T) -> T] /\ Ascending(<<>>, rank)
    BY <2>1 DEF Ascending
  <2> QED  BY <1>4, <2>2
<1>7. PICK m \in T : \A x \in T : rank[x] <= rank[m]
  <2> DEFINE Below(x) == {y \in T : rank[y] < rank[x]}
             Rest(x) == T \ Below(x)
             Tops == {Rest(x) : x \in T}
  <2>1. Tops \subseteq FiniteSubsetsOf(T) /\ Tops # {}
    <3>1. \A x \in T : Rest(x) \subseteq T /\ IsFiniteSet(Rest(x))
      <4> SUFFICES ASSUME NEW x \in T PROVE Rest(x) \subseteq T /\ IsFiniteSet(Rest(x))  OBVIOUS
      <4>1. Rest(x) \in SUBSET T  OBVIOUS
      <4> HIDE DEF Rest
      <4> QED  BY <1>4, <4>1, FS_Subset
    <3> HIDE DEF Rest
    <3> QED  BY <1>6, <3>1 DEF FiniteSubsetsOf
  <2>2. PICK t \in Tops : \A u \in Tops : ~ (<<u, t>> \in StrictSubsetOrdering(T))
    <3> HIDE DEF Tops
    <3> QED  BY <2>1, FS_StrictSubsetOrderingWellFounded, WFMin
  <2>3. PICK x \in T : t = Rest(x)  OBVIOUS
  <2>4. ASSUME NEW y \in T PROVE rank[y] <= rank[x]
    <3> SUFFICES ASSUME rank[x] < rank[y] PROVE FALSE
      <4>1. rank[x] \in Int /\ rank[y] \in Int  BY <1>4
      <4> QED  BY <4>1
    <3>1. Rest(y) \subseteq Rest(x)
      <4> SUFFICES ASSUME NEW z \in T, ~ rank[z] < rank[y] PROVE ~ rank[z] < rank[x]  OBVIOUS
      <4>1. rank[x] \in Int /\ rank[y] \in Int /\ rank[z] \in Int  BY <1>4
      <4> QED  BY <4>1
    <3>2. x \in Rest(x) /\ x \notin Rest(y)
      <4>1. rank[x] \in Int  BY <1>4
      <4> QED  BY <4>1
    <3>3. <<Rest(y), Rest(x)>> \in StrictSubsetOrdering(T)
      <4>1. Rest(y) \subseteq T /\ Rest(x) \subseteq T  OBVIOUS
      <4> HIDE DEF Rest
      <4> QED  BY <4>1, <3>1, <3>2 DEF StrictSubsetOrdering
    <3> QED  BY <2>2, <2>3, <3>3
  <2> QED  BY <2>4
<1>8. /\ Cardinality(T) \in Nat /\ Cardinality(T) > 0
      /\ Cardinality(T \ {m}) = Cardinality(T) - 1
  <2>1. IsFiniteSet(T \ {m}) /\ Cardinality(T \ {m}) = Cardinality(T) - 1
    BY <1>4, FS_RemoveElement
  <2>2. Cardinality(T) \in Nat /\ Cardinality(T \ {m}) \in Nat  BY <1>4, <2>1, FS_CardinalityType
  <2> QED  BY <2>1, <2>2
<1>9. PICK s \in [1 .. Cardinality(T) - 1 -> T \ {m}] : Ascending(s, rank)
  <2>1. Orders(T \ {m}) # {}  BY <1>5
  <2> QED  BY <1>8, <2>1
<1> DEFINE n == Cardinality(T)
           r == [i \in 1 .. n |-> IF i = n THEN m ELSE s[i]]
<1>10. r \in [1 .. n -> T]
  <2>1. \A i \in 1 .. n : i = n \/ i \in 1 .. n - 1  BY <1>8
  <2> QED  BY <2>1
<1>11. Ascending(r, rank)
  <2> SUFFICES ASSUME NEW i \in 1 .. n, NEW j \in 1 .. n, i < j
               PROVE  rank[r[i]] < rank[r[j]]
    BY DEF Ascending
  <2>1. i \in 1 .. n - 1 /\ r[i] = s[i] /\ s[i] \in T /\ s[i] # m  BY <1>8
  <2>2. CASE j = n
    <3>1. r[j] = m /\ rank[s[i]] <= rank[m] /\ rank[s[i]] # rank[m]  BY <1>4, <1>7, <2>1, <2>2
    <3>2. rank[s[i]] \in Int /\ rank[m] \in Int  BY <1>4, <2>1
    <3> QED  BY <2>1, <3>1, <3>2
  <2>3. CASE j # n
    <3>1. j \in 1 .. n - 1 /\ r[j] = s[j]  BY <1>8, <2>3
    <3> HIDE DEF r, n
    <3> QED  BY <1>9, <2>1, <3>1 DEF Ascending, n
  <2> QED  BY <2>2, <2>3
<1>12. r \in Orders(T)
  <2> HIDE DEF r
  <2> QED  BY <1>10, <1>11
<1> HIDE DEF r, n, Orders
<1> QED  BY <1>4, <1>12

(* Sorted returns the elements in order.                                   *)
LEMMA SortedIs ==
    ASSUME NEW S, IsFiniteSet(S), NEW rank \in [S -> Int],
           \A x, y \in S : rank[x] = rank[y] => x = y
    PROVE  /\ Sorted(S, rank) \in Seq(S)
           /\ Ascending(Sorted(S, rank), rank)
           /\ \A x \in S : \E i \in DOMAIN Sorted(S, rank) : Sorted(S, rank)[i] = x
<1> DEFINE n == Cardinality(S)
           s == Sorted(S, rank)
<1>1. n \in Nat  BY FS_CardinalityType
<1>2. s \in [1 .. n -> S] /\ Ascending(s, rank)
  BY SortedExists DEF Sorted, Ascending
<1> HIDE DEF s
<1>3. s \in Injection(1 .. n, S)
  <2> SUFFICES ASSUME NEW i \in 1 .. n, NEW j \in 1 .. n, s[i] = s[j] PROVE i = j
    BY <1>2 DEF Injection, IsInjective
  <2>1. rank[s[i]] = rank[s[j]] /\ rank[s[i]] \in Int  BY <1>2
  <2>2. ~ i < j /\ ~ j < i  BY <1>2, <2>1 DEF Ascending
  <2> QED  BY <1>1, <2>2
<1>4. s \in Surjection(1 .. n, S)
  <2>1. IsFiniteSet(1 .. n) /\ Cardinality(1 .. n) = n  BY <1>1, FS_Interval
  <2> QED  BY <1>3, <2>1, FS_Injection
<1>5. \A x \in S : \E i \in 1 .. n : s[i] = x  BY <1>4 DEF Surjection
<1>6. s \in Seq(S) /\ DOMAIN s = 1 .. n  BY <1>1, <1>2
<1> HIDE DEF n
<1> QED  BY <1>2, <1>5, <1>6 DEF s

---------------------------------------------------------------------------
(* Sequences.                                                              *)

(* The elements of a sequence put in front of another.                     *)
LEMMA InFront ==
    ASSUME NEW S, NEW a \in Seq(S), NEW b \in Seq(S)
    PROVE  /\ a \o b \in Seq(S)
           /\ DOMAIN (a \o b) = 1 .. (Len(a) + Len(b))
           /\ \A i \in DOMAIN a : i \in DOMAIN (a \o b) /\ (a \o b)[i] = a[i]
           /\ \A i \in DOMAIN b : Len(a) + i \in DOMAIN (a \o b) /\ (a \o b)[Len(a) + i] = b[i]
           /\ \A i \in DOMAIN (a \o b) :
                 \/ i \in DOMAIN a /\ (a \o b)[i] = a[i]
                 \/ ~ i \in DOMAIN a /\ i - Len(a) \in DOMAIN b /\ (a \o b)[i] = b[i - Len(a)]
<1>1. /\ Len(a) \in Nat /\ DOMAIN a = 1 .. Len(a)
      /\ Len(b) \in Nat /\ DOMAIN b = 1 .. Len(b)
  OBVIOUS
<1>2. a \o b \in Seq(S) /\ Len(a \o b) = Len(a) + Len(b)  OBVIOUS
<1>3. DOMAIN (a \o b) = 1 .. (Len(a) + Len(b))  BY <1>1, <1>2
<1>4. \A i \in 1 .. (Len(a) + Len(b)) :
         (a \o b)[i] = IF i <= Len(a) THEN a[i] ELSE b[i - Len(a)]
  OBVIOUS
<1>5. \A i \in DOMAIN a : i \in DOMAIN (a \o b) /\ (a \o b)[i] = a[i]
  BY <1>1, <1>3, <1>4
<1>6. \A i \in DOMAIN b : Len(a) + i \in DOMAIN (a \o b) /\ (a \o b)[Len(a) + i] = b[i]
  <2> SUFFICES ASSUME NEW i \in 1 .. Len(b)
               PROVE  /\ Len(a) + i \in 1 .. (Len(a) + Len(b))
                      /\ (a \o b)[Len(a) + i] = b[i]
    BY <1>1, <1>3
  <2>1. /\ Len(a) + i \in 1 .. (Len(a) + Len(b)) /\ ~ Len(a) + i <= Len(a)
        /\ Len(a) + i - Len(a) = i
    BY <1>1
  <2> QED  BY <1>4, <2>1
<1>7. \A i \in DOMAIN (a \o b) :
         \/ i \in DOMAIN a /\ (a \o b)[i] = a[i]
         \/ ~ i \in DOMAIN a /\ i - Len(a) \in DOMAIN b /\ (a \o b)[i] = b[i - Len(a)]
  <2> SUFFICES ASSUME NEW i \in 1 .. (Len(a) + Len(b))
               PROVE  \/ i \in 1 .. Len(a) /\ (a \o b)[i] = a[i]
                      \/ /\ ~ i \in 1 .. Len(a)
                         /\ i - Len(a) \in 1 .. Len(b) /\ (a \o b)[i] = b[i - Len(a)]
    BY <1>1, <1>3
  <2>1. i \in 1 .. Len(a) \/ (~ i <= Len(a) /\ i - Len(a) \in 1 .. Len(b))  BY <1>1
  <2> QED  BY <1>1, <1>4, <2>1
<1> QED  BY <1>2, <1>3, <1>5, <1>6, <1>7

(* Front drops the last element.                                           *)
LEMMA FrontIs ==
    ASSUME NEW S, NEW s \in Seq(S), s # <<>>
    PROVE  /\ Front(s) \in Seq(S) /\ Len(s) \in DOMAIN s /\ Last(s) = s[Len(s)]
           /\ DOMAIN Front(s) = 1 .. Len(s) - 1
           /\ \A i \in DOMAIN Front(s) : i \in DOMAIN s /\ i < Len(s) /\ Front(s)[i] = s[i]
           /\ \A i \in DOMAIN s : i = Len(s) \/ (i \in DOMAIN Front(s) /\ Front(s)[i] = s[i])
<1>1. Len(s) \in Nat /\ Len(s) > 0 /\ DOMAIN s = 1 .. Len(s)  OBVIOUS
<1>2. Front(s) = SubSeq(s, 1, Len(s) - 1)  BY DEF Front
<1>3. Front(s) \in Seq(S) /\ Len(Front(s)) = Len(s) - 1
  BY <1>1, <1>2
<1>4. \A i \in 1 .. Len(s) - 1 : Front(s)[i] = s[i]
  BY <1>1, <1>2
<1>5. DOMAIN Front(s) = 1 .. Len(s) - 1  BY <1>3
<1>6. Last(s) = s[Len(s)]  BY DEF Last
<1> QED  BY <1>1, <1>3, <1>4, <1>5, <1>6

(* The presets of one scope that are not known, in the order of their      *)
(* names, each with its namespace for the name of its source.              *)
LEMMA BundleIs ==
    ASSUME presets \subseteq Preset, NEW ns, NEW known
    PROVE  /\ Bundle(ns, known) \in Seq(Value)
           /\ \A i \in DOMAIN Bundle(ns, known) :
                /\ Bundle(ns, known)[i].preset \in presets
                /\ Bundle(ns, known)[i].preset.ns = ns
                /\ Bundle(ns, known)[i].preset.name \notin known
                /\ Bundle(ns, known)[i].refName = ns
           /\ \A i, j \in DOMAIN Bundle(ns, known) :
                i < j => Bundle(ns, known)[i].preset.name < Bundle(ns, known)[j].preset.name
           /\ \A p \in presets :
                p.ns = ns /\ p.name \notin known =>
                    \E i \in DOMAIN Bundle(ns, known) : Bundle(ns, known)[i].preset = p
<1> DEFINE L == {p \in presets : p.ns = ns /\ p.name \notin known}
           rank == [p \in L |-> p.name]
           s == Sorted(L, rank)
           b == [i \in DOMAIN s |-> [refName |-> s[i].ns, preset |-> s[i]]]
<1>1. L \subseteq Preset  OBVIOUS
<1>2. rank \in [L -> Names]  BY <1>1 DEF Preset
<1>3. \A x, y \in L : rank[x] = rank[y] => x = y
  <2> SUFFICES ASSUME NEW x \in L, NEW y \in L, x.name = y.name PROVE x = y  OBVIOUS
  <2>1. x \in Preset /\ y \in Preset /\ x.ns = y.ns  OBVIOUS
  <2> QED  BY <2>1 DEF Preset
<1> HIDE DEF L
<1>4. IsFiniteSet(L)
  <2>1. rank \in Injection(L, Names)  BY <1>2, <1>3 DEF Injection, IsInjective
  <2> QED  BY <2>1, NamesAssumption, FS_Injection
<1>5. rank \in [L -> Int]
  <2>1. \A x \in Names : x \in Int  BY NamesAssumption
  <2>2. \A x \in L : x.name \in Int  BY <1>1, <2>1 DEF Preset
  <2> QED  BY <2>2
<1>6. s \in Seq(L) /\ Ascending(s, rank) /\ \A x \in L : \E i \in DOMAIN s : s[i] = x
  <2> HIDE DEF rank
  <2> QED  BY <1>3, <1>4, <1>5, SortedIs
<1>7. Bundle(ns, known) = b  BY DEF Bundle, L
<1> HIDE DEF s
<1>8. DOMAIN s = 1 .. Len(s) /\ Len(s) \in Nat /\ \A i \in DOMAIN s : s[i] \in L  BY <1>6
<1>9. \A i \in DOMAIN s : b[i].refName = s[i].ns /\ b[i].preset = s[i] /\ b[i] \in Value
  <2> SUFFICES ASSUME NEW i \in DOMAIN s
               PROVE  b[i].refName = s[i].ns /\ b[i].preset = s[i] /\ b[i] \in Value
    OBVIOUS
  <2>1. s[i] \in Preset  BY <1>1, <1>8
  <2> QED  BY <2>1 DEF Value, Preset
<1>10. DOMAIN b = DOMAIN s  OBVIOUS
<1>11. b \in Seq(Value)  BY <1>8, <1>9
<1> HIDE DEF b
<1>12. \A i \in DOMAIN s : s[i] \in presets /\ s[i].ns = ns /\ s[i].name \notin known
  BY <1>8 DEF L
<1>13. \A i, j \in DOMAIN s : i < j => s[i].name < s[j].name
  BY <1>6, <1>8 DEF Ascending
<1>14. \A p \in presets : p.ns = ns /\ p.name \notin known => p \in L  BY DEF L
<1> QED  BY <1>6, <1>7, <1>9, <1>10, <1>11, <1>12, <1>13, <1>14

---------------------------------------------------------------------------
(* The inductive invariant.                                                *)

\* A preset that is not lost: it, or a value of a nearer scope that is called
\* like it, is in the result.
Kept(p) ==
    \E i \in DOMAIN values :
        \/ values[i].preset = p
        \/ /\ values[i].refName = p.name
           /\ Scope(values[i].preset.ns) > Scope(p.ns)

\* Which reads are made for whom, and when nothing is noted yet.
Places ==
    /\ pc \in {"own", "project", "members", "siblings"} => home # Cluster
    /\ pc = "merge" => home = Cluster
    /\ pc = "members" => project # None
    /\ pc \in {"begin", "own"} => knownPresets = {}
    /\ pc \in {"begin", "own", "project", "members"} => projectPresets = {}

\* How far the values reach: no further than the caller's namespace and the
\* namespaces of its project that the loop has visited.
ValuesOK ==
    /\ \A i \in DOMAIN values : values[i].refName = values[i].preset.ns
    /\ pc \in {"begin", "own", "merge"} => values = <<>>
    /\ pc \in {"project", "members"} => \A i \in DOMAIN values : values[i].preset.ns = home
    /\ pc = "siblings" => \A i \in DOMAIN values :
           /\ values[i].preset.ns # Cluster
           /\ \/ values[i].preset.ns = home
              \/ \A k \in DOMAIN namespaces : namespaces[k] < values[i].preset.ns
    /\ pc = "cluster" => \A i \in DOMAIN values : values[i].preset.ns # Cluster

\* The loop visits the namespaces of the project in order, each once.
LoopOK ==
    pc = "siblings" =>
        \A i, j \in DOMAIN namespaces : i < j => namespaces[i] < namespaces[j]

\* What is noted as known names the source of a value of a nearer scope.
Noted(k, near) == \E i \in DOMAIN values : values[i].refName = k /\ values[i].preset.ns \in near

KnownOK ==
    /\ pc \in {"project", "members", "siblings"} =>
          \A k \in knownPresets : Noted(k, {home})
    /\ pc = "siblings" => \A k \in projectPresets : Noted(k, Namespaces)
    /\ pc = "cluster" => \A k \in knownPresets : Noted(k, Namespaces)

\* A preset that was there and in scope all along is kept once its scope has
\* been read, and until then its scope is still to come.
NotLostYet(p) ==
    /\ pc \in {"project", "members", "siblings", "cluster"} /\ p.ns = home => Kept(p)
    /\ pc = "members" /\ p.ns # home => project = projectOf[p.ns]
    /\ pc = "siblings" /\ p.ns # home =>
          Kept(p) \/ \E k \in DOMAIN namespaces : namespaces[k] = p.ns
    /\ pc = "cluster" => Kept(p)

LostOK == \A p \in presets \cap steady : InScope(p) /\ p.ns # Cluster => NotLostYet(p)

IInv == TypeOK /\ Places /\ ValuesOK /\ LoopOK /\ KnownOK /\ LostOK /\ Precedence /\ NothingLost

(* The ranks of the three scopes.                                          *)
LEMMA ScopeIs ==
    /\ Scope(Cluster) = 0
    /\ home # Cluster => Scope(home) = 2
    /\ \A ns \in Namespaces : ns # home => Scope(ns) = 1
    /\ \A ns : Scope(ns) \in {0, 1, 2} /\ (ns # Cluster => Scope(ns) > 0)
<1>1. Cluster \notin Namespaces  BY NamesAssumption
<1>2. Scope(Cluster) = 0  BY DEF Scope
<1>3. ASSUME home # Cluster PROVE Scope(home) = 2  BY <1>3 DEF Scope
<1>4. ASSUME NEW ns, ns # Cluster, ns # home PROVE Scope(ns) = 1  BY <1>4 DEF Scope
<1>5. ASSUME NEW ns PROVE Scope(ns) \in {0, 1, 2} /\ (ns # Cluster => Scope(ns) > 0)
  <2>1. CASE ns = Cluster  BY <1>2, <2>1
  <2>2. CASE ns # Cluster /\ ns = home  BY <1>3, <2>2
  <2>3. CASE ns # Cluster /\ ns # home  BY <1>4, <2>3
  <2> QED  BY <2>1, <2>2, <2>3
<1> QED  BY <1>1, <1>2, <1>3, <1>4, <1>5

(* The start of a load.                                                    *)
LEMMA Initially == Init => IInv
<1> SUFFICES ASSUME Init PROVE IInv  OBVIOUS
<1>1. values = <<>> /\ pc = "begin" /\ knownPresets = {} /\ projectPresets = {}  BY DEF Init
<1>2. <<>> \in Seq(Value) /\ <<>> \in Seq(Namespaces) /\ DOMAIN <<>> = {}  OBVIOUS
<1>3. TypeOK
  <2>1. 0 \in 0 .. MaxChanges  BY ChangesAssumption
  <2> QED  BY <1>2, <2>1 DEF Init, TypeOK
<1> QED
  BY <1>1, <1>2, <1>3 DEF IInv, Places, ValuesOK, LoopOK, KnownOK, LostOK, NotLostYet,
     Precedence, NothingLost

---------------------------------------------------------------------------
(* Types.                                                                  *)

(* The namespaces of the project, in order.                                *)
LEMMA MembersAre ==
    ASSUME TypeOK, ListNamespaces
    PROVE  /\ namespaces' \in Seq(Namespaces)
           /\ \A i, j \in DOMAIN namespaces' : i < j => namespaces'[i] < namespaces'[j]
           /\ \A n \in Namespaces : projectOf[n] = project =>
                 \E k \in DOMAIN namespaces' : namespaces'[k] = n
<1> DEFINE S == {n \in Namespaces : projectOf[n] = project}
           rank == [n \in S |-> n]
<1>1. S \subseteq Namespaces  OBVIOUS
<1>2. namespaces' = Sorted(S, rank)  BY DEF ListNamespaces
<1>3. \A n \in Namespaces : projectOf[n] = project => n \in S  OBVIOUS
<1> HIDE DEF S
<1>4. IsFiniteSet(S)  BY <1>1, NamesAssumption, FS_Subset
<1>5. \A n \in Namespaces : n \in Int  BY NamesAssumption
<1>6. rank \in [S -> Int] /\ \A x, y \in S : rank[x] = rank[y] => x = y
  BY <1>1, <1>5
<1>7. rank \in [S -> Int] /\ \A x \in S : rank[x] = x  BY <1>6
<1> HIDE DEF rank
<1>8. /\ namespaces' \in Seq(S) /\ Ascending(namespaces', rank)
      /\ \A n \in S : \E k \in DOMAIN namespaces' : namespaces'[k] = n
  BY <1>2, <1>4, <1>6, SortedIs
<1>9. namespaces' \in Seq(Namespaces) /\ \A i \in DOMAIN namespaces' : namespaces'[i] \in S
  BY <1>1, <1>8
<1> QED  BY <1>3, <1>7, <1>8, <1>9 DEF Ascending

(* What is noted of a bundle of a namespace.                               *)
LEMMA NotedOfBundle ==
    ASSUME presets \subseteq Preset, NEW ns, NEW known
    PROVE  RefNames(Bundle(ns, known)) \subseteq {ns}
BY BundleIs DEF RefNames

(* The types are kept.                                                     *)
LEMMA TypeStep ==
    ASSUME IInv, [Next]_vars
    PROVE  TypeOK'
<1> USE DEF IInv, TypeOK
<1>1. CASE Begin  BY <1>1 DEF Begin, cluster, locals, history
<1>2. CASE BeginMerge  BY <1>2 DEF BeginMerge, cluster, locals, history
<1>3. CASE ListVariant
  <2>1. values' \in Seq(Value)  BY <1>3, BundleIs DEF ListVariant
  <2> QED  BY <1>3, <2>1 DEF ListVariant, cluster, locals, history
<1>4. CASE ListOwn
  <2>1. values' \in Seq(Value)  BY <1>4, BundleIs DEF ListOwn
  <2>2. home \in Namespaces  BY <1>4, RefsAssumption DEF ListOwn, Places
  <2>3. knownPresets' \subseteq Namespaces  BY <1>4, <2>2, NotedOfBundle DEF ListOwn
  <2> QED  BY <1>4, <2>1, <2>3 DEF ListOwn, cluster, history
<1>5. CASE GetNamespace
  <2>1. home \in Namespaces  BY <1>5, RefsAssumption DEF GetNamespace, Places
  <2> QED  BY <1>5, <2>1 DEF GetNamespace, cluster, history
<1>6. CASE ListNamespaces
  <2>1. namespaces' \in Seq(Namespaces)  BY <1>6, MembersAre
  <2>2. /\ UNCHANGED <<cluster, values, knownPresets, projectPresets, project, history>>
        /\ pc = "members" /\ pc' = "siblings"
    BY <1>6 DEF ListNamespaces
  <2> QED  BY <2>1, <2>2 DEF cluster, history, Places
<1>7. CASE ListSibling
  <2>1. Front(namespaces) \in Seq(Namespaces) /\ Last(namespaces) \in Namespaces
    BY <1>7, FrontIs DEF ListSibling
  <2>2. CASE Last(namespaces) = home
    BY <1>7, <2>1, <2>2 DEF ListSibling, cluster, history
  <2>3. CASE Last(namespaces) # home
    <3>1. Sibling(Last(namespaces))  BY <1>7, <2>3 DEF ListSibling
    <3>2. PICK n \in Namespaces : n = Last(namespaces)  BY <2>1
    <3>3. PICK b : b = Bundle(n, knownPresets)  OBVIOUS
    <3>4. b \in Seq(Value)  BY <3>3, BundleIs
    <3>5. values' = b \o values  BY <3>1, <3>2, <3>3 DEF Sibling
    <3>6. values' \in Seq(Value)  BY <3>4, <3>5, InFront
    <3>7. projectPresets' \subseteq Namespaces  BY <3>1, <3>2, NotedOfBundle DEF Sibling
    <3> QED  BY <1>7, <2>1, <3>6, <3>7 DEF ListSibling, cluster, history
  <2> QED  BY <2>2, <2>3
<1>8. CASE MarkKnown  BY <1>8 DEF MarkKnown, cluster, history
<1>9. CASE ListCluster
  <2>1. Bundle(Cluster, knownPresets) \in Seq(Value)  BY BundleIs
  <2>2. PICK b : b = Bundle(Cluster, knownPresets)  OBVIOUS
  <2>3. b \in Seq(Value) /\ values' = b \o values  BY <1>9, <2>1, <2>2 DEF ListCluster
  <2>4. values' \in Seq(Value)  BY <2>3, InFront
  <2> QED  BY <1>9, <2>4 DEF ListCluster, cluster, locals, history
<1>10. CASE ReadFails  BY <1>10 DEF ReadFails, cluster, locals, history
<1>11. ASSUME NEW p \in Preset, TogglePreset(p) PROVE TypeOK'
  <2>1. changes' \in 0 .. MaxChanges  BY <1>11, ChangesAssumption DEF TogglePreset, Edit
  <2> QED  BY <1>11, <2>1 DEF TogglePreset, SymDiff, locals
<1>12. ASSUME NEW ns \in Namespaces, NEW p \in Projects \union {None}, MoveNamespace(ns, p)
       PROVE  TypeOK'
  <2>1. changes' \in 0 .. MaxChanges  BY <1>12, ChangesAssumption DEF MoveNamespace, Edit
  <2> QED  BY <1>12, <2>1 DEF MoveNamespace, locals
<1>13. CASE UNCHANGED vars
  <2>1. UNCHANGED <<cluster, pc, values, locals, history>>  BY <1>13 DEF vars
  <2> QED  BY <2>1 DEF cluster, locals, history
<1> QED
  BY <1>1, <1>2, <1>3, <1>4, <1>5, <1>6, <1>7, <1>8, <1>9, <1>10, <1>11, <1>12, <1>13 DEF Next

---------------------------------------------------------------------------
(* The other parts, action by action.                                      *)

\* What the invariant says of the locals.
Rest == Places /\ ValuesOK /\ LoopOK /\ KnownOK /\ LostOK /\ Precedence /\ NothingLost

(* A step that leaves the cluster and the values alone leaves what is said *)
(* about single presets and values alone.                                  *)
LEMMA SameWorld ==
    ASSUME UNCHANGED cluster
    PROVE  /\ presets' = presets /\ home' = home /\ variant' = variant
           /\ \A ns : Scope(ns)' = Scope(ns)
           /\ \A p, q : Overridden(p, q)' <=> Overridden(p, q)
           /\ \A p : InScope(p)' <=> InScope(p)
BY DEF cluster, Scope, Overridden, InScope

(* What is kept and noted depends on the cluster and the values only.      *)
LEMMA SameValues ==
    ASSUME UNCHANGED cluster, values' = values
    PROVE  /\ \A p : Kept(p)' <=> Kept(p)
           /\ \A k, near : Noted(k, near)' <=> Noted(k, near)
           /\ Precedence' <=> Precedence
BY SameWorld DEF Kept, Noted, Precedence

(* The beginning, and the end of a load that fails.                        *)
LEMMA BeginStep ==
    ASSUME IInv, Begin \/ BeginMerge \/ ReadFails
    PROVE  Rest'
<1> USE DEF IInv
<1>1. UNCHANGED cluster /\ locals' = locals /\ history' = history
  BY DEF Begin, BeginMerge, ReadFails
<1>2. home' = home /\ knownPresets' = knownPresets /\ projectPresets' = projectPresets
  BY <1>1 DEF cluster, locals
<1>3. values' = <<>>
  BY DEF Begin, BeginMerge, ReadFails, ValuesOK
<1>4. pc' \in {"failed", "done", "cluster", "own", "merge"}
  BY DEF Begin, BeginMerge, ReadFails
<1>5. pc' \in {"cluster", "own", "merge"} => knownPresets = {} /\ projectPresets = {}
  BY DEF Begin, BeginMerge, ReadFails, Places
<1>6. (pc' = "own" => home # Cluster) /\ (pc' = "merge" => home = Cluster)
      /\ (pc' = "cluster" => home = Cluster)
  BY DEF Begin, BeginMerge, ReadFails
<1>7. pc' = "done" => variant # "selecting"
  BY DEF Begin, BeginMerge, ReadFails
<1>8. Places'  BY <1>2, <1>4, <1>5, <1>6 DEF Places
<1>9. ValuesOK' /\ LoopOK' /\ Precedence'
  BY <1>3, <1>4 DEF ValuesOK, LoopOK, Precedence
<1>10. KnownOK'  BY <1>2, <1>4, <1>5 DEF KnownOK
<1>11. NothingLost'  BY <1>1, <1>7 DEF NothingLost, cluster
<1>12. LostOK'
  BY <1>2, <1>4, <1>6 DEF LostOK, NotLostYet, InScope
<1> QED  BY <1>8, <1>9, <1>10, <1>11, <1>12 DEF Rest

(* The users' edits: what is steady has not changed.                       *)
LEMMA EditStep ==
    ASSUME IInv,
           \/ \E p \in Preset : TogglePreset(p)
           \/ \E ns \in Namespaces, p \in Projects \union {None} : MoveNamespace(ns, p)
    PROVE  Rest'
<1> USE DEF IInv
<1>1. /\ UNCHANGED <<rancher, variant, call, home, pc, values, locals>>
      /\ pc \notin {"begin", "done", "failed"}
  BY DEF TogglePreset, MoveNamespace, Edit, Running
<1>2. /\ home' = home /\ rancher' = rancher /\ pc' = pc /\ values' = values
      /\ knownPresets' = knownPresets /\ projectPresets' = projectPresets
      /\ project' = project /\ namespaces' = namespaces
  BY <1>1 DEF locals
<1>3. \A ns : Scope(ns)' = Scope(ns)  BY <1>2 DEF Scope
<1>4. Places' /\ ValuesOK' /\ LoopOK'  BY <1>2 DEF Places, ValuesOK, LoopOK
<1>5. Precedence'  BY <1>2, <1>3 DEF Precedence, Overridden
<1>6. KnownOK'  BY <1>2 DEF KnownOK, Noted
<1>7. NothingLost'  BY <1>1 DEF NothingLost
<1>8. \A p : Kept(p)' <=> Kept(p)  BY <1>2, <1>3 DEF Kept
<1>9. LostOK'
  <2> SUFFICES ASSUME NEW p \in presets' \cap steady', InScope(p)', p.ns # Cluster
               PROVE  NotLostYet(p)'
    BY DEF LostOK
  <2>1. /\ p \in presets \cap steady
        /\ p.ns = home \/ (projectOf[p.ns]' = projectOf[p.ns] /\ projectOf[home]' = projectOf[home])
    <3>1. CASE \E q \in Preset : TogglePreset(q)
      BY <1>2, <3>1 DEF TogglePreset, SymDiff
    <3>2. ASSUME NEW ns \in Namespaces, NEW j \in Projects \union {None}, MoveNamespace(ns, j)
          PROVE  /\ p \in presets \cap steady
                 /\ p.ns = home
                    \/ (projectOf[p.ns]' = projectOf[p.ns] /\ projectOf[home]' = projectOf[home])
      <4>1. p \in presets \cap steady /\ (p.ns = home \/ ns \notin {p.ns, home})
        BY <3>2 DEF MoveNamespace
      <4>2. projectOf' = [projectOf EXCEPT ![ns] = j]  BY <3>2 DEF MoveNamespace
      <4>3. projectOf \in [Namespaces -> Projects \union {None}]  BY DEF TypeOK
      <4>4. p.ns \in Namespaces  BY <4>1 DEF TypeOK, Preset
      <4>5. CASE p.ns = home  BY <4>1, <4>5
      <4>6. CASE p.ns # home
        <5>1. home # Cluster  BY <1>2, <4>6 DEF InScope
        <5>2. home \in Namespaces  BY <5>1, RefsAssumption DEF TypeOK
        <5> QED  BY <1>2, <4>1, <4>2, <4>3, <4>4, <4>6, <5>2
      <4> QED  BY <4>5, <4>6
    <3> QED  BY <3>1, <3>2
  <2>2. InScope(p)  BY <1>2, <2>1 DEF InScope
  <2>3. NotLostYet(p)  BY <2>1, <2>2 DEF LostOK
  <2> QED  BY <1>2, <1>8, <2>1, <2>3 DEF NotLostYet
<1> QED  BY <1>4, <1>5, <1>6, <1>7, <1>9 DEF Rest

(* Cluster-wide presets for a caller without a namespace.                  *)
LEMMA VariantStep ==
    ASSUME IInv, ListVariant
    PROVE  Rest'
<1> USE DEF IInv
<1>1. UNCHANGED cluster /\ locals' = locals /\ pc = "merge" /\ pc' = "done"
  BY DEF ListVariant
<1>2. PICK b : b = Bundle(Cluster, {})  OBVIOUS
<1>3. /\ b \in Seq(Value) /\ values' = b
      /\ \A i \in DOMAIN b : b[i].preset.ns = Cluster /\ b[i].refName = Cluster
      /\ \A i, j \in DOMAIN b : i < j => b[i].preset.name < b[j].preset.name
      /\ \A p \in presets : p.ns = Cluster => \E i \in DOMAIN b : b[i].preset = p
  BY <1>2, BundleIs DEF ListVariant, TypeOK
<1>4. home = Cluster  BY <1>1 DEF Places
<1>5. Places' /\ LoopOK' /\ KnownOK' /\ LostOK'
  BY <1>1 DEF Places, LoopOK, KnownOK, LostOK, NotLostYet
<1>6. ValuesOK'  BY <1>1, <1>3 DEF ValuesOK
<1>7. Precedence'  BY <1>3 DEF Precedence, Overridden
<1>8. NothingLost'
  BY <1>1, <1>3, <1>4, SameWorld DEF NothingLost, InScope
<1> QED  BY <1>5, <1>6, <1>7, <1>8 DEF Rest

(* The presets of the caller's own namespace.                              *)
LEMMA OwnStep ==
    ASSUME IInv, ListOwn
    PROVE  Rest'
<1> USE DEF IInv
<1>1. UNCHANGED <<cluster, projectPresets>> /\ pc = "own" /\ pc' \in {"project", "cluster"}
      /\ (pc' = "cluster" => ~ rancher)
  BY DEF ListOwn
<1>2. home # Cluster /\ home \in Namespaces  BY <1>1, RefsAssumption DEF Places, TypeOK
<1>3. PICK b : b = Bundle(home, {})  OBVIOUS
<1>4. /\ b \in Seq(Value) /\ values' = b
      /\ \A i \in DOMAIN b : b[i].preset.ns = home /\ b[i].refName = home
      /\ \A i, j \in DOMAIN b : i < j => b[i].preset.name < b[j].preset.name
      /\ \A p \in presets : p.ns = home => \E i \in DOMAIN b : b[i].preset = p
  BY <1>3, BundleIs DEF ListOwn, TypeOK
<1>5. knownPresets' = {b[i].refName : i \in DOMAIN b}  BY <1>3, <1>4 DEF ListOwn, RefNames
<1>6. home' = home /\ projectPresets' = projectPresets /\ projectPresets = {}
  BY <1>1, SameWorld DEF Places
<1>7. Places'  BY <1>1, <1>2, <1>6 DEF Places
<1>8. ValuesOK' /\ LoopOK'  BY <1>1, <1>2, <1>4, <1>6 DEF ValuesOK, LoopOK
<1>9. KnownOK'
  <2>1. \A k \in knownPresets' : \E i \in DOMAIN b : b[i].refName = k /\ b[i].preset.ns = home
    BY <1>4, <1>5
  <2> QED  BY <1>1, <1>2, <1>4, <1>6, <2>1 DEF KnownOK, Noted
<1>10. Precedence'  BY <1>4 DEF Precedence, Overridden
<1>11. NothingLost'  BY <1>1 DEF NothingLost
<1>12. LostOK'
  <2> SUFFICES ASSUME NEW p \in presets' \cap steady', InScope(p)', p.ns # Cluster
               PROVE  NotLostYet(p)'
    BY DEF LostOK
  <2>1. p \in presets /\ InScope(p)  BY <1>1, SameWorld
  <2>2. p.ns = home => Kept(p)'  BY <1>4, <2>1 DEF Kept
  <2>3. pc' = "cluster" => p.ns = home  BY <1>1, <2>1 DEF InScope
  <2> QED  BY <1>1, <1>6, <2>2, <2>3 DEF NotLostYet
<1> QED  BY <1>7, <1>8, <1>9, <1>10, <1>11, <1>12 DEF Rest

(* The project of the caller's namespace, and its namespaces.              *)
LEMMA ProjectStep ==
    ASSUME IInv, GetNamespace
    PROVE  Rest'
<1> USE DEF IInv
<1>1. /\ UNCHANGED <<cluster, values, knownPresets, projectPresets, namespaces, history>>
      /\ pc = "project" /\ pc' = (IF project' = None THEN "cluster" ELSE "members")
      /\ project' = projectOf[home]
  BY DEF GetNamespace
<1>2. home # Cluster /\ home \in Namespaces  BY <1>1, RefsAssumption DEF Places, TypeOK
<1>3. /\ home' = home /\ projectPresets' = projectPresets /\ knownPresets' = knownPresets
      /\ values' = values
  BY <1>1, SameWorld
<1>4. Places'  BY <1>1, <1>2, <1>3 DEF Places
<1>5. ValuesOK' /\ LoopOK'  BY <1>1, <1>2, <1>3 DEF ValuesOK, LoopOK
<1>6. KnownOK'  BY <1>1, <1>2, <1>3 DEF KnownOK, Noted
<1>7. Precedence'  BY <1>1, SameValues
<1>8. NothingLost'  BY <1>1 DEF NothingLost
<1>9. LostOK'
  <2> SUFFICES ASSUME NEW p \in presets' \cap steady', InScope(p)', p.ns # Cluster
               PROVE  NotLostYet(p)'
    BY DEF LostOK
  <2>1. p \in presets \cap steady /\ InScope(p)  BY <1>1, SameWorld DEF history
  <2>2. p.ns = home => Kept(p)'
    <3>1. NotLostYet(p)  BY <2>1 DEF LostOK
    <3> QED  BY <1>1, <3>1, SameValues DEF NotLostYet
  <2>3. p.ns # home => project' # None /\ project' = projectOf'[p.ns]
    BY <1>1, <2>1 DEF InScope, cluster
  <2> QED  BY <1>1, <1>3, <2>2, <2>3 DEF NotLostYet
<1> QED  BY <1>4, <1>5, <1>6, <1>7, <1>8, <1>9 DEF Rest

(* The namespaces of the project are listed.                               *)
LEMMA MembersStep ==
    ASSUME IInv, ListNamespaces
    PROVE  Rest'
<1> USE DEF IInv
<1>1. /\ UNCHANGED <<cluster, values, knownPresets, projectPresets, project, history>>
      /\ pc = "members" /\ pc' = "siblings"
  BY DEF ListNamespaces
<1>2. /\ \A i, j \in DOMAIN namespaces' : i < j => namespaces'[i] < namespaces'[j]
      /\ \A n \in Namespaces : projectOf[n] = project =>
            \E k \in DOMAIN namespaces' : namespaces'[k] = n
  BY MembersAre
<1>3. /\ home' = home /\ projectPresets' = projectPresets /\ knownPresets' = knownPresets
      /\ values' = values /\ project' = project
  BY <1>1, SameWorld
<1>4. home # Cluster /\ home \in Namespaces  BY <1>1, RefsAssumption DEF Places, TypeOK
<1>5. Places'  BY <1>1, <1>3, <1>4 DEF Places
<1>6. ValuesOK'
  BY <1>1, <1>3, <1>4 DEF ValuesOK
<1>7. LoopOK'  BY <1>2 DEF LoopOK
<1>8. KnownOK'  BY <1>1, <1>3 DEF KnownOK, Noted, Places
<1>9. Precedence'  BY <1>1, SameValues
<1>10. NothingLost'  BY <1>1 DEF NothingLost
<1>11. LostOK'
  <2> SUFFICES ASSUME NEW p \in presets' \cap steady', InScope(p)', p.ns # Cluster
               PROVE  NotLostYet(p)'
    BY DEF LostOK
  <2>1. p \in presets \cap steady /\ InScope(p)  BY <1>1, SameWorld DEF history
  <2>2. NotLostYet(p)  BY <2>1 DEF LostOK
  <2>3. p.ns = home => Kept(p)'  BY <1>1, <2>2, SameValues DEF NotLostYet
  <2>4. p.ns # home => \E k \in DOMAIN namespaces' : namespaces'[k] = p.ns
    <3>1. p.ns \in Namespaces  BY <2>1 DEF TypeOK, Preset
    <3> QED  BY <1>1, <1>2, <2>2, <3>1 DEF NotLostYet
  <2> QED  BY <1>1, <1>3, <2>3, <2>4 DEF NotLostYet
<1> QED  BY <1>5, <1>6, <1>7, <1>8, <1>9, <1>10, <1>11 DEF Rest

(* The end of the loop.                                                    *)
LEMMA MarkStep ==
    ASSUME IInv, MarkKnown
    PROVE  Rest'
<1> USE DEF IInv
<1>1. /\ UNCHANGED <<cluster, values, projectPresets, project, namespaces, history>>
      /\ pc = "siblings" /\ pc' = "cluster" /\ namespaces = <<>>
      /\ knownPresets' = knownPresets \union projectPresets
  BY DEF MarkKnown
<1>2. home' = home /\ values' = values  BY <1>1, SameWorld
<1>3. home \in Namespaces  BY <1>1, RefsAssumption DEF Places, TypeOK
<1>4. Places' /\ LoopOK'  BY <1>1 DEF Places, LoopOK
<1>5. ValuesOK'  BY <1>1, <1>2 DEF ValuesOK
<1>6. KnownOK'  BY <1>1, <1>2, <1>3 DEF KnownOK, Noted
<1>7. Precedence'  BY <1>1, SameValues
<1>8. NothingLost'  BY <1>1 DEF NothingLost
<1>9. LostOK'
  <2> SUFFICES ASSUME NEW p \in presets' \cap steady', InScope(p)', p.ns # Cluster
               PROVE  NotLostYet(p)'
    BY DEF LostOK
  <2>1. p \in presets \cap steady /\ InScope(p)  BY <1>1, SameWorld DEF history
  <2>2. NotLostYet(p)  BY <2>1 DEF LostOK
  <2>3. Kept(p)  BY <1>1, <2>2 DEF NotLostYet
  <2> QED  BY <1>1, <2>3, SameValues DEF NotLostYet
<1> QED  BY <1>4, <1>5, <1>6, <1>7, <1>8, <1>9 DEF Rest

(* A bundle in front loses nothing, and keeps the order when what it holds *)
(* is overridden by what was there.                                        *)
LEMMA BundleInFront ==
    ASSUME UNCHANGED cluster, values \in Seq(Value), NEW b \in Seq(Value), values' = b \o values
    PROVE  /\ \A p : Kept(p) => Kept(p)'
           /\ \A k, near : Noted(k, near) => Noted(k, near)'
           /\ \A i \in DOMAIN b : i \in DOMAIN values' /\ values'[i] = b[i]
           /\ \A i \in DOMAIN values' :
                 \/ \E j \in DOMAIN b : values'[i] = b[j]
                 \/ \E j \in DOMAIN values : values'[i] = values[j]
           /\ /\ Precedence
              /\ \A i, j \in DOMAIN b : i < j => Overridden(b[i].preset, b[j].preset)
              /\ \A i \in DOMAIN b : \A j \in DOMAIN values :
                    Overridden(b[i].preset, values[j].preset)
              => Precedence'
<1>1. /\ \A i \in DOMAIN b : i \in DOMAIN values' /\ values'[i] = b[i]
      /\ \A i \in DOMAIN values : Len(b) + i \in DOMAIN values' /\ values'[Len(b) + i] = values[i]
      /\ \A i \in DOMAIN values' :
            \/ i \in DOMAIN b /\ values'[i] = b[i]
            \/ ~ i \in DOMAIN b /\ i - Len(b) \in DOMAIN values /\ values'[i] = values[i - Len(b)]
      /\ DOMAIN values' = 1 .. (Len(b) + Len(values))
  BY InFront
<1>2. \A i \in DOMAIN values : \E j \in DOMAIN values' : values'[j] = values[i]  BY <1>1
<1>3. \A p : Kept(p) => Kept(p)'  BY <1>2, SameWorld DEF Kept
<1>4. \A k, near : Noted(k, near) => Noted(k, near)'  BY <1>2 DEF Noted
<1>5. ASSUME Precedence,
             \A i, j \in DOMAIN b : i < j => Overridden(b[i].preset, b[j].preset),
             \A i \in DOMAIN b : \A j \in DOMAIN values :
                Overridden(b[i].preset, values[j].preset)
      PROVE  Precedence'
  <2> SUFFICES ASSUME NEW i \in DOMAIN values', NEW j \in DOMAIN values', i < j
               PROVE  Overridden(values'[i].preset, values'[j].preset)
    BY SameWorld DEF Precedence
  <2>1. DOMAIN b = 1 .. Len(b) /\ Len(b) \in Nat /\ Len(values) \in Nat  OBVIOUS
  <2>2. CASE j \in DOMAIN b
    <3>1. i \in DOMAIN b  BY <1>1, <2>1, <2>2
    <3> QED  BY <1>1, <1>5, <2>2, <3>1
  <2>3. CASE j \notin DOMAIN b
    <3>1. j - Len(b) \in DOMAIN values /\ values'[j] = values[j - Len(b)]  BY <1>1, <2>3
    <3>2. CASE i \in DOMAIN b  BY <1>1, <1>5, <3>1, <3>2
    <3>3. CASE i \notin DOMAIN b
      <4>1. i - Len(b) \in DOMAIN values /\ values'[i] = values[i - Len(b)]  BY <1>1, <3>3
      <4>2. i - Len(b) < j - Len(b)  BY <1>1, <2>1
      <4> QED  BY <1>5, <3>1, <4>1, <4>2 DEF Precedence
    <3> QED  BY <3>2, <3>3
  <2> QED  BY <2>2, <2>3
<1>6. \A i \in DOMAIN values' :
         \/ \E j \in DOMAIN b : values'[i] = b[j]
         \/ \E j \in DOMAIN values : values'[i] = values[j]
  BY <1>1
<1> QED  BY <1>1, <1>3, <1>4, <1>5, <1>6

(* One turn of the loop.                                                   *)
LEMMA SiblingStep ==
    ASSUME IInv, ListSibling
    PROVE  Rest'
<1> USE DEF IInv
<1>1. /\ UNCHANGED <<cluster, pc, knownPresets, project, history>>
      /\ pc = "siblings" /\ namespaces # <<>> /\ namespaces' = Front(namespaces)
      /\ home' = home /\ pc' = pc
  BY SameWorld DEF ListSibling
<1>2. home # Cluster /\ home \in Namespaces  BY <1>1, RefsAssumption DEF Places, TypeOK
<1>3. PICK n : n = Last(namespaces)  OBVIOUS
<1>4. /\ n \in Namespaces /\ namespaces \in Seq(Namespaces)
      /\ Len(namespaces) \in DOMAIN namespaces /\ namespaces[Len(namespaces)] = n
      /\ \A k \in DOMAIN namespaces' :
            k \in DOMAIN namespaces /\ namespaces'[k] = namespaces[k] /\ namespaces[k] < n
      /\ \A k \in DOMAIN namespaces :
            namespaces[k] = n \/ (k \in DOMAIN namespaces' /\ namespaces'[k] = namespaces[k])
  BY <1>1, <1>3, FrontIs DEF TypeOK, LoopOK
<1>5. n # Cluster /\ Cluster \notin Namespaces /\ \A m \in Namespaces : m \in Nat
  BY <1>4, NamesAssumption
<1>6. PICK b \in Seq(Value) :
         /\ values' = b \o values \/ (values' = values /\ b = <<>>)
         /\ \A i \in DOMAIN b : b[i].preset.ns = n /\ b[i].refName = n /\ n # home
         /\ \A i, j \in DOMAIN b : i < j => b[i].preset.name < b[j].preset.name
         /\ n # home => \A p \in presets : p.ns = n /\ p.name \notin knownPresets =>
                           \E i \in DOMAIN b : b[i].preset = p
         /\ \A k \in projectPresets' \ projectPresets : \E i \in DOMAIN b : k = b[i].refName
  <2>1. CASE n = home
    <3>1. values' = values /\ projectPresets' = projectPresets
      BY <1>3, <2>1 DEF ListSibling
    <3>2. <<>> \in Seq(Value) /\ DOMAIN <<>> = {}  OBVIOUS
    <3> QED  BY <2>1, <3>1, <3>2
  <2>2. CASE n # home
    <3>1. Sibling(n)  BY <1>3, <2>2 DEF ListSibling
    <3>2. PICK b : b = Bundle(n, knownPresets)  OBVIOUS
    <3>3. /\ b \in Seq(Value)
          /\ \A i \in DOMAIN b : b[i].preset.ns = n /\ b[i].refName = n
          /\ \A i, j \in DOMAIN b : i < j => b[i].preset.name < b[j].preset.name
          /\ \A p \in presets : p.ns = n /\ p.name \notin knownPresets =>
                \E i \in DOMAIN b : b[i].preset = p
      BY <3>2, BundleIs DEF TypeOK
    <3>4. values' = b \o values /\ projectPresets' = projectPresets \union RefNames(b)
      BY <3>1, <3>2 DEF Sibling
    <3> QED  BY <2>2, <3>3, <3>4 DEF RefNames
  <2> QED  BY <2>1, <2>2
<1>7. values \in Seq(Value)  BY DEF TypeOK
<1>8. values' = b \o values
  <2>1. <<>> \o values = values  BY <1>7
  <2> QED  BY <1>6, <2>1
<1>9. /\ \A p : Kept(p) => Kept(p)'
      /\ \A k, near : Noted(k, near) => Noted(k, near)'
      /\ \A i \in DOMAIN b : i \in DOMAIN values' /\ values'[i] = b[i]
      /\ \A i \in DOMAIN values' :
            \/ \E j \in DOMAIN b : values'[i] = b[j]
            \/ \E j \in DOMAIN values : values'[i] = values[j]
  BY <1>1, <1>7, <1>8, BundleInFront
<1>10. Places'  BY <1>1, <1>2 DEF Places
<1>11. LoopOK'  BY <1>1, <1>4 DEF LoopOK
<1>12. ValuesOK'
  <2> SUFFICES ASSUME NEW i \in DOMAIN values'
               PROVE  /\ values'[i].refName = values'[i].preset.ns
                      /\ values'[i].preset.ns # Cluster
                      /\ \/ values'[i].preset.ns = home
                         \/ \A k \in DOMAIN namespaces' : namespaces'[k] < values'[i].preset.ns
    BY <1>1 DEF ValuesOK
  <2>1. CASE \E j \in DOMAIN b : values'[i] = b[j]  BY <1>4, <1>5, <1>6, <2>1
  <2>2. CASE \E j \in DOMAIN values : values'[i] = values[j]
    BY <1>1, <1>4, <2>2 DEF ValuesOK
  <2> QED  BY <1>9, <2>1, <2>2
<1>13. KnownOK'
  <2>1. \A k \in knownPresets' : Noted(k, {home})'
    BY <1>1, <1>9 DEF KnownOK
  <2>2. \A k \in projectPresets' : Noted(k, Namespaces)'
    <3> SUFFICES ASSUME NEW k \in projectPresets' PROVE Noted(k, Namespaces)'  OBVIOUS
    <3>1. CASE k \in projectPresets  BY <1>1, <1>9, <3>1 DEF KnownOK
    <3>2. CASE k \notin projectPresets  BY <1>4, <1>6, <1>9, <3>2 DEF Noted
    <3> QED  BY <3>1, <3>2
  <2> QED  BY <1>1, <2>1, <2>2 DEF KnownOK
<1>14. Precedence'
  <2>1. \A i, j \in DOMAIN b : i < j => Overridden(b[i].preset, b[j].preset)
    BY <1>6 DEF Overridden
  <2>2. \A i \in DOMAIN b : \A j \in DOMAIN values : Overridden(b[i].preset, values[j].preset)
    <3> SUFFICES ASSUME NEW i \in DOMAIN b, NEW j \in DOMAIN values
                 PROVE  Overridden(b[i].preset, values[j].preset)
      OBVIOUS
    <3>1. b[i].preset.ns = n /\ n # home /\ Scope(n) = 1  BY <1>4, <1>6, ScopeIs
    <3>2. values[j].preset.ns = home \/ n < values[j].preset.ns
      BY <1>1, <1>4 DEF ValuesOK
    <3>3. values[j].preset.ns # Cluster /\ values[j].preset.ns \in Namespaces
      <4>1. values[j].preset.ns # Cluster  BY <1>1 DEF ValuesOK
      <4>2. values[j] \in Value  BY <1>7
      <4>3. values[j].preset.ns \in Namespaces \union {Cluster}  BY <4>2 DEF Value, Preset
      <4> QED  BY <4>1, <4>3
    <3>4. Scope(home) = 2  BY <1>2, ScopeIs
    <3>5. values[j].preset.ns # home => Scope(values[j].preset.ns) = 1  BY <3>3, ScopeIs
    <3> QED  BY <3>1, <3>2, <3>4, <3>5 DEF Overridden
  <2>3. Precedence  OBVIOUS
  <2> QED  BY <1>1, <1>7, <1>8, <2>1, <2>2, <2>3, BundleInFront
<1>15. NothingLost'  BY <1>1 DEF NothingLost
<1>16. LostOK'
  <2> SUFFICES ASSUME NEW p \in presets' \cap steady', InScope(p)', p.ns # Cluster
               PROVE  NotLostYet(p)'
    BY DEF LostOK
  <2>1. p \in presets \cap steady /\ InScope(p)  BY <1>1, SameWorld DEF history
  <2>2. NotLostYet(p)  BY <2>1 DEF LostOK
  <2>3. p.ns = home => Kept(p)'  BY <1>1, <1>9, <2>2 DEF NotLostYet
  <2>4. p.ns = n /\ n # home => Kept(p)'
    <3> SUFFICES ASSUME p.ns = n, n # home PROVE Kept(p)'  OBVIOUS
    <3>1. CASE p.name \notin knownPresets
      <4>1. PICK i \in DOMAIN b : b[i].preset = p  BY <1>6, <2>1, <3>1
      <4> QED  BY <1>9, <4>1 DEF Kept
    <3>2. CASE p.name \in knownPresets
      <4>1. Noted(p.name, {home})  BY <1>1, <3>2 DEF KnownOK
      <4>2. Scope(home) > Scope(p.ns)  BY <1>2, <1>4, ScopeIs
      <4>3. Kept(p)  BY <4>1, <4>2 DEF Noted, Kept
      <4> QED  BY <1>9, <4>3
    <3> QED  BY <3>1, <3>2
  <2>5. p.ns # home => Kept(p)' \/ \E k \in DOMAIN namespaces' : namespaces'[k] = p.ns
    BY <1>1, <1>4, <1>9, <2>2, <2>4 DEF NotLostYet
  <2> QED  BY <1>1, <2>3, <2>5 DEF NotLostYet
<1> QED  BY <1>10, <1>11, <1>12, <1>13, <1>14, <1>15, <1>16 DEF Rest

(* The cluster-wide presets, at the end.                                   *)
LEMMA ClusterStep ==
    ASSUME IInv, ListCluster
    PROVE  Rest'
<1> USE DEF IInv
<1>1. UNCHANGED cluster /\ locals' = locals /\ history' = history /\ pc = "cluster" /\ pc' = "done"
  BY DEF ListCluster
<1>2. PICK b : b = Bundle(Cluster, knownPresets)  OBVIOUS
<1>3. /\ b \in Seq(Value) /\ values' = b \o values /\ values \in Seq(Value)
      /\ \A i \in DOMAIN b : b[i].preset.ns = Cluster /\ b[i].refName = Cluster
      /\ \A i, j \in DOMAIN b : i < j => b[i].preset.name < b[j].preset.name
      /\ \A p \in presets : p.ns = Cluster /\ p.name \notin knownPresets =>
            \E i \in DOMAIN b : b[i].preset = p
  BY <1>2, BundleIs DEF ListCluster, TypeOK
<1>4. /\ \A p : Kept(p) => Kept(p)'
      /\ \A i \in DOMAIN b : i \in DOMAIN values' /\ values'[i] = b[i]
      /\ \A i \in DOMAIN values' :
            \/ \E j \in DOMAIN b : values'[i] = b[j]
            \/ \E j \in DOMAIN values : values'[i] = values[j]
  BY <1>1, <1>3, BundleInFront
<1>5. Places' /\ LoopOK' /\ KnownOK' /\ LostOK'
  BY <1>1 DEF Places, LoopOK, KnownOK, LostOK, NotLostYet
<1>6. ValuesOK'
  <2>1. \A i \in DOMAIN values' : values'[i].refName = values'[i].preset.ns
    BY <1>3, <1>4 DEF ValuesOK
  <2> QED  BY <1>1, <2>1 DEF ValuesOK
<1>7. Precedence'
  <2>1. \A i, j \in DOMAIN b : i < j => Overridden(b[i].preset, b[j].preset)
    BY <1>3 DEF Overridden
  <2>2. \A i \in DOMAIN b : \A j \in DOMAIN values : Overridden(b[i].preset, values[j].preset)
    BY <1>1, <1>3, ScopeIs DEF Overridden, ValuesOK
  <2>3. Precedence  OBVIOUS
  <2> QED  BY <1>1, <1>3, <2>1, <2>2, <2>3, BundleInFront
<1>8. NothingLost'
  <2> SUFFICES ASSUME NEW p \in presets' \cap steady', InScope(p)' PROVE Kept(p)'
    BY DEF NothingLost, Kept
  <2>1. p \in presets \cap steady /\ InScope(p)  BY <1>1, SameWorld DEF history
  <2>2. CASE p.ns # Cluster
    <3>1. Kept(p)  BY <1>1, <2>1, <2>2 DEF LostOK, NotLostYet
    <3> QED  BY <1>4, <3>1
  <2>3. CASE p.ns = Cluster /\ p.name \notin knownPresets
    BY <1>3, <1>4, <2>1, <2>3 DEF Kept
  <2>4. CASE p.ns = Cluster /\ p.name \in knownPresets
    <3>1. Noted(p.name, Namespaces)  BY <1>1, <2>4 DEF KnownOK
    <3>2. \A ns \in Namespaces : ns # Cluster  BY NamesAssumption
    <3>3. Kept(p)  BY <2>4, <3>1, <3>2, ScopeIs DEF Noted, Kept
    <3> QED  BY <1>4, <3>3
  <2> QED  BY <2>2, <2>3, <2>4
<1> QED  BY <1>5, <1>6, <1>7, <1>8 DEF Rest

---------------------------------------------------------------------------
(* The theorems.                                                           *)

(* Every step keeps the invariant.                                         *)
LEMMA Inductive == Spec => []IInv
<1>1. ASSUME IInv, [Next]_vars PROVE IInv'
  <2>1. TypeOK'  BY <1>1, TypeStep
  <2>2. Rest'
    <3>1. CASE UNCHANGED vars
      <4>1. UNCHANGED <<cluster, pc, values, locals, history>>  BY <3>1 DEF vars
      <4>2. /\ presets' = presets /\ projectOf' = projectOf /\ rancher' = rancher
            /\ variant' = variant /\ home' = home /\ pc' = pc /\ values' = values
            /\ knownPresets' = knownPresets /\ projectPresets' = projectPresets
            /\ project' = project /\ namespaces' = namespaces /\ steady' = steady
        BY <4>1 DEF cluster, locals, history
      <4>3. \A p : InScope(p)' <=> InScope(p)  BY <4>1, SameWorld
      <4>4. Places' /\ ValuesOK' /\ LoopOK'
        BY <1>1, <4>2 DEF IInv, Places, ValuesOK, LoopOK
      <4>5. KnownOK'  BY <1>1, <4>2 DEF IInv, KnownOK, Noted
      <4>6. Precedence'  BY <1>1, <4>1, SameValues DEF IInv
      <4>7. \A p : Kept(p)' <=> Kept(p)  BY <4>1, SameValues
      <4>8. LostOK'
        BY <1>1, <4>2, <4>3, <4>7 DEF IInv, LostOK, NotLostYet
      <4>9. NothingLost'
        <5>1. NothingLost <=> (pc = "done" /\ variant = "selecting" =>
                 \A p \in presets \cap steady : InScope(p) => Kept(p))
          BY DEF NothingLost, Kept
        <5>2. NothingLost' <=> (pc' = "done" /\ variant' = "selecting" =>
                 \A p \in presets' \cap steady' : InScope(p)' => Kept(p)')
          BY DEF NothingLost, Kept
        <5> QED  BY <1>1, <4>2, <4>3, <4>7, <5>1, <5>2 DEF IInv
      <4> QED  BY <4>4, <4>5, <4>6, <4>8, <4>9 DEF Rest
    <3>2. CASE Next
      BY <1>1, <3>2, BeginStep, EditStep, VariantStep, OwnStep, ProjectStep, MembersStep,
         MarkStep, SiblingStep, ClusterStep DEF Next
    <3> QED  BY <1>1, <3>1, <3>2
  <2> QED  BY <2>1, <2>2 DEF Rest, IInv
<1> QED  BY <1>1, Initially, PTL DEF Spec

(* Every variable keeps its type, and namespaces are only visited for a    *)
(* project (main.go:155-164).                                              *)
THEOREM TypeCorrect == Spec => []TypeOK
BY Inductive, PTL DEF IInv

(* The values come out in the order in which a later one overrides an      *)
(* earlier one, whatever is edited between the reads (main.go:139-196).    *)
THEOREM PrecedenceKept == Spec => []Precedence
BY Inductive, PTL DEF IInv

(* No preset that was there and in scope all along is lost, whatever else  *)
(* is edited between the reads (main.go:139-196, 240).                     *)
THEOREM NoPresetLost == Spec => []NothingLost
BY Inductive, PTL DEF IInv
=============================================================================
