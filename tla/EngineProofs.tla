----------------------------- MODULE EngineProofs ------------------------------
(***************************************************************************)
(* What a start of an engine promises, for any catalog, machines and       *)
(* planners: the port, the planned context, the fitted context, and the    *)
(* quant and the models that are chosen.                                   *)
(***************************************************************************)
EXTENDS EngineStart, FiniteSetTheorems, SequenceTheorems, WellFoundedInduction, TLAPS

-------------------------------------------------------------------------------
(***************************************************************************)
(* The port.  While the search goes on, it has found every port before     *)
(* this one in use, but for the gateway's.                                 *)
(***************************************************************************)

Before(p) == FirstPort..(p - 1)

PortInv ==
  /\ port \in Port
  /\ pc = "ports" => taken \subseteq Before(port) /\ Before(port) \subseteq taken \cup {Gateway}
  /\ FirstFree

LEMMA Ports == FirstPort \in Nat /\ LastPort \in Nat /\ Gateway \in Nat /\ FirstPort <= LastPort
BY PortsOrdered

LEMMA NothingBefore == Before(FirstPort) = {} /\ FirstPort \in Port
BY Ports DEF Before, Port

LEMMA PortInit == Init => PortInv
BY NothingBefore DEF Init, PortInv, FirstFree

(* A step of the planner, of the entry or of another program.              *)
LEMMA PortKept ==
  ASSUME PortInv, UNCHANGED <<port, taken>>,
         pc' = pc \/ (pc \in {"plan", "halve"} /\ pc' \in {"halve", "up", "no plan"})
                  \/ (pc = "idle" /\ pc' \in {"refused", "checked"})
  PROVE  PortInv'
BY DEF PortInv, FirstFree, Before, Port

LEMMA PortTry == ASSUME PortInv, TryPort PROVE PortInv'
<1> USE Ports DEF Port
<1>a. port \in FirstPort..LastPort /\ pc = "ports"
  BY DEF PortInv, TryPort
<1> port \in Nat /\ FirstPort <= port /\ port <= LastPort /\ pc = "ports"
  BY <1>a
<1>1. CASE port # Gateway /\ port \notin busy
  <2>1. UNCHANGED <<port, taken>> /\ pc' = IF port = LastPort THEN "no port" ELSE Found
    BY <1>1 DEF TryPort
  <2>2. Found \in {"plan", "up"}
    BY DEF Found
  <2>3. port \notin taken
    BY DEF PortInv, Before
  <2> QED BY <1>1, <2>1, <2>2, <2>3 DEF PortInv, FirstFree, Before
<1>2. CASE ~(port # Gateway /\ port \notin busy)
  <2>1. taken' = taken \cup ({port} \ {Gateway}) /\ NextPort
    BY <1>2 DEF TryPort
  <2>2. CASE port = LastPort
    BY <2>1, <2>2 DEF NextPort, PortInv, FirstFree, Before
  <2>3. CASE port # LastPort
    <3>1. port' = port + 1 /\ pc' = "ports"
      BY <2>1, <2>3 DEF NextPort
    <3>2. taken' \subseteq Before(port') /\ Before(port') \subseteq taken' \cup {Gateway}
      BY <2>1, <3>1 DEF PortInv, Before
    <3>3. port' \in Port
      BY <2>3, <3>1
    <3> QED BY <3>1, <3>2, <3>3 DEF PortInv, FirstFree
  <2> QED BY <2>2, <2>3
<1> QED BY <1>1, <1>2

LEMMA PortStep == PortInv /\ [Next]_vars => PortInv'
<1> SUFFICES ASSUME PortInv, [Next]_vars PROVE PortInv'
  OBVIOUS
<1>1. CASE \E m \in Model : Install(m)
  BY <1>1, PortKept DEF Install, search
<1>2. CASE InitConfig
  BY <1>2, PortKept DEF InitConfig, search
<1>3. CASE \E x \in Machine : Move(x)
  BY <1>3, PortKept DEF Move, search
<1>4. CASE \E p \in Port : Listen(p)
  BY <1>4, PortKept DEF Listen
<1>5. CASE \E force \in BOOLEAN : Check(force)
  BY <1>5, PortKept DEF Check, search
<1>6. CASE FixContext
  <2>1. port' = FirstPort /\ taken' = {} /\ pc' = "ports"
    BY <1>6 DEF FixContext
  <2> QED BY <2>1, NothingBefore DEF PortInv, FirstFree
<1>7. CASE TryPort
  BY <1>7, PortTry
<1>8. CASE KeepFixed
  BY <1>8, PortKept DEF KeepFixed, search
<1>9. CASE BeginPlan
  BY <1>9, PortKept DEF BeginPlan, search
<1>10. CASE Halve
  BY <1>10, PortKept DEF Halve, search
<1>11. CASE Planned
  BY <1>11, PortKept DEF Planned, search
<1>12. CASE Stop
  <2>1. port' = FirstPort /\ pc' = "idle"
    BY <1>12 DEF Stop
  <2> QED BY <2>1, NothingBefore DEF PortInv, FirstFree
<1>13. CASE UNCHANGED vars
  BY <1>13, PortKept DEF vars, search
<1> QED BY <1>1, <1>2, <1>3, <1>4, <1>5, <1>6, <1>7, <1>8, <1>9, <1>10, <1>11, <1>12, <1>13
        DEF Next

(* An engine gets the first port that was not in use when it was tried,    *)
(* and never the gateway's, however many ports there are and whoever comes *)
(* and goes (allocate_engine_ports).                                       *)
THEOREM PortSafe == Spec => []FirstFree
<1>1. Init => PortInv
  BY PortInit
<1>2. PortInv /\ [Next]_vars => PortInv'
  BY PortStep
<1>3. PortInv => FirstFree
  BY DEF PortInv
<1> QED BY <1>1, <1>2, <1>3, PTL DEF Spec

-------------------------------------------------------------------------------
(***************************************************************************)
(* The operators of the choices.  What holds of finite sets of any size is *)
(* shown by its least counterexample.                                      *)
(***************************************************************************)

LEMMA Least ==
  ASSUME NEW T \in SUBSET Nat, T # {}
  PROVE  \E x \in T : \A y \in T : x <= y
<1> DEFINE R == {ss \in Nat \X Nat : ss[1] < ss[2]}
<1>1. IsWellFoundedOn(R, Nat)
  BY NatLessThanWellFounded DEF OpToRel
<1> HIDE DEF R
<1>2. \E x \in T : \A y \in T : ~ (<<y, x>> \in R)
  BY <1>1, WFMin
<1>3. \A x, y \in T : ~ (<<y, x>> \in R) => x <= y
  BY DEF R
<1> QED BY <1>2, <1>3

(* Of the elements of a set the least by a measure.                        *)
LEMMA LeastBy ==
  ASSUME NEW S, S # {}, NEW f \in [S -> Nat]
  PROVE  \E m \in S : \A n \in S : f[m] <= f[n]
<1> DEFINE T == {f[m] : m \in S}
<1>1. T \in SUBSET Nat /\ T # {}
  OBVIOUS
<1>2. PICK x \in T : \A y \in T : x <= y
  BY <1>1, Least
<1> QED BY <1>2

(* And, if the set is finite, the greatest.                                *)
LEMMA GreatestBy ==
  ASSUME NEW S, S # {}, IsFiniteSet(S), NEW f \in [S -> Nat]
  PROVE  \E m \in S : \A n \in S : f[n] <= f[m]
<1> DEFINE Without(T) == ~ \E m \in T : \A n \in T : f[n] <= f[m]
           Bad == {c \in Nat : \E T \in SUBSET S : T # {} /\ Cardinality(T) = c /\ Without(T)}
<1>1. \A T \in SUBSET S : IsFiniteSet(T) /\ Cardinality(T) \in Nat
  BY FS_Subset, FS_CardinalityType
<1>2. CASE Bad # {}
  <2>1. PICK c \in Bad : \A d \in Bad : c <= d
    BY <1>2, Least
  <2>2. PICK T \in SUBSET S : T # {} /\ Cardinality(T) = c /\ Without(T)
    BY <2>1
  <2>3. PICK m \in T : TRUE
    BY <2>2
  <2>4. Cardinality(T \ {m}) = c - 1
    BY <1>1, <2>2, <2>3, FS_RemoveElement
  <2>5. CASE T \ {m} = {}
    BY <2>2, <2>3, <2>5
  <2>6. CASE T \ {m} # {}
    <3>1. ~Without(T \ {m})
      <4>1. (c - 1) \notin Bad
        BY <2>1
      <4> QED BY <4>1, <2>4, <2>6, <1>1
    <3>2. PICK k \in T \ {m} : \A n \in T \ {m} : f[n] <= f[k]
      BY <3>1
    <3>3. f[k] \in Nat /\ f[m] \in Nat
      BY <2>3
    <3>4. CASE f[m] <= f[k]
      BY <3>2, <3>4, <2>2
    <3>5. CASE f[k] <= f[m]
      <4>1. \A n \in T : f[n] <= f[m]
        BY <3>2, <3>3, <3>5
      <4> QED BY <4>1, <2>2
    <3> QED BY <3>3, <3>4, <3>5
  <2> QED BY <2>5, <2>6
<1>3. CASE Bad = {}
  <2>1. Cardinality(S) \notin Bad
    BY <1>3
  <2> QED BY <2>1, <1>1
<1> QED BY <1>2, <1>3

LEMMA MaxOfTwo ==
  ASSUME NEW a \in Int, NEW b \in Int
  PROVE  Max({a, b}) = IF a >= b THEN a ELSE b
<1>1. \E x \in {a, b} : \A y \in {a, b} : x >= y
  OBVIOUS
<1>2. Max({a, b}) \in {a, b} /\ \A y \in {a, b} : Max({a, b}) >= y
  BY <1>1 DEF Max
<1> QED BY <1>2

LEMMA MinOfTwo ==
  ASSUME NEW a \in Int, NEW b \in Int
  PROVE  Min({a, b}) = IF a <= b THEN a ELSE b
<1>1. \E x \in {a, b} : \A y \in {a, b} : x =< y
  OBVIOUS
<1>2. Min({a, b}) \in {a, b} /\ \A y \in {a, b} : Min({a, b}) =< y
  BY <1>1 DEF Min
<1> QED BY <1>2

LEMMA InfoTyped ==
  ASSUME NEW m \in DOMAIN Catalog
  PROVE  /\ Catalog[m].native \in Nat /\ Catalog[m].native >= 1
         /\ Catalog[m].rate \in Nat /\ Catalog[m].rate >= 1
         /\ Catalog[m].tier \in Nat /\ Catalog[m].active \in Nat
         /\ Quants(m) \subseteq Quant /\ Quants(m) # {} /\ IsFiniteSet(Quants(m))
         /\ \A q \in Quants(m) : Catalog[m].sizes[q] \in Nat
<1>1. IsInfo(Catalog[m])
  BY CatalogTyped
<1>2. Catalog[m].native \in Nat /\ Catalog[m].native >= 1
  BY <1>1 DEF IsInfo
<1>3. Catalog[m].rate \in Nat /\ Catalog[m].rate >= 1
  BY <1>1 DEF IsInfo
<1>4. Catalog[m].tier \in Nat /\ Catalog[m].active \in Nat
  BY <1>1, TiersTyped DEF IsInfo
<1>5. Quants(m) \subseteq Quant /\ Quants(m) # {} /\ IsFiniteSet(Quants(m))
  BY <1>1 DEF IsInfo, Quants
<1>6. \A q \in Quants(m) : Catalog[m].sizes[q] \in Nat
  BY <1>1 DEF IsInfo, Quants
<1> QED BY <1>2, <1>3, <1>4, <1>5, <1>6

LEMMA GgufTyped ==
  /\ Gguf \subseteq DOMAIN Catalog /\ DefaultModel \in Gguf
  /\ \A m \in Gguf : Catalog[m].default \in Quants(m)
<1>1. Gguf \subseteq DOMAIN Catalog
  BY DEF Gguf
<1>2. \A m \in Gguf : m \notin Problems
  BY CatalogConsistent
<1> QED BY <1>1, <1>2, CatalogConsistent DEF Problems

(* The elements of S, each once, those that compute less before the others. *)
Sorted(s, S) ==
  /\ s \in [1..Cardinality(S) -> S]
  /\ \A i, j \in 1..Cardinality(S) : i < j => s[i] # s[j] /\ Catalog[s[i]].active <= Catalog[s[j]].active

LEMMA SortExists ==
  ASSUME NEW S \in SUBSET DOMAIN Catalog PROVE \E s : Sorted(s, S)
<1> DEFINE Unsorted(T) == \A s : ~Sorted(s, T)
           Bad == {c \in Nat : \E T \in SUBSET S : Cardinality(T) = c /\ Unsorted(T)}
<1>1. IsFiniteSet(S) /\ \A T \in SUBSET S : IsFiniteSet(T) /\ Cardinality(T) \in Nat
  BY FS_Subset, FS_CardinalityType, CatalogTyped
<1>2. CASE Bad # {}
  <2>1. PICK c \in Bad : \A d \in Bad : c <= d
    <3> HIDE DEF Bad
    <3>1. Bad \subseteq Nat
      BY DEF Bad
    <3> QED BY <1>2, <3>1, Least
  <2>2. PICK T \in SUBSET S : Cardinality(T) = c /\ Unsorted(T)
    BY <2>1
  <2>3. CASE c = 0
    <3>1. T = {}
      BY <1>1, <2>2, <2>3, FS_EmptySet
    <3>2. Sorted([i \in 1..0 |-> 0], T)
      BY <3>1, FS_EmptySet DEF Sorted
    <3> QED BY <3>2, <2>2
  <2>4. CASE c # 0
    <3> DEFINE f == [m \in T |-> Catalog[m].active]
    <3>1. T # {}
      BY <2>2, <2>4, FS_EmptySet
    <3>2. f \in [T -> Nat]
      BY InfoTyped
    <3>3. PICK m \in T : \A n \in T : f[m] <= f[n]
      <4> HIDE DEF f
      <4> QED BY <3>1, <3>2, LeastBy
    <3>4. \A n \in T : Catalog[m].active <= Catalog[n].active
      BY <3>3
    <3>5. Cardinality(T \ {m}) = c - 1
      BY <1>1, <2>2, FS_RemoveElement
    <3>6. PICK s : Sorted(s, T \ {m})
      <4>1. (c - 1) \notin Bad
        BY <2>1
      <4>2. c - 1 \in Nat
        BY <2>1, <2>4
      <4>3. T \ {m} \in SUBSET S
        OBVIOUS
      <4> QED BY <4>1, <4>2, <4>3, <3>5
    <3> DEFINE t == [i \in 1..c |-> IF i = 1 THEN m ELSE s[i - 1]]
    <3>7. s \in [1..(c - 1) -> T \ {m}]
      BY <3>5, <3>6 DEF Sorted
    <3>8. \A i, j \in 1..(c - 1) : i < j => s[i] # s[j] /\ Catalog[s[i]].active <= Catalog[s[j]].active
      BY <3>5, <3>6 DEF Sorted
    <3>9. c \in Nat
      BY <2>1
    <3> HIDE DEF Bad
    <3>10. \A i \in 2..c : (i - 1) \in 1..(c - 1) /\ t[i] = s[i - 1] /\ s[i - 1] \in T \ {m}
      BY <3>7, <3>9
    <3>11. t \in [1..c -> T]
      <4>1. \A i \in 1..c : (IF i = 1 THEN m ELSE s[i - 1]) \in T
        <5>1. \A i \in 1..c : i = 1 \/ i \in 2..c
          BY <3>9
        <5>2. \A i \in 2..c : s[i - 1] \in T
          BY <3>10
        <5> QED BY <5>1, <5>2
      <4> QED BY <4>1
    <3>12. \A i, j \in 1..c : i < j => t[i] # t[j] /\ Catalog[t[i]].active <= Catalog[t[j]].active
      <4> SUFFICES ASSUME NEW i \in 1..c, NEW j \in 1..c, i < j
                   PROVE  t[i] # t[j] /\ Catalog[t[i]].active <= Catalog[t[j]].active
        OBVIOUS
      <4>1. j \in 2..c
        BY <3>9
      <4>2. CASE i = 1
        <5>1. t[i] = m
          BY <4>2, <3>9
        <5> QED BY <5>1, <4>1, <3>10, <3>4
      <4>3. CASE i # 1
        <5>1. i \in 2..c
          BY <4>3, <3>9
        <5>2. i - 1 < j - 1
          BY <3>9
        <5> HIDE DEF t
        <5> QED BY <5>1, <5>2, <4>1, <3>10, <3>8
      <4> QED BY <4>2, <4>3
    <3> HIDE DEF t
    <3>13. Sorted(t, T)
      BY <3>11, <3>12, <2>2 DEF Sorted
    <3> QED BY <3>13, <2>2
  <2> QED BY <2>3, <2>4
<1>3. CASE Bad = {}
  <2>1. Cardinality(S) \notin Bad
    BY <1>3
  <2> QED BY <2>1, <1>1
<1> QED BY <1>2, <1>3

LEMMA BySpeedSorts ==
  ASSUME NEW S \in SUBSET DOMAIN Catalog
  PROVE  /\ BySpeed(S) \in Seq(S) /\ Len(BySpeed(S)) = Cardinality(S) /\ Cardinality(S) \in Nat
         /\ \A i, j \in 1..Cardinality(S) : i # j => BySpeed(S)[i] # BySpeed(S)[j]
<1> DEFINE s == BySpeed(S)
           Right(x) == \A i, j \in DOMAIN x : i < j => x[i] # x[j] /\ Catalog[x[i]].active <= Catalog[x[j]].active
<1>1. Cardinality(S) \in Nat
  BY CatalogTyped, FS_Subset, FS_CardinalityType
<1>2. \E x \in [1..Cardinality(S) -> S] : Right(x)
  <2>1. PICK x : Sorted(x, S)
    BY SortExists
  <2>2. x \in [1..Cardinality(S) -> S] /\ DOMAIN x = 1..Cardinality(S)
    BY <2>1 DEF Sorted
  <2>3. Right(x)
    BY <2>1, <2>2 DEF Sorted
  <2> QED BY <2>2, <2>3
<1>3. s \in [1..Cardinality(S) -> S] /\ Right(s)
  <2>1. s = CHOOSE x \in [1..Cardinality(S) -> S] : Right(x)
    BY DEF BySpeed
  <2> HIDE DEF s, Right
  <2> QED BY <1>2, <2>1
<1>4. DOMAIN s = 1..Cardinality(S)
  BY <1>3
<1>5. \A i, j \in 1..Cardinality(S) : i < j => s[i] # s[j]
  BY <1>3, <1>4
<1>6. \A i, j \in 1..Cardinality(S) : i # j => s[i] # s[j]
  <2> HIDE DEF s, Right
  <2> QED BY <1>5, <1>1
<1>7. s \in Seq(S) /\ Len(s) = Cardinality(S)
  <2> HIDE DEF s, Right
  <2> QED BY <1>3, <1>1
<1> QED BY <1>1, <1>6, <1>7

Toughest(m, S) == \A n \in S : Catalog[n].tier <= Catalog[m].tier

(* recommended_for_ram, up to three: each once, the default at the head,   *)
(* and one of the strongest tier among them.                               *)
LEMMA RecommendedIs ==
  ASSUME NEW budget
  PROVE  LET fits == FitsBudget(budget)
             R == Recommended(budget, 3)
         IN /\ R \in Seq(fits)
            /\ R = <<>> <=> fits = {}
            /\ DefaultModel \in fits => R[1] = DefaultModel
            /\ fits # {} => \E i \in 1..Len(R) : Toughest(R[i], fits)
            /\ \A i, j \in 1..Len(R) : i # j => R[i] # R[j]
<1> DEFINE fits == FitsBudget(budget)
           first == fits \cap {DefaultModel}
           strongest == {m \in fits : \A n \in fits : Catalog[n].tier <= Catalog[m].tier} \ first
           rest == fits \ (first \cup strongest)
           a == BySpeed(first)
           b == BySpeed(strongest)
           c == BySpeed(rest)
           all == a \o b \o c
           R == Recommended(budget, 3)
           la == Cardinality(first)
           lb == Cardinality(strongest)
           lc == Cardinality(rest)
<1>1. fits \in SUBSET DOMAIN Catalog
  BY GgufTyped DEF FitsBudget
<1>2. R = SubSeq(all, 1, Min({3, Len(all)}))
  BY DEF Recommended
<1>3. first \in SUBSET fits /\ strongest \in SUBSET fits /\ rest \in SUBSET fits
  OBVIOUS
<1>3a. first \cap strongest = {} /\ first \cap rest = {} /\ strongest \cap rest = {}
  OBVIOUS
<1>3b. \A m \in strongest : Toughest(m, fits)
  BY DEF Toughest
<1>3c. \A m \in fits : Toughest(m, fits) => m \in first \cup strongest
  BY DEF Toughest
<1>3d. first = IF DefaultModel \in fits THEN {DefaultModel} ELSE {}
  OBVIOUS
<1> HIDE DEF fits, first, strongest, rest
<1>4. /\ a \in Seq(first) /\ Len(a) = la /\ la \in Nat
      /\ \A i, j \in 1..la : i # j => a[i] # a[j]
  BY <1>1, <1>3, BySpeedSorts
<1>5. /\ b \in Seq(strongest) /\ Len(b) = lb /\ lb \in Nat
      /\ \A i, j \in 1..lb : i # j => b[i] # b[j]
  BY <1>1, <1>3, BySpeedSorts
<1>6. /\ c \in Seq(rest) /\ Len(c) = lc /\ lc \in Nat
      /\ \A i, j \in 1..lc : i # j => c[i] # c[j]
  BY <1>1, <1>3, BySpeedSorts
<1> HIDE DEF a, b, c
<1>7. /\ \A i \in 1..la : a[i] \in first
      /\ \A i \in 1..lb : b[i] \in strongest
      /\ \A i \in 1..lc : c[i] \in rest
  BY <1>4, <1>5, <1>6, ElementOfSeq
<1>8. a \in Seq(fits) /\ b \in Seq(fits) /\ c \in Seq(fits)
  BY <1>3, <1>4, <1>5, <1>6, SeqMonotonic
<1>9. /\ a \o b \in Seq(fits) /\ Len(a \o b) = la + lb
      /\ \A i \in 1..(la + lb) : (a \o b)[i] = IF i <= la THEN a[i] ELSE b[i - la]
  <2>1. /\ a \o b \in Seq(fits) /\ Len(a \o b) = Len(a) + Len(b)
        /\ \A i \in 1..(Len(a) + Len(b)) : (a \o b)[i] = IF i <= Len(a) THEN a[i] ELSE b[i - Len(a)]
    BY <1>8, ConcatProperties
  <2> HIDE DEF la, lb
  <2> QED BY <2>1, <1>4, <1>5
<1> HIDE DEF la, lb, lc
<1>10. /\ all \in Seq(fits) /\ Len(all) = la + lb + lc
       /\ \A i \in 1..(la + lb + lc) : all[i] = IF i <= la + lb THEN (a \o b)[i] ELSE c[i - (la + lb)]
  <2> DEFINE ab == a \o b
  <2>1. ab \in Seq(fits) /\ Len(ab) = la + lb
    BY <1>9
  <2> HIDE DEF ab
  <2>2. /\ ab \o c \in Seq(fits) /\ Len(ab \o c) = Len(ab) + Len(c)
        /\ \A i \in 1..(Len(ab) + Len(c)) : (ab \o c)[i] = IF i <= Len(ab) THEN ab[i] ELSE c[i - Len(ab)]
    BY <2>1, <1>8, ConcatProperties
  <2>3. /\ ab \o c \in Seq(fits) /\ Len(ab \o c) = la + lb + lc
        /\ \A i \in 1..(la + lb + lc) : (ab \o c)[i] = IF i <= la + lb THEN ab[i] ELSE c[i - (la + lb)]
    BY <2>1, <2>2, <1>6
  <2> QED BY <2>3 DEF ab
<1> HIDE DEF all
<1>11. \A i \in 1..la : all[i] = a[i]
  BY <1>4, <1>5, <1>6, <1>9, <1>10
<1>12. \A i \in (la + 1)..(la + lb) : all[i] = b[i - la] /\ i - la \in 1..lb
  <2> TAKE i \in (la + 1)..(la + lb)
  <2>1. i \in 1..(la + lb) /\ i \in 1..(la + lb + lc) /\ ~(i <= la) /\ i <= la + lb /\ i - la \in 1..lb
    BY <1>4, <1>5, <1>6
  <2> QED BY <2>1, <1>9, <1>10
<1>13. \A i \in (la + lb + 1)..(la + lb + lc) : all[i] = c[i - (la + lb)] /\ i - (la + lb) \in 1..lc
  BY <1>4, <1>5, <1>6, <1>10
<1> DEFINE A == 1..la
           B == (la + 1)..(la + lb)
           C == (la + lb + 1)..(la + lb + lc)
<1>14. 1..Len(all) = A \cup B \cup C
  BY <1>4, <1>5, <1>6, <1>10
<1>15. \A i, j \in 1..Len(all) : i # j => all[i] # all[j]
  <2>1. \A i, j \in A : i # j => all[i] # all[j]
    BY <1>11, <1>4
  <2>2. \A i, j \in B : i # j => all[i] # all[j]
    <3>1. \A i, j \in B : i # j => i - la # j - la
      BY <1>4, <1>5
    <3> QED BY <3>1, <1>12, <1>5
  <2>3. \A i, j \in C : i # j => all[i] # all[j]
    <3>1. \A i, j \in C : i # j => i - (la + lb) # j - (la + lb)
      BY <1>4, <1>5, <1>6
    <3> QED BY <3>1, <1>13, <1>6
  <2>4. /\ \A i \in A : all[i] \in first
        /\ \A i \in B : all[i] \in strongest
        /\ \A i \in C : all[i] \in rest
    BY <1>7, <1>11, <1>12, <1>13
  <2> HIDE DEF A, B, C
  <2> QED BY <2>1, <2>2, <2>3, <2>4, <1>3a, <1>14
<1>16. R \in Seq(fits) /\ Len(R) = Min({3, Len(all)}) /\ \A i \in 1..Len(R) : R[i] = all[i]
  <2> DEFINE n == Min({3, Len(all)})
  <2>1. Len(all) \in Nat
    BY <1>4, <1>5, <1>6, <1>10
  <2>2. n = IF 3 <= Len(all) THEN 3 ELSE Len(all)
    BY <2>1, MinOfTwo
  <2> HIDE DEF n
  <2>3. n \in Nat /\ n <= Len(all)
    BY <2>1, <2>2
  <2>4. \A i \in 1..n : all[i] \in fits
    BY <1>10, <2>1, <2>3, ElementOfSeq
  <2>5. /\ SubSeq(all, 1, n) \in Seq(fits)
        /\ Len(SubSeq(all, 1, n)) = IF 1 <= n THEN n - 1 + 1 ELSE 0
        /\ \A i \in 1..(n - 1 + 1) : SubSeq(all, 1, n)[i] = all[1 + i - 1]
    BY <2>3, <2>4, SubSeqProperties
  <2>6. R = SubSeq(all, 1, n)
    BY <1>2 DEF n
  <2> HIDE DEF R
  <2>7. Len(R) = n
    BY <2>3, <2>5, <2>6
  <2>8. \A i \in 1..n : R[i] = all[i]
    BY <2>3, <2>5, <2>6
  <2> QED BY <2>5, <2>6, <2>7, <2>8 DEF n
<1> HIDE DEF R
<1>17. Len(R) = IF 3 <= la + lb + lc THEN 3 ELSE la + lb + lc
  BY <1>4, <1>5, <1>6, <1>10, <1>16, MinOfTwo
<1>18. la = IF DefaultModel \in fits THEN 1 ELSE 0
  BY <1>3d, FS_EmptySet, FS_Singleton DEF la
<1>19. DefaultModel \in fits => R[1] = DefaultModel
  <2> SUFFICES ASSUME DefaultModel \in fits PROVE R[1] = DefaultModel
    OBVIOUS
  <2>1. la = 1 /\ 1 \in 1..Len(R)
    BY <1>17, <1>18, <1>5, <1>6
  <2>2. R[1] = a[1] /\ a[1] \in first
    <3>1. 1 \in 1..la
      BY <2>1
    <3>2. R[1] = all[1]
      BY <2>1, <1>16
    <3>3. all[1] = a[1]
      BY <3>1, <1>11
    <3>4. a[1] \in first
      BY <3>1, <1>7
    <3> QED BY <3>2, <3>3, <3>4
  <2> QED BY <2>2, <1>3d
<1>20. fits # {} => \E i \in 1..Len(R) : Toughest(R[i], fits)
  <2> SUFFICES ASSUME fits # {} PROVE \E i \in 1..Len(R) : Toughest(R[i], fits)
    OBVIOUS
  <2>1. PICK m \in fits : Toughest(m, fits)
    <3> DEFINE f == [m \in fits |-> Catalog[m].tier]
    <3>1. f \in [fits -> Nat]
      BY <1>1, InfoTyped
    <3>2. IsFiniteSet(fits)
      BY <1>1, FS_Subset, CatalogTyped
    <3>3. \E m \in fits : \A n \in fits : f[n] <= f[m]
      <4> HIDE DEF f
      <4> QED BY <3>1, <3>2, GreatestBy
    <3> QED BY <3>3 DEF Toughest
  <2>2. CASE m \in first
    <3>1. m = DefaultModel /\ DefaultModel \in fits /\ la = 1
      BY <2>2, <1>3d, <1>18
    <3>2. 1 \in 1..Len(R)
      BY <3>1, <1>17, <1>5, <1>6
    <3> QED BY <3>1, <3>2, <1>19, <2>1
  <2>3. CASE m \in strongest
    <3>1. lb # 0
      BY <2>3, <1>1, <1>3, FS_EmptySet, FS_Subset, CatalogTyped DEF lb
    <3>2. la + 1 \in 1..Len(R) /\ la + 1 \in (la + 1)..(la + lb)
      BY <3>1, <1>4, <1>5, <1>6, <1>17, <1>18
    <3>3. R[la + 1] = b[1] /\ 1 \in 1..lb
      <4>1. R[la + 1] = b[(la + 1) - la] /\ (la + 1) - la \in 1..lb
        BY <3>2, <1>12, <1>16
      <4>2. (la + 1) - la = 1
        BY <1>4
      <4> QED BY <4>1, <4>2
    <3> QED BY <3>2, <3>3, <1>7, <1>3b
  <2> QED BY <2>1, <2>2, <2>3, <1>3c
<1>21. R = <<>> <=> fits = {}
  <2>1. fits = {} => R = <<>>
    <3> SUFFICES ASSUME fits = {} PROVE R = <<>>
      OBVIOUS
    <3>1. Len(R) \in Nat /\ \A i \in 1..Len(R) : R[i] \in fits
      BY <1>16, LenProperties
    <3>2. Len(R) = 0
      BY <3>1
    <3> QED BY <3>2, <1>16, EmptySeq
  <2>2. R = <<>> => Len(R) = 0
    OBVIOUS
  <2> QED BY <2>1, <2>2, <1>20
<1>22. \A i, j \in 1..Len(R) : i # j => R[i] # R[j]
  <2>1. \A i \in 1..Len(R) : i \in 1..Len(all)
    BY <1>4, <1>5, <1>6, <1>10, <1>17
  <2> QED BY <2>1, <1>15, <1>16
<1>23. /\ R \in Seq(fits)
       /\ R = <<>> <=> fits = {}
       /\ DefaultModel \in fits => R[1] = DefaultModel
       /\ fits # {} => \E i \in 1..Len(R) : Toughest(R[i], fits)
       /\ \A i, j \in 1..Len(R) : i # j => R[i] # R[j]
  BY <1>16, <1>19, <1>20, <1>21, <1>22
<1> QED BY <1>23 DEF R, fits

LEMMA TimesGrows ==
  ASSUME NEW r \in Nat, NEW a \in Nat, NEW b \in Nat, a <= b
  PROVE  r * a \in Nat /\ r * b \in Nat /\ r * a <= r * b
OBVIOUS

LEMMA Division ==
  ASSUME NEW room \in Nat, NEW rate \in Nat, rate >= 1
  PROVE  /\ room \div rate \in Nat
         /\ rate * (room \div rate) <= room
         /\ room < rate * ((room \div rate) + 1)
OBVIOUS

LEMMA Multiples ==
  ASSUME NEW a \in Nat, NEW b \in Nat, a % 4 = 0, b % 4 = 0, a < b + 4
  PROVE  a <= b
OBVIOUS

(* The most blocks that fit, as WholeBlocks has it.                        *)
LEMMA WholeBlocksIs ==
  ASSUME NEW room \in Nat, NEW rate \in Nat, rate >= 1
  PROVE  LET W == WholeBlocks(room, rate)
         IN /\ W \in Nat /\ W % Block = 0 /\ rate * W <= room
            /\ \A n \in Nat : n % Block = 0 /\ rate * n <= room => n <= W
<1> DEFINE q == room \div rate
           W == WholeBlocks(room, rate)
<1>1. q \in Nat /\ rate * q <= room /\ room < rate * (q + 1)
  BY Division
<1>2. W = (q \div 4) * 4
  BY DEF WholeBlocks, Block
<1> HIDE DEF q, W
<1>3. W \in Nat /\ W % 4 = 0 /\ W <= q /\ q < W + 4
  BY <1>1, <1>2
<1>4. rate * W <= room
  <2>1. rate * W <= rate * q /\ rate * W \in Nat /\ rate * q \in Nat
    BY <1>1, <1>3, TimesGrows
  <2> QED BY <2>1, <1>1
<1>5. ASSUME NEW n \in Nat, n % 4 = 0, rate * n <= room PROVE n <= W
  <2>1. n <= q
    <3>1. CASE q + 1 <= n
      <4>1. rate * (q + 1) <= rate * n /\ rate * n \in Nat /\ rate * (q + 1) \in Nat
        BY <1>1, <3>1, TimesGrows
      <4> QED BY <4>1, <1>1, <1>5
    <3> QED BY <3>1, <1>1
  <2>2. n < W + 4 /\ n % 4 = 0 /\ W % 4 = 0 /\ W \in Nat
    BY <2>1, <1>1, <1>3, <1>5
  <2> QED BY <2>2, Multiples
<1> QED BY <1>3, <1>4, <1>5 DEF W, Block

(* What the weights leave; and fit_context, branch by branch.              *)
Left(gb, ram, mac) == GpuBudget(ram, mac) - Weights(gb)

MostBlocks(W, room, rate) ==
  /\ W \in Nat /\ W % Block = 0 /\ rate * W <= room
  /\ \A n \in Nat : n % Block = 0 /\ rate * n <= room => n <= W

Capped(fit, target) ==
  fit = target \/ (target < fit /\ fit = MinCtx) \/ (Cap < target /\ fit = Cap)

LEMMA FitIs ==
  ASSUME NEW rate \in Nat, rate >= 1, NEW gb \in Nat, NEW ram \in Nat, NEW mac \in BOOLEAN,
         NEW target \in Nat
  PROVE  LET left == Left(gb, ram, mac)
             fit == FitContext(rate, gb, ram, target, mac)
         IN /\ left \in Int /\ fit \in Nat /\ rate * target \in Nat
            /\ rate * target <= left => fit = target
            /\ rate * target > left /\ left > GB =>
                 \E W : MostBlocks(W, left - GB, rate) /\ fit = IF W >= MinCtx THEN W ELSE MinCtx
            /\ rate * target > left /\ left <= GB =>
                 /\ MinCtx <= fit /\ fit <= Cap
                 /\ Capped(fit, target)
<1> DEFINE left == Left(gb, ram, mac)
           fit == FitContext(rate, gb, ram, target, mac)
           cost == rate * target
           Small == /\ MinCtx <= fit /\ fit <= Cap
                    /\ Capped(fit, target)
           Middle == \E W : MostBlocks(W, left - GB, rate) /\ fit = IF W >= MinCtx THEN W ELSE MinCtx
<1> USE DEF GB, MinCtx, Cap, Capped
<1>1. left \in Int
  BY DEF Left, GpuBudget, RamLimit, Weights
<1>2. fit = CASE cost <= left -> target
              [] cost > left /\ left > GB -> Max({WholeBlocks(left - GB, rate), MinCtx})
              [] OTHER -> Max({Min({target, Cap}), MinCtx})
  BY DEF FitContext, Left
<1>3. cost \in Nat
  BY TimesGrows
<1> HIDE DEF left, fit, cost
<1>5. ASSUME cost > left, left > GB PROVE Middle /\ fit \in Nat
  <2> DEFINE W == WholeBlocks(left - GB, rate)
  <2>1. MostBlocks(W, left - GB, rate)
    <3> DEFINE room == left - GB
    <3>1. room \in Nat
      BY <1>1, <1>5
    <3> HIDE DEF room
    <3> QED BY <3>1, WholeBlocksIs DEF room, MostBlocks
  <2>2. fit = Max({W, MinCtx})
    BY <1>1, <1>2, <1>3, <1>5
  <2>3. W \in Nat
    BY <2>1 DEF MostBlocks
  <2> HIDE DEF W
  <2>4. fit = IF W >= MinCtx THEN W ELSE MinCtx
    BY <2>2, <2>3, MaxOfTwo
  <2>5. fit \in Nat
    BY <2>3, <2>4
  <2> QED BY <2>1, <2>4, <2>5
<1>6. ASSUME cost > left, left <= GB PROVE Small /\ fit \in Nat
  <2>1. fit = Max({Min({target, Cap}), MinCtx})
    BY <1>1, <1>2, <1>3, <1>6
  <2> DEFINE k == Min({target, Cap})
  <2>2. k = IF target <= Cap THEN target ELSE Cap
    BY MinOfTwo
  <2>3. k \in Nat
    BY <2>2
  <2> HIDE DEF k
  <2>4. fit = IF k >= MinCtx THEN k ELSE MinCtx
    <3>1. fit = Max({k, MinCtx})
      BY <2>1 DEF k
    <3> QED BY <3>1, <2>3, MaxOfTwo
  <2> QED BY <2>2, <2>3, <2>4
<1>7. cost > left /\ left > GB => Middle
  BY <1>5
<1>8. cost > left /\ left <= GB => Small
  BY <1>6
<1>9. cost <= left => fit = target
  <2> HIDE DEF Middle, Small
  <2> QED BY <1>1, <1>2, <1>3
<1>10. fit \in Nat
  <2> HIDE DEF Middle, Small
  <2> QED BY <1>1, <1>3, <1>5, <1>6, <1>9
<1> QED BY <1>1, <1>3, <1>7, <1>8, <1>9, <1>10 DEF left, fit, cost

(* Fitting a context again changes nothing, if it is one that counts.      *)
LEMMA FitStable ==
  ASSUME NEW rate \in Nat, rate >= 1, NEW gb \in Nat, NEW ram \in Nat, NEW mac \in BOOLEAN,
         NEW target \in Nat, FitContext(rate, gb, ram, target, mac) >= SaneCtx
  PROVE  FitContext(rate, gb, ram, FitContext(rate, gb, ram, target, mac), mac)
           = FitContext(rate, gb, ram, target, mac)
<1> DEFINE left == Left(gb, ram, mac)
           fit == FitContext(rate, gb, ram, target, mac)
           cost == rate * target
<1>1. /\ left \in Int /\ fit \in Nat /\ cost \in Nat
      /\ cost <= left => fit = target
      /\ cost > left /\ left > GB =>
           \E W : MostBlocks(W, left - GB, rate) /\ fit = IF W >= MinCtx THEN W ELSE MinCtx
      /\ cost > left /\ left <= GB => fit <= Cap
  BY FitIs
<1>2. fit >= SaneCtx
  OBVIOUS
<1> HIDE DEF fit, cost
<1> DEFINE again == FitContext(rate, gb, ram, fit, mac)
           recost == rate * fit
<1>3. /\ recost \in Nat /\ again \in Nat
      /\ recost <= left => again = fit
      /\ recost > left /\ left <= GB => Capped(again, fit)
  BY <1>1, FitIs
<1> HIDE DEF left, again
<1>4. CASE cost <= left
  <2>1. fit = target /\ recost = cost
    BY <1>1, <1>4 DEF cost
  <2>2. again = fit
    BY <1>3, <1>4, <2>1
  <2> QED BY <2>2 DEF again, fit
<1>5. CASE cost > left /\ left > GB
  <2>1. PICK W : MostBlocks(W, left - GB, rate) /\ fit = IF W >= MinCtx THEN W ELSE MinCtx
    BY <1>1, <1>5
  <2>2. fit = W
    BY <2>1, <1>2 DEF MinCtx, SaneCtx, MostBlocks
  <2>3. recost <= left - GB
    BY <2>1, <2>2 DEF MostBlocks
  <2> HIDE DEF recost
  <2>4. recost <= left
    BY <2>3, <1>1, <1>3 DEF GB
  <2>5. again = fit
    BY <2>4, <1>3
  <2> QED BY <2>5 DEF again, fit
<1>6. CASE cost > left /\ left <= GB
  <2> HIDE DEF recost
  <2>1. again = fit
    BY <1>1, <1>2, <1>3, <1>6 DEF Cap, MinCtx, SaneCtx, GB, Capped
  <2> QED BY <2>1 DEF again, fit
<1> QED BY <1>1, <1>4, <1>5, <1>6 DEF GB

LEMMA MaxIs ==
  ASSUME NEW S \in SUBSET Int, NEW a \in S, \A b \in S : a >= b
  PROVE  Max(S) = a
<1>1. Max(S) \in S /\ \A y \in S : Max(S) >= y
  BY DEF Max
<1>2. Max(S) \in Int /\ a \in Int /\ Max(S) >= a /\ a >= Max(S)
  BY <1>1
<1> QED BY <1>2

(* fit_context is what compute_memory_aware_ctx's docstring says.          *)
LEMMA FitIsWanted ==
  ASSUME machine.ram \in Nat, machine.mac \in BOOLEAN,
         NEW rate \in Nat, rate >= 1, NEW gb \in Nat, NEW target \in Nat
  PROVE  Wanted(FitContext(rate, gb, machine.ram, target, machine.mac), target, gb, rate)
<1> DEFINE left == Left(gb, machine.ram, machine.mac)
           fit == FitContext(rate, gb, machine.ram, target, machine.mac)
           cost == rate * target
           blocks == {n \in 1..target : n % Block = 0 /\ left - rate * n >= GB}
<1>1. /\ left \in Int /\ fit \in Nat /\ cost \in Nat
      /\ cost <= left => fit = target
      /\ cost > left /\ left > GB =>
           \E W : MostBlocks(W, left - GB, rate) /\ fit = IF W >= MinCtx THEN W ELSE MinCtx
      /\ cost > left /\ left <= GB => MinCtx <= fit /\ fit <= Cap
  BY FitIs
<1>2. Wanted(fit, target, gb, rate) <=>
        CASE left - cost >= 0 -> fit = target
          [] left - cost < 0 /\ left - rate * 0 > GB -> fit = Max(blocks \cup {MinCtx})
          [] OTHER -> fit \in MinCtx..Max({MinCtx, Cap})
  <2> HIDE DEF fit
  <2> QED BY DEF Wanted, Left
<1>3. rate * 0 = 0
  OBVIOUS
<1>4. ASSUME cost > left, left > GB PROVE fit = Max(blocks \cup {MinCtx})
  <2>1. PICK W : MostBlocks(W, left - GB, rate) /\ fit = IF W >= MinCtx THEN W ELSE MinCtx
    BY <1>1, <1>4
  <2>2. /\ W \in Nat /\ W % Block = 0 /\ rate * W <= left - GB
        /\ \A n \in Nat : n % Block = 0 /\ rate * n <= left - GB => n <= W
    BY <2>1 DEF MostBlocks
  <2> HIDE DEF left, fit
  <2>3. W <= target
    <3>1. CASE target <= W
      <4>1. cost <= rate * W /\ rate * W \in Nat
        BY <3>1, <2>2, TimesGrows
      <4> HIDE DEF cost
      <4> QED BY <4>1, <2>2, <1>1, <1>4 DEF GB
    <3> QED BY <3>1, <2>2
  <2>4. \A n \in blocks : n \in Nat /\ n <= W
    <3> TAKE n \in blocks
    <3>1. n \in Nat /\ n % Block = 0 /\ rate * n \in Nat /\ left - rate * n >= GB
      BY TimesGrows
    <3>2. rate * n <= left - GB
      BY <3>1, <1>1 DEF GB
    <3> QED BY <3>1, <3>2, <2>2
  <2>5. fit \in blocks \cup {MinCtx}
    <3>1. CASE W >= MinCtx
      <4>1. W \in 1..target
        BY <3>1, <2>2, <2>3 DEF MinCtx
      <4>2. rate * W \in Nat
        BY <2>2, TimesGrows
      <4>3. left - rate * W >= GB
        BY <4>2, <2>2, <1>1 DEF GB
      <4> QED BY <4>1, <4>3, <2>1, <2>2, <3>1
    <3>2. CASE ~(W >= MinCtx)
      BY <2>1, <3>2
    <3> QED BY <3>1, <3>2
  <2>6. \A n \in blocks \cup {MinCtx} : n \in Int /\ fit >= n
    BY <2>1, <2>2, <2>4 DEF MinCtx
  <2> HIDE DEF blocks
  <2> QED BY <2>5, <2>6, MaxIs
<1>5. ASSUME cost > left, left <= GB PROVE fit \in MinCtx..Max({MinCtx, Cap})
  <2>1. Max({MinCtx, Cap}) = Cap
    BY MaxOfTwo DEF MinCtx, Cap
  <2> HIDE DEF left, fit, cost
  <2> QED BY <2>1, <1>1, <1>5 DEF MinCtx, Cap
<1>6. Wanted(fit, target, gb, rate)
  <2> HIDE DEF left, fit, cost, blocks
  <2>1. CASE cost <= left
    BY <2>1, <1>1, <1>2
  <2>2. CASE cost > left /\ left > GB
    BY <2>2, <1>1, <1>2, <1>3, <1>4 DEF GB
  <2>3. CASE cost > left /\ left <= GB
    BY <2>3, <1>1, <1>2, <1>3, <1>5 DEF GB
  <2> QED BY <2>1, <2>2, <2>3, <1>1 DEF GB
<1> QED BY <1>6

(* A cut below MIN_SANE_CTX is made again, if the native context is ample. *)
LEMMA CutAgain ==
  ASSUME NEW rate \in Nat, rate >= 1, NEW gb \in Nat, NEW ram \in Nat, NEW mac \in BOOLEAN,
         NEW target \in Nat, target >= SaneCtx, FitContext(rate, gb, ram, target, mac) < SaneCtx,
         NEW native \in Nat, rate * (native - SaneCtx) >= GB
  PROVE  FitContext(rate, gb, ram, native, mac) = FitContext(rate, gb, ram, target, mac)
<1> DEFINE left == Left(gb, ram, mac)
           fit == FitContext(rate, gb, ram, target, mac)
           again == FitContext(rate, gb, ram, native, mac)
           cost == rate * target
           recost == rate * native
<1>1. /\ left \in Int /\ fit \in Nat /\ cost \in Nat
      /\ cost <= left => fit = target
      /\ cost > left /\ left > GB =>
           \E W : MostBlocks(W, left - GB, rate) /\ fit = IF W >= MinCtx THEN W ELSE MinCtx
      /\ cost > left /\ left <= GB =>
           Capped(fit, target)
  BY FitIs
<1>2. /\ recost \in Nat
      /\ recost > left /\ left > GB =>
           \E W : MostBlocks(W, left - GB, rate) /\ again = IF W >= MinCtx THEN W ELSE MinCtx
  BY FitIs
<1>3. fit < SaneCtx
  OBVIOUS
<1>4. rate * SaneCtx \in Nat /\ recost >= rate * SaneCtx + GB
  BY DEF SaneCtx, GB
<1> HIDE DEF left, fit, again, cost, recost
<1>5. cost > left /\ left > GB
  BY <1>1, <1>3 DEF MinCtx, SaneCtx, Cap, GB, Capped
<1>6. PICK W : MostBlocks(W, left - GB, rate) /\ fit = IF W >= MinCtx THEN W ELSE MinCtx
  BY <1>1, <1>5
<1>7. W < SaneCtx /\ W \in Nat /\ W % Block = 0
  BY <1>3, <1>6 DEF MinCtx, SaneCtx, MostBlocks
<1>8. left - GB < rate * SaneCtx
  <2>1. CASE rate * SaneCtx <= left - GB
    <3>1. SaneCtx <= W
      BY <2>1, <1>6 DEF MostBlocks, SaneCtx, Block
    <3> QED BY <3>1, <1>7 DEF SaneCtx
  <2> QED BY <2>1, <1>1, <1>4 DEF GB
<1>9. recost > left
  BY <1>1, <1>2, <1>4, <1>8 DEF GB
<1>10. PICK V : MostBlocks(V, left - GB, rate) /\ again = IF V >= MinCtx THEN V ELSE MinCtx
  BY <1>2, <1>5, <1>9
<1>11. V = W
  BY <1>6, <1>10 DEF MostBlocks
<1> QED BY <1>6, <1>10, <1>11 DEF fit, again

-------------------------------------------------------------------------------
(***************************************************************************)
(* The entry of models.yaml.                                               *)
(***************************************************************************)

Entries == [model : Model, quant : Quant \cup {Unknown}, ctx : Nat, auto : BOOLEAN]

EntryInv ==
  /\ machine \in Machine /\ here \in BOOLEAN
  /\ by \in {"user", "quant", "install", "init", "gateway"}
  /\ entry \in Entries
  /\ entry.quant # Unknown => entry.model \in DOMAIN Catalog /\ entry.quant \in Quants(entry.model)

LEMMA MachineTyped ==
  ASSUME NEW x \in Machine
  PROVE  x.mac \in BOOLEAN /\ (x.ram # Unknown => x.ram \in Nat)
BY MachinesKnown

LEMMA ModelTyped ==
  \A m : /\ Rate(m) \in Nat /\ Rate(m) >= 1 /\ Native(m) \in Nat /\ Native(m) >= 1
         /\ \A c \in Nat : Target(m, c) \in Nat
<1> TAKE m
<1>1. CASE m \in DOMAIN Catalog
  BY <1>1, InfoTyped DEF Rate, Native, Target
<1>2. CASE m \notin DOMAIN Catalog
  BY <1>2 DEF Rate, Native, Target, FallbackRate, FallbackNative
<1> QED BY <1>1, <1>2

(* The size of the weights that the fit reckons with.                      *)
Reckoned(m, gb) == IF SizeSeen(m, gb) = Unknown THEN 0 ELSE SizeSeen(m, gb)

LEMMA SizeTyped ==
  ASSUME NEW m, NEW gb, gb = Unknown \/ gb \in Nat
  PROVE  Reckoned(m, gb) \in Nat
<1>1. CASE m \in Gguf
  <2>1. Catalog[m].sizes[Catalog[m].default] \in Nat
    BY <1>1, GgufTyped, InfoTyped
  <2> QED BY <1>1, <2>1 DEF Reckoned, SizeSeen
<1>2. CASE m \notin Gguf
  BY <1>2 DEF Reckoned, SizeSeen
<1> QED BY <1>1, <1>2

LEMMA SizeOnTyped ==
  ASSUME EntryInv PROVE SizeOn(entry) = Unknown \/ SizeOn(entry) \in Nat
<1>1. CASE entry.quant = Unknown
  BY <1>1 DEF SizeOn
<1>2. CASE entry.quant # Unknown
  BY <1>2, InfoTyped DEF EntryInv, SizeOn
<1> QED BY <1>1, <1>2

LEMMA MemoryAwareIs ==
  ASSUME NEW m, NEW gb, NEW c, NEW x
  PROVE  MemoryAware(m, gb, c, x) =
           IF x.ram = Unknown THEN Target(m, c)
           ELSE FitContext(Rate(m), Reckoned(m, gb), x.ram, Target(m, c), x.mac)
BY DEF MemoryAware, Reckoned

LEMMA MemoryAwareTyped ==
  ASSUME NEW m, NEW gb, gb = Unknown \/ gb \in Nat, NEW c \in Nat, NEW x \in Machine
  PROVE  MemoryAware(m, gb, c, x) \in Nat
<1>1. CASE x.ram = Unknown
  BY <1>1, MemoryAwareIs, ModelTyped
<1>2. CASE x.ram # Unknown
  <2>1. x.ram \in Nat /\ x.mac \in BOOLEAN /\ Rate(m) \in Nat /\ Rate(m) >= 1
        /\ Target(m, c) \in Nat /\ Reckoned(m, gb) \in Nat
    BY <1>2, MachineTyped, ModelTyped, SizeTyped
  <2> DEFINE fit == FitContext(Rate(m), Reckoned(m, gb), x.ram, Target(m, c), x.mac)
  <2>2. fit \in Nat
    BY <2>1, FitIs
  <2> HIDE DEF fit
  <2>3. MemoryAware(m, gb, c, x) = fit
    BY <1>2, MemoryAwareIs DEF fit
  <2> QED BY <2>2, <2>3
<1> QED BY <1>1, <1>2

(* What has been fitted to a machine stays as it is there.                 *)
LEMMA FittedStays ==
  ASSUME NEW m, NEW gb, gb = Unknown \/ gb \in Nat, NEW c \in Nat, NEW x \in Machine,
         Target(m, c) = Native(m) \/ Ample(m)
  PROVE  MemoryAware(m, gb, MemoryAware(m, gb, c, x), x) = MemoryAware(m, gb, c, x)
<1> DEFINE f == MemoryAware(m, gb, c, x)
<1>0. f \in Nat /\ Native(m) \in Nat
  BY MemoryAwareTyped, ModelTyped
<1>1. CASE x.ram = Unknown
  <2>1. f = Target(m, c) /\ MemoryAware(m, gb, f, x) = Target(m, f)
    BY <1>1, MemoryAwareIs
  <2> QED BY <2>1 DEF Target
<1>2. CASE x.ram # Unknown
  <2> DEFINE F(t) == FitContext(Rate(m), Reckoned(m, gb), x.ram, t, x.mac)
  <2>1. f = F(Target(m, c)) /\ MemoryAware(m, gb, f, x) = F(Target(m, f))
    BY <1>2, MemoryAwareIs
  <2>2. x.ram \in Nat /\ x.mac \in BOOLEAN /\ Rate(m) \in Nat /\ Rate(m) >= 1
        /\ Target(m, c) \in Nat /\ Reckoned(m, gb) \in Nat
    BY <1>2, MachineTyped, ModelTyped, SizeTyped
  <2>3. F(Target(m, c)) >= SaneCtx => F(F(Target(m, c))) = F(Target(m, c))
    BY <2>2, FitStable
  <2>4. Target(m, c) >= SaneCtx /\ F(Target(m, c)) < SaneCtx /\ Ample(m)
          => F(Native(m)) = F(Target(m, c))
    BY <2>2, <1>0, CutAgain DEF Ample
  <2> HIDE DEF F, f
  <2>5. CASE f >= SaneCtx
    <3>1. Target(m, f) = f
      BY <2>5 DEF Target
    <3> QED BY <3>1, <2>1, <2>3, <2>5 DEF f
  <2>6. CASE f < SaneCtx
    <3>1. Target(m, f) = Native(m)
      BY <2>6, <1>0 DEF Target, SaneCtx
    <3>2. CASE Target(m, c) = Native(m)
      BY <3>1, <3>2, <2>1 DEF f
    <3>3. CASE Target(m, c) # Native(m)
      <4>1. Target(m, c) >= SaneCtx /\ Ample(m)
        BY <3>3 DEF Target, SaneCtx
      <4> QED BY <4>1, <3>1, <2>1, <2>4, <2>6 DEF f
    <3> QED BY <3>2, <3>3
  <2> QED BY <2>5, <2>6, <1>0 DEF SaneCtx
<1> QED BY <1>1, <1>2

(* init chooses models for llama.cpp of the catalog.                       *)
LEMMA PicksKnown ==
  \A x : \A i \in DOMAIN Picks(x) : Picks(x)[i] \in Gguf
<1> SUFFICES ASSUME NEW x, NEW i \in DOMAIN Picks(x) PROVE Picks(x)[i] \in Gguf
  OBVIOUS
<1>1. CASE x.ram = Unknown
  BY <1>1, GgufTyped DEF Picks
<1>2. CASE x.ram # Unknown
  <2> DEFINE fits == FitsBudget(Budget(x.ram, x.mac))
             R == Recommended(Budget(x.ram, x.mac), 3)
  <2>1. R \in Seq(fits)
    BY RecommendedIs
  <2>2. fits \subseteq Gguf
    BY DEF FitsBudget
  <2>3. Picks(x) = IF R = <<>> THEN <<SmallestModel>> ELSE R
    BY <1>2 DEF Picks
  <2>4. SmallestModel \in Gguf
    <3> DEFINE f == [m \in Gguf |-> RamNeeded(m, Catalog[m].default)]
    <3>1. \A m \in Gguf : RamNeeded(m, Catalog[m].default) \in Nat
      <4> TAKE m \in Gguf
      <4>1. m \in DOMAIN Catalog /\ Catalog[m].default \in Quants(m)
        BY GgufTyped
      <4>2. Catalog[m].sizes[Catalog[m].default] \in Nat /\ Catalog[m].rate \in Nat
        BY <4>1, InfoTyped
      <4> QED BY <4>2 DEF RamNeeded, Weights, Cap, Headroom, GB
    <3>2. f \in [Gguf -> Nat]
      BY <3>1
    <3>3. \E m \in Gguf : \A n \in Gguf : f[m] <= f[n]
      <4> HIDE DEF f
      <4> QED BY <3>2, LeastBy, GgufTyped
    <3>4. \E m \in Gguf : \A n \in Gguf :
            RamNeeded(m, Catalog[m].default) <= RamNeeded(n, Catalog[n].default)
      BY <3>3
    <3> QED BY <3>4 DEF SmallestModel
  <2> HIDE DEF R, fits
  <2>5. CASE R = <<>>
    BY <2>3, <2>4, <2>5
  <2>6. CASE R # <<>>
    <3>1. i \in 1..Len(R)
      BY <2>1, <2>3, <2>6, LenProperties
    <3> QED BY <3>1, <2>1, <2>2, <2>3, <2>6, ElementOfSeq
  <2> QED BY <2>5, <2>6
<1> QED BY <1>1, <1>2

(* The entry fits this machine; its quant is the one that is chosen.       *)
Settled ==
  here /\ Engine(entry.model) = "llamacpp"
    /\ (by \in {"install", "quant"} \/ (by = "gateway" /\ Ample(entry.model)))
    => MemoryAware(entry.model, SizeOn(entry), entry.ctx, machine) = entry.ctx

Chosen ==
  by = "install" /\ here /\ Engine(entry.model) = "llamacpp"
    => entry.model \in Gguf /\ entry.quant = ChooseQuant(entry.model, machine)

LifeInv == EntryInv /\ Settled /\ Chosen

LEMMA LifeInit == Init => LifeInv
<1> SUFFICES ASSUME Init PROVE LifeInv
  OBVIOUS
<1>1. entry \in Entries /\ entry.quant = Unknown
  <2>1. entry \in [model : Model, quant : {Unknown}, ctx : Ctx \cup {0}, auto : BOOLEAN]
    BY DEF Init
  <2>2. PICK m \in Model, c \in Ctx \cup {0}, b \in BOOLEAN :
          entry = [model |-> m, quant |-> Unknown, ctx |-> c, auto |-> b]
    BY <2>1
  <2>3. c \in Nat
    BY ContextsTyped
  <2> QED BY <2>2, <2>3 DEF Entries
<1>2. EntryInv
  BY <1>1 DEF Init, EntryInv
<1>3. by = "user"
  BY DEF Init
<1> QED BY <1>2, <1>3 DEF LifeInv, Settled, Chosen

LEMMA LifeKept == LifeInv /\ UNCHANGED life => LifeInv'
<1> SUFFICES ASSUME LifeInv, UNCHANGED life PROVE LifeInv'
  OBVIOUS
<1> machine' = machine /\ entry' = entry /\ by' = by /\ here' = here
  BY DEF life
<1> QED BY DEF LifeInv, EntryInv, Settled, Chosen

LEMMA LifeResolved ==
  ASSUME LifeInv, NEW c \in Nat, Resolve(c), UNCHANGED machine,
         Engine(entry.model) = "llamacpp" /\ Ample(entry.model)
           => MemoryAware(entry.model, SizeOn(entry), c, machine) = c
  PROVE  LifeInv'
<1>1. /\ entry' \in Entries /\ entry'.model = entry.model /\ entry'.quant = entry.quant /\ entry'.ctx = c
      /\ by' = "gateway" /\ here' = TRUE /\ machine' = machine
  BY DEF LifeInv, EntryInv, Entries, Resolve
<1>2. SizeOn(entry)' = SizeOn(entry)
  BY <1>1 DEF SizeOn
<1>3. EntryInv'
  BY <1>1 DEF LifeInv, EntryInv
<1>4. Settled'
  BY <1>1, <1>2 DEF Settled
<1>5. Chosen'
  BY <1>1 DEF Chosen
<1> QED BY <1>3, <1>4, <1>5 DEF LifeInv

LEMMA ChooseCtxIs ==
  ASSUME NEW m \in DOMAIN Catalog, NEW q \in Quants(m), NEW x
  PROVE  ChooseCtx(m, Catalog[m].sizes[q], x) = MemoryAware(m, Catalog[m].sizes[q], 0, x)
<1>1. Catalog[m].sizes[q] # Unknown
  BY InfoTyped, UnknownIsNone
<1>2. Target(m, 0) = Native(m)
  BY DEF Target, SaneCtx
<1> QED BY <1>1, <1>2 DEF ChooseCtx, MemoryAware, SizeSeen

LEMMA LifeInstall ==
  ASSUME LifeInv, NEW m \in Model, Install(m) PROVE LifeInv'
<1>0. m \in DOMAIN Catalog
  BY DEF Install
<1>1. PICK n \in Ctx \cup {Unknown}, q \in Quants(m) :
        /\ entry' = [model |-> m, quant |-> q,
                     ctx |-> CASE n # Unknown -> n
                               [] n = Unknown /\ Engine(m) = "warp" -> 0
                               [] OTHER -> ChooseCtx(m, Catalog[m].sizes[q], machine),
                     auto |-> n = Unknown]
        /\ by' = IF n # Unknown THEN "user"
                 ELSE IF Engine(m) = "llamacpp" /\ q # ChooseQuant(m, machine) THEN "quant" ELSE "install"
  BY DEF Install
<1>2. here' = TRUE /\ machine' = machine /\ machine \in Machine
  BY DEF Install, LifeInv, EntryInv
<1>3. q \in Quant /\ q # Unknown /\ Catalog[m].sizes[q] \in Nat
  BY <1>0, InfoTyped, UnknownIsNone
<1>4. ChooseCtx(m, Catalog[m].sizes[q], machine) \in Nat
  BY <1>0, <1>2, <1>3, ChooseCtxIs, MemoryAwareTyped
<1>5. Engine(m) = "llamacpp" \/ Engine(m) = "warp"
  BY DEF Engine
<1> DEFINE c == CASE n # Unknown -> n
                  [] n = Unknown /\ Engine(m) = "warp" -> 0
                  [] OTHER -> ChooseCtx(m, Catalog[m].sizes[q], machine)
<1>6. c \in Nat
  BY <1>4, ContextsTyped
<1>7. n = Unknown /\ Engine(m) = "llamacpp" => c = ChooseCtx(m, Catalog[m].sizes[q], machine)
  OBVIOUS
<1> HIDE DEF c
<1>8. entry' \in Entries /\ entry'.model = m /\ entry'.quant = q /\ entry'.ctx = c
  <2>1. entry' = [model |-> m, quant |-> q, ctx |-> c, auto |-> n = Unknown]
    BY <1>1 DEF c
  <2> QED BY <2>1, <1>3, <1>6 DEF Entries
<1>9. EntryInv'
  BY <1>0, <1>1, <1>2, <1>8 DEF EntryInv
<1>10. Settled'
  <2> SUFFICES ASSUME Engine(m) = "llamacpp", n = Unknown
               PROVE  MemoryAware(m, SizeOn(entry'), c, machine) = c
    BY <1>1, <1>2, <1>8 DEF Settled
  <2>1. SizeOn(entry') = Catalog[m].sizes[q]
    BY <1>3, <1>8 DEF SizeOn
  <2>2. c = MemoryAware(m, Catalog[m].sizes[q], 0, machine)
    BY <1>0, <1>7, ChooseCtxIs
  <2>3. Target(m, 0) = Native(m)
    BY DEF Target, SaneCtx
  <2> QED BY <1>2, <1>3, <2>1, <2>2, <2>3, FittedStays
<1>11. Chosen'
  <2>1. Engine(m) = "llamacpp" => m \in Gguf
    <3>1. IsInfo(Catalog[m])
      BY <1>0, CatalogTyped
    <3> QED BY <3>1, <1>0 DEF Engine, Gguf, IsInfo
  <2> QED BY <1>1, <1>2, <1>8, <2>1 DEF Chosen
<1> QED BY <1>9, <1>10, <1>11 DEF LifeInv

LEMMA LifeInitConfig == ASSUME LifeInv, InitConfig PROVE LifeInv'
<1>1. PICK i \in DOMAIN Picks(machine) :
        entry' = [model |-> Picks(machine)[i], quant |-> Catalog[Picks(machine)[i]].default,
                  ctx |-> 0, auto |-> FALSE]
  BY DEF InitConfig
<1> DEFINE m == Picks(machine)[i]
<1>2. m \in Gguf /\ m \in DOMAIN Catalog /\ m \in Model
  BY PicksKnown, GgufTyped, CatalogTyped
<1>3. Catalog[m].default \in Quants(m) /\ Catalog[m].default \in Quant
  BY <1>2, GgufTyped, InfoTyped
<1>4. by' = "init" /\ here' = TRUE /\ machine' = machine
  BY DEF InitConfig
<1> HIDE DEF m
<1>5. entry' = [model |-> m, quant |-> Catalog[m].default, ctx |-> 0, auto |-> FALSE]
  BY <1>1 DEF m
<1>6. EntryInv'
  BY <1>2, <1>3, <1>4, <1>5 DEF LifeInv, EntryInv, Entries
<1> QED BY <1>4, <1>6 DEF LifeInv, Settled, Chosen

LEMMA LifeMove == ASSUME LifeInv, NEW x \in Machine, Move(x) PROVE LifeInv'
<1>1. machine' = x /\ here' = FALSE /\ entry' = entry /\ by' = by
  BY DEF Move
<1> QED BY <1>1 DEF LifeInv, EntryInv, Settled, Chosen

LEMMA LifeFixContext == ASSUME LifeInv, FixContext PROVE LifeInv'
<1> DEFINE fitted == MemoryAware(entry.model, SizeOn(entry), entry.ctx, machine)
<1>1. CASE Engine(entry.model) = "llamacpp" /\ fitted # entry.ctx
  <2>1. Resolve(fitted) /\ UNCHANGED machine
    BY <1>1 DEF FixContext
  <2>2. /\ machine \in Machine /\ entry.ctx \in Nat
        /\ SizeOn(entry) = Unknown \/ SizeOn(entry) \in Nat
    BY SizeOnTyped DEF LifeInv, EntryInv, Entries
  <2>3. fitted \in Nat
    BY <2>2, MemoryAwareTyped
  <2>4. Ample(entry.model) =>
          MemoryAware(entry.model, SizeOn(entry), fitted, machine) = fitted
    BY <2>2, FittedStays
  <2> HIDE DEF fitted
  <2> QED BY <2>1, <2>3, <2>4, LifeResolved
<1>2. CASE ~(Engine(entry.model) = "llamacpp" /\ fitted # entry.ctx)
  <2>1. UNCHANGED life
    BY <1>2 DEF FixContext, life
  <2> QED BY <2>1, LifeKept
<1> QED BY <1>1, <1>2

-------------------------------------------------------------------------------
(***************************************************************************)
(* The planned context.  The search keeps a number of blocks that is       *)
(* affordable, and one above which none is.                                *)
(***************************************************************************)

PlanTyped ==
  /\ pc \in {"idle", "checked", "ports", "plan", "halve", "up", "refused", "no port", "no plan"}
  /\ plan.memory \in [1..LargestCtx -> Nat] /\ plan.budget \in Nat
  /\ \A i, j \in 1..LargestCtx : i <= j => plan.memory[i] <= plan.memory[j]
  /\ low \in 1..high /\ high \in 1..LargestCtx

Narrowed ==
  /\ pc \in {"plan", "halve"} => Engine(entry.model) = "warp"
  /\ pc = "halve" =>
       /\ entry.auto
       /\ high * Block <= Native(entry.model)
       /\ Affordable(low * Block)
       /\ \A c \in (high * Block + 1)..Native(entry.model) : c % Block = 0 => ~Affordable(c)

PlanInv == PlanTyped /\ Narrowed /\ PlanIsLargest

LEMMA WarpContext ==
  ASSUME NEW m, Engine(m) = "warp"
  PROVE  Native(m) \in 1..LargestCtx /\ LargestCtx \in Nat
<1>1. m \in DOMAIN Catalog
  BY DEF Engine
<1> QED BY <1>1, InfoTyped, ContextsBounded DEF Native

LEMMA LowTyped == ASSUME PlanTyped PROVE low \in Nat
<1>1. LargestCtx \in Nat
  BY ContextsBounded
<1>2. high \in 1..LargestCtx /\ low \in 1..high
  BY DEF PlanTyped
<1>3. high \in Nat
  BY <1>1, <1>2
<1> QED BY <1>2, <1>3

LEMMA PlanInit == Init => PlanInv
<1> SUFFICES ASSUME Init PROVE PlanInv
  OBVIOUS
<1>1. plan = NoPlan /\ low = 1 /\ high = 1 /\ pc = "idle"
  BY DEF Init
<1>2. PlanTyped
  BY <1>1, ContextsBounded DEF PlanTyped, NoPlan
<1> QED BY <1>1, <1>2 DEF PlanInv, Narrowed, PlanIsLargest

(* A step before the planner, or after it.                                 *)
LEMMA PlanElsewhere ==
  ASSUME PlanInv, UNCHANGED planner, pc' \in {"idle", "checked", "ports", "refused", "no port", "no plan"}
  PROVE  PlanInv'
<1>1. plan' = plan /\ low' = low /\ high' = high
  BY DEF planner
<1>2. PlanTyped'
  BY <1>1 DEF PlanInv, PlanTyped
<1> QED BY <1>2 DEF PlanInv, Narrowed, PlanIsLargest

LEMMA PlanTryPort == ASSUME PlanInv, TryPort PROVE PlanInv'
<1>1. UNCHANGED planner /\ entry' = entry
  BY DEF TryPort, life
<1>2. pc' \in {"ports", "no port"} \/ pc' = Found
  BY DEF TryPort, NextPort
<1>3. CASE pc' \in {"ports", "no port"}
  BY <1>1, <1>3, PlanElsewhere
<1>4. CASE pc' = Found
  <2>1. plan' = plan /\ low' = low /\ high' = high
    BY <1>1 DEF planner
  <2>2. (pc' = "plan" /\ Engine(entry.model) = "warp") \/ (pc' = "up" /\ Engine(entry.model) # "warp")
    BY <1>4 DEF Found
  <2>3. PlanTyped'
    BY <2>1, <2>2 DEF PlanInv, PlanTyped
  <2> QED BY <1>1, <2>2, <2>3 DEF PlanInv, Narrowed, PlanIsLargest
<1> QED BY <1>2, <1>3, <1>4

LEMMA PlanKeepFixed == ASSUME PlanInv, KeepFixed PROVE PlanInv'
<1>1. plan' = plan /\ low' = low /\ high' = high /\ entry' = entry /\ ~entry.auto /\ pc' \in {"no plan", "up"}
  BY DEF KeepFixed, planner, life
<1>2. PlanTyped'
  BY <1>1 DEF PlanInv, PlanTyped
<1> QED BY <1>1, <1>2 DEF PlanInv, Narrowed, PlanIsLargest

LEMMA PlanBegins == ASSUME EntryInv, PlanInv, BeginPlan PROVE PlanInv'
<1> DEFINE native == Native(entry.model)
<1>1. Engine(entry.model) = "warp" /\ entry.auto
  BY DEF BeginPlan, PlanInv, Narrowed
<1>2. native \in 1..LargestCtx /\ LargestCtx \in Nat
  BY <1>1, WarpContext
<1>3. PICK f \in Plan, b \in PlanBudget :
        /\ plan' = [memory |-> f, budget |-> b]
        /\ \/ f[native] <= b /\ pc' = "up" /\ Resolve(native) /\ UNCHANGED <<low, high>>
           \/ /\ f[native] > b /\ f[Min({native, Block})] <= b
              /\ pc' = "halve" /\ low' = 1 /\ high' = native \div Block
              /\ UNCHANGED <<entry, by, here>>
           \/ pc' = "no plan" /\ UNCHANGED <<entry, by, here, low, high>>
  BY DEF BeginPlan
<1>4. /\ f \in [1..LargestCtx -> Nat] /\ b \in Nat
      /\ \A i, j \in 1..LargestCtx : i <= j => f[i] <= f[j]
      /\ plan'.memory = f /\ plan'.budget = b
  BY <1>3, PlansGrow, BudgetsPositive
<1> HIDE DEF native
<1>5. CASE f[native] <= b /\ pc' = "up" /\ Resolve(native) /\ UNCHANGED <<low, high>>
  <2>1. entry'.model = entry.model /\ entry'.ctx = native
    BY <1>5 DEF Resolve, EntryInv, Entries
  <2>2. PlanTyped'
    BY <1>4, <1>5 DEF PlanInv, PlanTyped
  <2>3. PlanIsLargest'
    BY <1>4, <1>5, <2>1 DEF PlanIsLargest, Affordable, native
  <2> QED BY <1>5, <2>2, <2>3 DEF PlanInv, Narrowed
<1>6. CASE /\ f[native] > b /\ f[Min({native, Block})] <= b
           /\ pc' = "halve" /\ low' = 1 /\ high' = native \div Block
           /\ UNCHANGED <<entry, by, here>>
  <2>1. Block = 4 /\ native \in Nat
    BY <1>2 DEF Block
  <2>2. Min({native, Block}) = IF native <= Block THEN native ELSE Block
    BY <2>1, MinOfTwo
  <2>3. native > 4 /\ f[4] <= b
    <3>1. CASE native <= 4
      <4>1. Min({native, Block}) = native
        BY <2>1, <2>2, <3>1
      <4>2. f[native] \in Nat
        BY <1>2, <1>4
      <4> QED BY <1>4, <1>6, <4>1, <4>2
    <3>2. CASE native > 4
      BY <2>1, <2>2, <3>2, <1>6
    <3> QED BY <3>1, <3>2, <2>1
  <2>4. native \div 4 \in Nat /\ native \div 4 >= 1 /\ (native \div 4) * 4 <= native
        /\ native < (native \div 4) * 4 + 4
    BY <2>1, <2>3
  <2>5. high' \in 1..LargestCtx /\ low' \in 1..high'
    BY <1>2, <1>6, <2>1, <2>4
  <2>6. PlanTyped'
    BY <1>4, <1>6, <2>5 DEF PlanTyped
  <2>7. \A c \in ((native \div 4) * 4 + 1)..native : c % 4 # 0
    <3> SUFFICES ASSUME NEW c \in ((native \div 4) * 4 + 1)..native, c % 4 = 0 PROVE FALSE
      OBVIOUS
    <3> DEFINE h == (native \div 4) * 4
    <3>1. h \in Nat /\ h % 4 = 0 /\ native < h + 4
      BY <2>4
    <3>2. c \in Nat /\ c >= h + 1 /\ c <= native
      BY <2>4, <2>1
    <3> HIDE DEF h
    <3>3. c <= h
      BY <3>1, <3>2, <2>1, Multiples
    <3> QED BY <3>1, <3>2, <3>3
  <2>8. Narrowed'
    <3>1. entry' = entry /\ pc' = "halve" /\ low' = 1 /\ high' = native \div 4
      BY <1>6, <2>1
    <3>2. Affordable(low * Block)'
      BY <1>4, <2>1, <2>3, <3>1 DEF Affordable
    <3>3. \A c \in ((native \div 4) * 4 + 1)..native : c % 4 = 0 => ~Affordable(c)'
      BY <2>7
    <3> HIDE DEF Affordable
    <3> QED BY <1>1, <2>1, <2>4, <3>1, <3>2, <3>3 DEF Narrowed, native
  <2> QED BY <1>6, <2>6, <2>8 DEF PlanInv, PlanIsLargest
<1>7. CASE pc' = "no plan" /\ UNCHANGED <<entry, by, here, low, high>>
  <2>1. PlanTyped'
    BY <1>4, <1>7 DEF PlanInv, PlanTyped
  <2> QED BY <1>7, <2>1 DEF PlanInv, Narrowed, PlanIsLargest
<1> QED BY <1>3, <1>5, <1>6, <1>7

LEMMA PlanHalves == ASSUME PlanInv, Halve PROVE PlanInv'
<1> DEFINE native == Native(entry.model)
           k == middle
<1>1. /\ entry' = entry /\ plan' = plan /\ pc' = "halve" /\ pc = "halve" /\ low < high
      /\ IF Affordable(k * Block) THEN low' = k /\ high' = high ELSE high' = k - 1 /\ low' = low
  BY DEF Halve, life
<1>2. /\ Engine(entry.model) = "warp" /\ entry.auto /\ high * 4 <= native /\ Affordable(low * 4)
      /\ \A c \in (high * 4 + 1)..native : c % 4 = 0 => ~Affordable(c)
  BY <1>1 DEF PlanInv, Narrowed, Block
<1>3. native \in 1..LargestCtx /\ LargestCtx \in Nat
  BY <1>2, WarpContext
<1>4. low \in 1..high /\ high \in 1..LargestCtx
  BY DEF PlanInv, PlanTyped
<1>5. k \in Nat /\ low < k /\ k <= high
  BY <1>1, <1>3, <1>4 DEF middle
<1> HIDE DEF k, native
<1>6. PlanTyped'
  <2>1. high' \in 1..LargestCtx /\ low' \in 1..high'
    BY <1>1, <1>3, <1>4, <1>5
  <2> QED BY <2>1, <1>1 DEF PlanInv, PlanTyped
<1>7. \A c : Affordable(c)' <=> Affordable(c)
  BY <1>1 DEF Affordable
<1>8. Narrowed'
  <2>1. CASE Affordable(k * Block)
    <3>1. low' = k /\ high' = high
      BY <1>1, <2>1
    <3>2. Affordable(low' * 4)
      BY <2>1, <3>1 DEF Block
    <3> HIDE DEF Affordable
    <3> QED BY <1>1, <1>2, <1>7, <3>1, <3>2 DEF Narrowed, Block, native
  <2>2. CASE ~Affordable(k * Block)
    <3>1. low' = low /\ high' = k - 1
      BY <1>1, <2>2
    <3>2. high' * 4 <= native
      BY <1>2, <1>3, <1>4, <1>5, <3>1
    <3>3. \A c \in (high' * 4 + 1)..native : c % 4 = 0 => ~Affordable(c)
      <4> SUFFICES ASSUME NEW c \in (high' * 4 + 1)..native, c % 4 = 0 PROVE ~Affordable(c)
        OBVIOUS
      <4>1. c \in Nat /\ c <= native /\ (k - 1) * 4 < c
        BY <1>3, <1>5, <3>1
      <4>2. k * 4 <= c
        <5> DEFINE d == k * 4
        <5>1. d \in Nat /\ d % 4 = 0 /\ d < c + 4
          BY <1>5, <4>1
        <5> HIDE DEF d
        <5>2. d <= c
          BY <5>1, <4>1, Multiples
        <5> QED BY <5>2 DEF d
      <4>3. k * 4 \in 1..LargestCtx /\ c \in 1..LargestCtx
        <5>1. k >= 1
          BY <1>4, <1>5
        <5>2. k * 4 \in Nat /\ k * 4 >= 1
          BY <1>5, <5>1
        <5>3. native \in Nat /\ native <= LargestCtx
          BY <1>3
        <5>4. c >= 1 /\ c <= LargestCtx /\ k * 4 <= LargestCtx
          BY <1>3, <4>1, <4>2, <5>2, <5>3
        <5> QED BY <1>3, <4>1, <5>2, <5>4
      <4>4. plan.memory[k * 4] <= plan.memory[c] /\ plan.memory[k * 4] \in Nat /\ plan.memory[c] \in Nat
        BY <4>2, <4>3 DEF PlanInv, PlanTyped
      <4>5. plan.memory[k * 4] > plan.budget /\ plan.budget \in Nat
        <5>1. plan.budget \in Nat
          BY DEF PlanInv, PlanTyped
        <5>2. ~(plan.memory[k * 4] <= plan.budget)
          BY <2>2 DEF Affordable, Block
        <5> QED BY <5>1, <5>2, <4>4
      <4> QED BY <4>4, <4>5 DEF Affordable
    <3> HIDE DEF Affordable
    <3> QED BY <1>1, <1>2, <1>7, <3>1, <3>2, <3>3 DEF Narrowed, Block, native
  <2> QED BY <2>1, <2>2
<1> QED BY <1>1, <1>6, <1>8 DEF PlanInv, PlanIsLargest

LEMMA PlanEnds == ASSUME EntryInv, PlanInv, Planned PROVE PlanInv'
<1>1. /\ pc = "halve" /\ low = high /\ pc' = "up" /\ Resolve(low * Block)
      /\ plan' = plan /\ low' = low /\ high' = high
  BY DEF Planned, planner
<1>2. entry'.model = entry.model /\ entry'.ctx = low * Block
  BY <1>1 DEF Resolve, EntryInv, Entries
<1>3. /\ Affordable(low * Block)
      /\ \A c \in (high * Block + 1)..Native(entry.model) : c % Block = 0 => ~Affordable(c)
  BY <1>1 DEF PlanInv, Narrowed
<1>4. (low * Block) % Block = 0
  <2>1. low \in Nat
    BY LowTyped DEF PlanInv
  <2> QED BY <2>1 DEF Block
<1>5. \A c : Affordable(c)' <=> Affordable(c)
  BY <1>1 DEF Affordable
<1>6. PlanTyped'
  BY <1>1 DEF PlanInv, PlanTyped
<1>7. PlanIsLargest'
  <2> HIDE DEF Affordable
  <2> QED BY <1>1, <1>2, <1>3, <1>4, <1>5 DEF PlanIsLargest
<1> QED BY <1>1, <1>6, <1>7 DEF PlanInv, Narrowed

-------------------------------------------------------------------------------
(***************************************************************************)
(* The whole start.                                                        *)
(***************************************************************************)

StartInv == LifeInv /\ PlanInv /\ PortInv /\ busy \subseteq Port /\ taken \subseteq Port

LEMMA StartInit == Init => StartInv
BY LifeInit, PlanInit, PortInit DEF Init, StartInv

LEMMA PortsTyped ==
  ASSUME StartInv, [Next]_vars PROVE (busy \subseteq Port /\ taken \subseteq Port)'
<1>0. busy \subseteq Port /\ taken \subseteq Port /\ port \in Port
  BY DEF StartInv, PortInv
<1>1. CASE \E p \in Port : Listen(p)
  BY <1>0, <1>1 DEF Listen
<1>2. CASE FixContext
  BY <1>2 DEF FixContext
<1>3. CASE TryPort
  <2>1. busy' \subseteq busy /\ taken' \subseteq taken \cup {port}
    BY <1>3 DEF TryPort, NextPort
  <2> QED BY <1>0, <2>1
<1>4. CASE Stop
  BY <1>0, <1>4 DEF Stop
<1>5. CASE UNCHANGED search
  BY <1>0, <1>5 DEF search
<1>6. CASE \/ \E m \in Model : Install(m)
           \/ InitConfig
           \/ \E x \in Machine : Move(x)
           \/ \E force \in BOOLEAN : Check(force)
           \/ KeepFixed \/ BeginPlan \/ Halve \/ Planned
  BY <1>5, <1>6 DEF Install, InitConfig, Move, Check, KeepFixed, BeginPlan, Halve, Planned
<1> QED BY <1>1, <1>2, <1>3, <1>4, <1>5, <1>6 DEF Next, vars

LEMMA StartStep == StartInv /\ [Next]_vars => StartInv'
<1> SUFFICES ASSUME StartInv, [Next]_vars PROVE LifeInv' /\ PlanInv'
  BY PortStep, PortsTyped DEF StartInv
<1>0. LifeInv /\ PlanInv /\ EntryInv
  BY DEF StartInv, LifeInv
<1>1. CASE \E m \in Model : Install(m)
  <2>1. UNCHANGED planner /\ pc' = "idle"
    BY <1>1 DEF Install
  <2> QED BY <1>0, <1>1, <2>1, LifeInstall, PlanElsewhere
<1>2. CASE InitConfig
  <2>1. UNCHANGED planner /\ pc' = "idle"
    BY <1>2 DEF InitConfig
  <2> QED BY <1>0, <1>2, <2>1, LifeInitConfig, PlanElsewhere
<1>3. CASE \E x \in Machine : Move(x)
  <2>1. UNCHANGED planner /\ pc' = "idle"
    BY <1>3 DEF Move
  <2> QED BY <1>0, <1>3, <2>1, LifeMove, PlanElsewhere
<1>4. CASE \E p \in Port : Listen(p)
  <2>1. UNCHANGED planner /\ UNCHANGED life /\ pc' = "ports"
    BY <1>4 DEF Listen
  <2> QED BY <1>0, <2>1, LifeKept, PlanElsewhere
<1>5. CASE \E force \in BOOLEAN : Check(force)
  <2>1. UNCHANGED planner /\ UNCHANGED life /\ pc' \in {"refused", "checked"}
    BY <1>5 DEF Check
  <2> QED BY <1>0, <2>1, LifeKept, PlanElsewhere
<1>6. CASE FixContext
  <2>1. UNCHANGED planner /\ pc' = "ports"
    BY <1>6 DEF FixContext
  <2> QED BY <1>0, <1>6, <2>1, LifeFixContext, PlanElsewhere
<1>7. CASE TryPort
  <2>1. UNCHANGED life
    BY <1>7 DEF TryPort
  <2> QED BY <1>0, <1>7, <2>1, LifeKept, PlanTryPort
<1>8. CASE KeepFixed
  <2>1. UNCHANGED life
    BY <1>8 DEF KeepFixed
  <2> QED BY <1>0, <1>8, <2>1, LifeKept, PlanKeepFixed
<1>9. CASE BeginPlan
  <2>1. Engine(entry.model) = "warp" /\ UNCHANGED machine
    BY <1>0, <1>9 DEF BeginPlan, PlanInv, Narrowed
  <2>2. UNCHANGED life \/ Resolve(Native(entry.model))
    BY <1>9 DEF BeginPlan, life
  <2>3. Native(entry.model) \in Nat /\ Engine(entry.model) # "llamacpp"
    BY <2>1, ModelTyped
  <2>4. LifeInv'
    BY <1>0, <2>1, <2>2, <2>3, LifeKept, LifeResolved
  <2> QED BY <1>0, <1>9, <2>4, PlanBegins
<1>10. CASE Halve
  <2>1. UNCHANGED life
    BY <1>10 DEF Halve
  <2> QED BY <1>0, <1>10, <2>1, LifeKept, PlanHalves
<1>11. CASE Planned
  <2>1. Engine(entry.model) = "warp" /\ UNCHANGED machine /\ Resolve(low * Block)
    BY <1>0, <1>11 DEF Planned, PlanInv, Narrowed
  <2>2. low * Block \in Nat
    <3>1. low \in Nat
      BY <1>0, LowTyped DEF PlanInv
    <3> QED BY <3>1 DEF Block
  <2>3. Engine(entry.model) # "llamacpp"
    BY <2>1
  <2>4. LifeInv'
    BY <1>0, <2>1, <2>2, <2>3, LifeResolved
  <2> QED BY <1>0, <1>11, <2>4, PlanEnds
<1>12. CASE Stop
  <2>1. plan' = NoPlan /\ low' = 1 /\ high' = 1 /\ pc' = "idle" /\ UNCHANGED life
    BY <1>12 DEF Stop
  <2>2. PlanTyped'
    BY <2>1, ContextsBounded DEF PlanTyped, NoPlan
  <2> QED BY <1>0, <2>1, <2>2, LifeKept DEF PlanInv, Narrowed, PlanIsLargest
<1>13. CASE UNCHANGED vars
  <2>1. UNCHANGED life /\ plan' = plan /\ low' = low /\ high' = high /\ pc' = pc /\ entry' = entry
    BY <1>13 DEF vars, planner, life
  <2>2. PlanTyped'
    BY <1>0, <2>1 DEF PlanInv, PlanTyped
  <2>3. Narrowed' /\ PlanIsLargest'
    BY <1>0, <2>1 DEF PlanInv, Narrowed, PlanIsLargest, Affordable
  <2> QED BY <1>0, <2>1, <2>2, <2>3, LifeKept DEF PlanInv
<1> QED BY <1>1, <1>2, <1>3, <1>4, <1>5, <1>6, <1>7, <1>8, <1>9, <1>10, <1>11, <1>12, <1>13
        DEF Next

LEMMA StartIsInv == Spec => []StartInv
<1>1. Init => StartInv
  BY StartInit
<1>2. StartInv /\ [Next]_vars => StartInv'
  BY StartStep
<1> QED BY <1>1, <1>2, PTL DEF Spec

(* The state is what the other theorems take it for: the entry that of a   *)
(* known model's quant, or of none.                                        *)
THEOREM StartTypes == Spec => []TypeOK
<1>1. StartInv => TypeOK
  <2> SUFFICES ASSUME StartInv PROVE TypeOK
    OBVIOUS
  <2>1. /\ machine \in Machine /\ here \in BOOLEAN
        /\ by \in {"user", "quant", "install", "init", "gateway"}
        /\ entry \in Entries
    BY DEF StartInv, LifeInv, EntryInv
  <2>2. /\ entry.model \in Model /\ entry.ctx \in Nat /\ entry.auto \in BOOLEAN
        /\ entry.quant \in Quant \cup {Unknown}
    BY <2>1 DEF Entries
  <2>3. port \in Port /\ busy \subseteq Port /\ taken \subseteq Port
    BY DEF StartInv, PortInv
  <2> QED BY <2>1, <2>2, <2>3 DEF StartInv, PlanInv, PlanTyped, TypeOK
<1> QED BY <1>1, StartIsInv, PTL

(* WARP is started with the largest context that fits, in whole blocks or  *)
(* all of the model's, for every planner whose need grows with the context *)
(* (fit_native_context's docstring).                                       *)
THEOREM PlanSafe == Spec => []PlanIsLargest
<1>1. StartInv => PlanIsLargest
  BY DEF StartInv, PlanInv
<1> QED BY <1>1, StartIsInv, PTL

(* What SearchesEnd rests on besides fairness.  An iteration of the search *)
(* for a port ends it or leaves one less to try (server.py:208-212), one   *)
(* of fit_native_context leaves at most half of the contexts, so that it   *)
(* asks the planner a logarithmic number of times (warp_context.py:24-29); *)
(* and nobody else sets a search back.                                     *)
Advances ==
  /\ TryPort => pc' # "ports" \/ LastPort - port' \in 0..(LastPort - port - 1)
  /\ Halve => high > low /\ high' - low' \in 0..((high - low) \div 2)
  /\ pc \in {"ports", "halve"} /\ ~TryPort /\ ~Halve =>
       pc' = "up" \/ UNCHANGED <<pc, port, low, high>>

(* Every iteration of the two searches leaves less to look at              *)
(* (server.py:208-212, warp_context.py:24-29).                             *)
THEOREM SearchesAdvance == Spec => [][Advances]_vars
<1>1. ASSUME StartInv, [Next]_vars PROVE Advances
  <2>1. ASSUME TryPort PROVE pc' # "ports" \/ LastPort - port' \in 0..(LastPort - port - 1)
    <3>1. port \in Nat /\ port <= LastPort /\ LastPort \in Nat
      BY <1>1, Ports DEF StartInv, PortInv, Port
    <3>2. CASE port # Gateway /\ port \notin busy
      BY <2>1, <3>2 DEF TryPort, Found
    <3>3. CASE ~(port # Gateway /\ port \notin busy)
      <4>1. IF port = LastPort THEN pc' = "no port" ELSE port' = port + 1
        BY <2>1, <3>3 DEF TryPort, NextPort
      <4>2. CASE port = LastPort
        BY <4>1, <4>2
      <4>3. CASE port # LastPort
        <5>1. port' = port + 1 /\ port < LastPort
          BY <3>1, <4>1, <4>3
        <5>2. LastPort - (port + 1) \in 0..(LastPort - port - 1)
          BY <3>1, <5>1
        <5> QED  BY <5>1, <5>2
      <4> QED  BY <4>2, <4>3
    <3> QED  BY <3>2, <3>3
  <2>2. ASSUME Halve PROVE high > low /\ high' - low' \in 0..((high - low) \div 2)
    <3>1. low \in Nat /\ high \in Nat /\ low < high
      BY <1>1, <2>2, LowTyped, ContextsBounded DEF StartInv, PlanInv, PlanTyped, Halve
    <3>2. \/ low' = middle /\ high' = high
          \/ low' = low /\ high' = middle - 1
      BY <2>2 DEF Halve
    <3> QED  BY <3>1, <3>2 DEF middle
  <2>3. ASSUME pc \in {"ports", "halve"}, ~TryPort, ~Halve
        PROVE  pc' = "up" \/ UNCHANGED <<pc, port, low, high>>
    <3>1. CASE UNCHANGED vars
      BY <3>1 DEF vars, search, planner
    <3>2. CASE Planned
      BY <3>2 DEF Planned
    <3>3. CASE \E p \in Port : Listen(p)
      BY <3>3 DEF Listen, planner, search
    <3> QED
      BY <1>1, <2>3, <3>1, <3>2, <3>3 DEF Next, Install, InitConfig, Move, Check, FixContext, KeepFixed,
                                          BeginPlan, Stop
  <2> QED  BY <2>1, <2>2, <2>3 DEF Advances
<1> QED  BY <1>1, StartIsInv, PTL DEF Spec

(* A start of llama.cpp fits the context as compute_memory_aware_ctx says, *)
(* for any model and machine, and does not change one that was fitted.     *)
THEOREM FitSafe == Spec => ContextFits
<1> DEFINE Fits ==
      Fixing =>
       /\ machine.ram # Unknown =>
            LET seen == SizeSeen(entry.model, SizeOn(entry))
            IN Wanted(entry'.ctx, Target(entry.model, entry.ctx),
                      IF seen = Unknown THEN 0 ELSE seen, Rate(entry.model))
       /\ here /\ (by \in {"install", "quant"} \/ (by = "gateway" /\ Ample(entry.model)))
            => entry'.ctx = entry.ctx
<1>1. ASSUME StartInv, [Next]_vars PROVE [Fits]_vars
  <2> SUFFICES ASSUME Fixing PROVE Fits
    OBVIOUS
  <2> DEFINE m == entry.model
             gb == SizeOn(entry)
             fitted == MemoryAware(m, gb, entry.ctx, machine)
  <2>1. FixContext
    BY <1>1 DEF Fixing, Next, vars, Install, InitConfig, Move, Listen, Check, TryPort, KeepFixed,
                BeginPlan, Halve, Planned, Stop
  <2>2. Engine(m) = "llamacpp"
    BY DEF Fixing
  <2>3. /\ machine \in Machine /\ entry \in Entries /\ entry.ctx \in Nat
        /\ gb = Unknown \/ gb \in Nat
    BY <1>1, SizeOnTyped DEF StartInv, LifeInv, EntryInv, Entries
  <2>4. entry'.ctx = fitted
    BY <2>1, <2>2, <2>3 DEF FixContext, Resolve, Entries
  <2>5. ASSUME machine.ram # Unknown
        PROVE  Wanted(entry'.ctx, Target(m, entry.ctx), Reckoned(m, gb), Rate(m))
    <3>1. machine.ram \in Nat /\ machine.mac \in BOOLEAN /\ Rate(m) \in Nat /\ Rate(m) >= 1
          /\ Target(m, entry.ctx) \in Nat /\ Reckoned(m, gb) \in Nat
      BY <2>3, <2>5, MachineTyped, ModelTyped, SizeTyped
    <3>2. fitted = FitContext(Rate(m), Reckoned(m, gb), machine.ram, Target(m, entry.ctx), machine.mac)
      BY <2>5, MemoryAwareIs
    <3> HIDE DEF fitted, m, gb
    <3> QED BY <2>4, <3>1, <3>2, FitIsWanted
  <2>6. ASSUME here, by \in {"install", "quant"} \/ (by = "gateway" /\ Ample(m))
        PROVE  entry'.ctx = entry.ctx
    BY <1>1, <2>2, <2>4, <2>6 DEF StartInv, LifeInv, Settled
  <2> QED BY <2>5, <2>6 DEF Reckoned
<1> QED BY <1>1, StartIsInv, PTL DEF Spec, ContextFits

(* The largest of the quants that fit.                                     *)
LEMMA LargestIs ==
  ASSUME NEW m \in DOMAIN Catalog, NEW S \in SUBSET Quants(m), S # {}
  PROVE  Largest(m, S) \in S /\ \A r \in S : Catalog[m].sizes[r] <= Catalog[m].sizes[Largest(m, S)]
<1> DEFINE f == [q \in S |-> Catalog[m].sizes[q]]
<1>1. IsFiniteSet(S) /\ f \in [S -> Nat]
  BY InfoTyped, FS_Subset
<1>2. \E q \in S : \A r \in S : f[r] <= f[q]
  <2> HIDE DEF f
  <2> QED BY <1>1, GreatestBy
<1>3. \E q \in S : \A r \in S : Catalog[m].sizes[r] <= Catalog[m].sizes[q]
  BY <1>2
<1> QED BY <1>3 DEF Largest

(* What install and init choose by themselves, for any catalog: a quant    *)
(* that the machine holds if there is one, the default model first and one *)
(* of the strongest tier among the three (choose_quant and                 *)
(* recommended_for_ram).                                                   *)
THEOREM ChoicesSafe == Spec => []ChoicesFit
<1>1. ASSUME StartInv PROVE ChoicesFit
  <2> SUFFICES ASSUME machine.ram # Unknown PROVE ChoicesFit
    BY DEF ChoicesFit
  <2> DEFINE m == entry.model
             budget == Budget(machine.ram, machine.mac)
             fitting == Fitting(m, budget)
             fits == FitsBudget(budget)
             picks == Picks(machine)
  <2>1. ASSUME by = "install", here, Engine(m) = "llamacpp", fitting # {}
        PROVE  /\ entry.quant \in fitting
               /\ \/ entry.quant = Catalog[m].default
                  \/ \A q \in fitting : Catalog[m].sizes[q] <= SizeOn(entry)
    <3>1. m \in Gguf /\ entry.quant = ChooseQuant(m, machine)
      BY <1>1, <2>1 DEF StartInv, LifeInv, Chosen
    <3>2. m \in DOMAIN Catalog /\ fitting \in SUBSET Quants(m)
      BY <3>1, GgufTyped DEF Fitting
    <3>3. entry.quant = IF Catalog[m].default \in fitting THEN Catalog[m].default ELSE Largest(m, fitting)
      BY <2>1, <3>1 DEF ChooseQuant
    <3> HIDE DEF fitting
    <3>4. CASE Catalog[m].default \in fitting
      BY <3>3, <3>4
    <3>5. CASE Catalog[m].default \notin fitting
      <4>1. entry.quant = Largest(m, fitting)
        BY <3>3, <3>5
      <4>2. entry.quant \in fitting /\ \A q \in fitting : Catalog[m].sizes[q] <= Catalog[m].sizes[entry.quant]
        BY <2>1, <3>2, <4>1, LargestIs
      <4>3. entry.quant # Unknown
        BY <3>2, <4>2, InfoTyped, UnknownIsNone
      <4>4. SizeOn(entry) = Catalog[m].sizes[entry.quant]
        BY <4>3 DEF SizeOn
      <4> QED BY <4>2, <4>4
    <3> QED BY <3>4, <3>5
  <2>2. ASSUME fits # {}
        PROVE  /\ DefaultModel \in fits => Head(picks) = DefaultModel
               /\ \E i \in DOMAIN picks : \A n \in fits : Catalog[n].tier <= Catalog[picks[i]].tier
               /\ \A i, j \in DOMAIN picks : picks[i] = picks[j] => i = j
    <3> DEFINE R == Recommended(budget, 3)
    <3>1. /\ R \in Seq(fits)
          /\ R = <<>> <=> fits = {}
          /\ DefaultModel \in fits => R[1] = DefaultModel
          /\ fits # {} => \E i \in 1..Len(R) : Toughest(R[i], fits)
          /\ \A i, j \in 1..Len(R) : i # j => R[i] # R[j]
      BY RecommendedIs
    <3>2. picks = R
      <4>1. picks = IF R = <<>> THEN <<SmallestModel>> ELSE R
        BY DEF Picks
      <4> HIDE DEF picks, R, fits
      <4> QED BY <4>1, <3>1, <2>2
    <3> HIDE DEF picks, R, fits
    <3>3. DOMAIN R = 1..Len(R)
      BY <3>1, LenProperties
    <3>4. Head(R) = R[1]
      OBVIOUS
    <3> QED BY <2>2, <3>1, <3>2, <3>3, <3>4 DEF Toughest
  <2> QED BY <2>1, <2>2 DEF ChoicesFit
<1> QED BY <1>1, StartIsInv, PTL
===============================================================================
