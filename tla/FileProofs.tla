------------------------------- MODULE FileProofs -------------------------------
(***************************************************************************)
(* Why models.yaml loses nothing as long as its writers do not overlap,    *)
(* for any models, contexts and writers, and what it always is: what each  *)
(* writer makes of a file that it read.                                    *)
(***************************************************************************)
EXTENDS ModelsFile, FiniteSetTheorems, SequenceTheorems, WellFoundedInduction, TLAPS

(* A set of natural numbers has a least one.                               *)
LEMMA Least ==
  ASSUME NEW T \in SUBSET Nat, T # {}
  PROVE  \E x \in T : \A y \in T : x <= y
<1> DEFINE R == {ss \in Nat \X Nat : ss[1] < ss[2]}
<1>1. IsWellFoundedOn(R, Nat)
  BY NatLessThanWellFounded DEF OpToRel
<1> HIDE DEF R
<1>2. \E x \in T : \A y \in T : ~ (<<y, x>> \in R)
  BY <1>1, WFMin
<1>3. \A x, y \in T : ~ (<<y, x>> \in R) => x <= y
  BY DEF R
<1> QED BY <1>2, <1>3

LEMMA MinIs ==
  ASSUME NEW T \in SUBSET Nat, T # {}
  PROVE  Min(T) \in T /\ \A y \in T : Min(T) <= y
BY Least DEF Min

LEMMA LastOfPrefix ==
  ASSUME NEW k \in Nat, k > 0
  PROVE  Max(1..k) = k /\ (1..k) \ {k} = 1..(k - 1)
<1>1. k \in 1..k /\ \A y \in 1..k : k >= y
  OBVIOUS
<1>2. \A x \in 1..k : (\A y \in 1..k : x >= y) => x = k
  BY <1>1
<1>3. Max(1..k) = k
  BY <1>1, <1>2 DEF Max
<1>4. (1..k) \ {k} = 1..(k - 1)
  OBVIOUS
<1> QED BY <1>3, <1>4

-------------------------------------------------------------------------------
(* Others, from its definition as a fold.                                  *)

Keep(kept, e, m) == IF e.id = m THEN kept ELSE Append(kept, e)

(* g is the fold over each set of positions in D, as the library has it.   *)
Keeps(g, m, s, D) ==
  g = [x \in D |-> IF x = {} THEN <<>> ELSE Keep(g[x \ {Max(x)}], s[Max(x)], m)]

LEMMA MaxIn ==
  ASSUME NEW n \in Nat, NEW x \in SUBSET (1..n), x # {}
  PROVE  Max(x) \in x
<1> DEFINE Down == {n - y : y \in x}
<1>1. Down \in SUBSET Nat /\ Down # {}
  <2>1. \A y \in x : n - y \in Nat
    OBVIOUS
  <2> QED BY <2>1
<1>2. PICK d \in Down : \A e \in Down : d <= e
  <2> HIDE DEF Down
  <2> QED BY <1>1, Least
<1>3. PICK y \in x : d = n - y
  BY <1>2
<1>4. \A z \in x : y >= z
  <2> SUFFICES ASSUME NEW z \in x PROVE y >= z
    OBVIOUS
  <2>1. n - z \in Down
    OBVIOUS
  <2> QED BY <1>2, <1>3, <2>1
<1> QED BY <1>3, <1>4 DEF Max

LEMMA FoldExists ==
  ASSUME NEW n \in Nat, NEW m, NEW s
  PROVE  \E g : Keeps(g, m, s, SUBSET (1..n))
<1> DEFINE Small(c) == {x \in SUBSET (1..n) : Cardinality(x) <= c}
           Bad == {c \in Nat : ~ \E g : Keeps(g, m, s, Small(c))}
<1>0. IsFiniteSet(1..n) /\ \A x \in SUBSET (1..n) : IsFiniteSet(x) /\ Cardinality(x) \in Nat
  <2>1. IsFiniteSet(1..n)
    BY FS_Interval
  <2> QED BY <2>1, FS_Subset, FS_CardinalityType
<1>1. SUFFICES Bad = {}
  <2>1. Cardinality(1..n) \in Nat /\ Small(Cardinality(1..n)) = SUBSET (1..n)
    BY <1>0, FS_Subset
  <2> QED BY <1>1, <2>1
<1>2. SUFFICES ASSUME NEW c \in Bad, \A b \in Bad : c <= b PROVE FALSE
  BY Least
<1>3. CASE c = 0
  <2>1. Small(0) = {{}}
    BY <1>0, FS_EmptySet, <1>3
  <2> DEFINE g == [x \in {{}} |-> <<>>]
  <2>2. Keeps(g, m, s, {{}})
    BY DEF Keeps
  <2> QED BY <2>1, <2>2, <1>3
<1>4. CASE c # 0
  <2>1. PICK h : Keeps(h, m, s, Small(c - 1))
    <3>1. c \in Nat /\ c - 1 \in Nat /\ c - 1 < c
      BY <1>4
    <3>2. c - 1 \notin Bad
      <4> HIDE DEF Bad
      <4>1. c - 1 \in Bad => c <= c - 1
        BY <1>2
      <4> QED BY <3>1, <4>1
    <3> QED BY <3>1, <3>2
  <2> DEFINE g == [x \in Small(c) |-> IF x = {} THEN <<>> ELSE Keep(h[x \ {Max(x)}], s[Max(x)], m)]
  <2>2. \A x \in Small(c) : x # {} => x \ {Max(x)} \in Small(c - 1)
    <3> SUFFICES ASSUME NEW x \in Small(c), x # {} PROVE x \ {Max(x)} \in Small(c - 1)
      OBVIOUS
    <3>1. Max(x) \in x
      BY MaxIn
    <3>2. Cardinality(x \ {Max(x)}) = Cardinality(x) - 1
      BY <1>0, <3>1, FS_RemoveElement
    <3>3. Cardinality(x) \in Nat /\ Cardinality(x) <= c /\ c \in Nat
      BY <1>0
    <3>4. Cardinality(x \ {Max(x)}) <= c - 1
      BY <3>2, <3>3
    <3>5. x \ {Max(x)} \in SUBSET (1..n)
      OBVIOUS
    <3> QED BY <3>4, <3>5
  <2>3. \A x \in Small(c - 1) : x \in Small(c) /\ g[x] = h[x]
    <3>1. \A x \in Small(c - 1) : x \in Small(c)
      BY <1>0
    <3>2. \A x \in Small(c - 1) : h[x] = IF x = {} THEN <<>> ELSE Keep(h[x \ {Max(x)}], s[Max(x)], m)
      <4> HIDE DEF Small
      <4> QED BY <2>1 DEF Keeps
    <3> HIDE DEF Small
    <3> QED BY <3>1, <3>2
  <2>4. Keeps(g, m, s, Small(c))
    <3>1. \A x \in Small(c) : g[x] = IF x = {} THEN <<>> ELSE Keep(g[x \ {Max(x)}], s[Max(x)], m)
      BY <2>2, <2>3
    <3> QED BY <3>1 DEF Keeps
  <2> QED BY <2>4
<1> QED BY <1>3, <1>4

LEMMA OthersFold ==
  ASSUME NEW S, NEW s \in Seq(S), NEW m
  PROVE  \E g : Keeps(g, m, s, SUBSET (1..Len(s))) /\ Others(m, s) = g[1..Len(s)]
<1> DEFINE it == CHOOSE g : Keeps(g, m, s, SUBSET (1..Len(s)))
<1>1. Keeps(it, m, s, SUBSET (1..Len(s)))
  BY FoldExists, LenProperties
<1>2. DOMAIN s = 1..Len(s)
  BY LenProperties
<1>3. Others(m, s) = it[1..Len(s)]
  BY <1>2 DEF Others, FoldLeft, MapThenFoldSet, Keeps, Keep
<1> QED BY <1>1, <1>3

(* What is left of a file without a model is the entries of the others, in *)
(* which nothing is there twice if nothing was.                            *)
LEMMA OthersIs ==
  ASSUME NEW S, NEW s \in Seq(S), NEW m
  PROVE  /\ Others(m, s) \in Seq(S)
         /\ \A i \in DOMAIN Others(m, s) : Others(m, s)[i].id # m /\ \E j \in DOMAIN s : Others(m, s)[i] = s[j]
         /\ \A j \in DOMAIN s : s[j].id # m => \E i \in DOMAIN Others(m, s) : Others(m, s)[i] = s[j]
         /\ Distinct(s) => Distinct(Others(m, s))
<1>0. Len(s) \in Nat /\ DOMAIN s = 1..Len(s) /\ \A i \in 1..Len(s) : s[i] \in S
  BY LenProperties, ElementOfSeq
<1>1. PICK g : Keeps(g, m, s, SUBSET (1..Len(s))) /\ Others(m, s) = g[1..Len(s)]
  BY OthersFold
<1>2. \A x \in SUBSET (1..Len(s)) :
        g[x] = IF x = {} THEN <<>> ELSE Keep(g[x \ {Max(x)}], s[Max(x)], m)
  BY <1>1 DEF Keeps
<1>3. g[1..0] = <<>> /\ \A k \in 1..Len(s) : g[1..k] = Keep(g[1..(k - 1)], s[k], m)
  <2>1. g[1..0] = <<>>
    <3>1. 1..0 = {}
      OBVIOUS
    <3> QED BY <1>2, <3>1
  <2>2. ASSUME NEW k \in 1..Len(s) PROVE g[1..k] = Keep(g[1..(k - 1)], s[k], m)
    <3>1. 1..k \in SUBSET (1..Len(s)) /\ 1..k # {} /\ Max(1..k) = k /\ (1..k) \ {k} = 1..(k - 1)
      BY <1>0, LastOfPrefix
    <3> QED BY <1>2, <3>1
  <2> QED BY <2>1, <2>2
<1> DEFINE r(k) == g[1..k]
           Good(k) == /\ r(k) \in Seq(S)
                      /\ \A i \in DOMAIN r(k) : r(k)[i].id # m /\ \E j \in 1..k : r(k)[i] = s[j]
                      /\ \A j \in 1..k : s[j].id # m => \E i \in DOMAIN r(k) : r(k)[i] = s[j]
                      /\ Distinct(s) => Distinct(r(k))
           Bad == {k \in 0..Len(s) : ~Good(k)}
<1>4. Good(0)
  BY <1>3, EmptySeq DEF Distinct
<1>5. ASSUME NEW k \in 1..Len(s), Good(k - 1) PROVE Good(k)
  <2> DEFINE q == r(k - 1)
  <2>1. r(k) = Keep(q, s[k], m)
    BY <1>3
  <2>2. q \in Seq(S) /\ DOMAIN q = 1..Len(q) /\ Len(q) \in Nat
    BY <1>5, LenProperties
  <2>3. /\ \A i \in DOMAIN q : q[i].id # m /\ \E j \in 1..(k - 1) : q[i] = s[j]
        /\ \A j \in 1..(k - 1) : s[j].id # m => \E i \in DOMAIN q : q[i] = s[j]
        /\ Distinct(s) => Distinct(q)
    BY <1>5
  <2>4. 1..k = 1..(k - 1) \cup {k} /\ s[k] \in S /\ k \notin 1..(k - 1)
    BY <1>0
  <2> HIDE DEF q
  <2>5. CASE s[k].id = m
    <3>1. r(k) = q
      BY <2>1, <2>5 DEF Keep
    <3> HIDE DEF r
    <3> QED BY <2>2, <2>3, <2>4, <2>5, <3>1
  <2>6. CASE s[k].id # m
    <3>1. r(k) = Append(q, s[k])
      BY <2>1, <2>6 DEF Keep
    <3> DEFINE a == Append(q, s[k])
    <3>2. /\ a \in Seq(S) /\ DOMAIN a = 1..(Len(q) + 1)
          /\ \A i \in 1..Len(q) : a[i] = q[i]
          /\ a[Len(q) + 1] = s[k]
      BY <2>2, <2>4, AppendProperties, LenProperties
    <3> HIDE DEF a, r
    <3>a. DOMAIN a = DOMAIN q \cup {Len(q) + 1}
      BY <2>2, <3>2
    <3>3. \A i \in DOMAIN a : a[i].id # m /\ \E j \in 1..k : a[i] = s[j]
      BY <2>2, <2>3, <2>4, <2>6, <3>2, <3>a
    <3>4. \A j \in 1..k : s[j].id # m => \E i \in DOMAIN a : a[i] = s[j]
      BY <2>2, <2>3, <2>4, <3>2, <3>a
    <3>5. ASSUME Distinct(s) PROVE Distinct(a)
      <4>1. \A i \in DOMAIN q : q[i].id # s[k].id
        <5> SUFFICES ASSUME NEW i \in DOMAIN q, q[i].id = s[k].id PROVE FALSE
          OBVIOUS
        <5>1. PICK j \in 1..(k - 1) : q[i] = s[j]
          BY <2>3
        <5>2. j \in DOMAIN s /\ k \in DOMAIN s /\ j # k
          BY <1>0, <2>4
        <5> QED BY <3>5, <5>1, <5>2 DEF Distinct
      <4>2. Distinct(q)
        BY <2>3, <3>5
      <4> QED BY <2>2, <3>2, <3>a, <4>1, <4>2 DEF Distinct
    <3>6. r(k) = a
      BY <3>1 DEF a
    <3> QED BY <3>2, <3>3, <3>4, <3>5, <3>6
  <2> QED BY <2>5, <2>6
<1> HIDE DEF Good
<1>6. Bad = {}
  <2> SUFFICES ASSUME Bad # {} PROVE FALSE
    OBVIOUS
  <2>1. Bad \in SUBSET Nat
    BY <1>0
  <2>2. PICK k \in Bad : \A b \in Bad : k <= b
    BY <2>1, Least
  <2>3. k # 0
    BY <1>4, <2>2
  <2>4. k - 1 \in 0..Len(s) /\ k \in 1..Len(s) /\ k - 1 < k
    BY <1>0, <2>2, <2>3
  <2>5. Good(k - 1)
    BY <2>1, <2>2, <2>4
  <2> QED BY <1>5, <2>2, <2>4, <2>5
<1>7. Good(Len(s))
  BY <1>0, <1>6
<1> QED BY <1>0, <1>1, <1>7 DEF Good

-------------------------------------------------------------------------------
(* A file in which no alias and no model is twice, and what the writers    *)
(* make of it.                                                             *)

Apart(s) == \A i, j \in DOMAIN s : s[i].id # s[j].id => s[i].aliases \cap s[j].aliases = {}

LEMMA ValidIsApart == \A s : Valid(s) => Apart(s)
BY DEF Valid, Labels, Apart

Sound(s) == s \in Seq(Entry) /\ Apart(s) /\ Distinct(s)

Additions == [kind : {"add"}, entry : Entry]
Corrections == [kind : {"correct"}, entry : Entry]
Job == {NoJob} \cup [kind : {"init"}] \cup Additions \cup Corrections

LEMMA EntryTyped ==
  ASSUME NEW e \in Entry
  PROVE  /\ e.id \in Model /\ e.ctx \in Ctx /\ e.auto \in Policy /\ e.aliases \in SUBSET Name
         /\ e # Gone
<1>1. e.id \in Model /\ e.ctx \in Ctx /\ e.auto \in Policy /\ e.aliases \in SUBSET Name
  BY DEF Entry
<1>2. "ctx" \in DOMAIN e /\ "ctx" \notin DOMAIN Gone
  BY DEF Entry, Gone
<1> QED BY <1>1, <1>2

LEMMA FileIs ==
  ASSUME NEW s \in Seq(Entry)
  PROVE  /\ Len(s) \in Nat /\ DOMAIN s = 1..Len(s)
         /\ \A i \in DOMAIN s : s[i] \in Entry /\ s[i].id \in Model
BY LenProperties, ElementOfSeq, EntryTyped

(* The first entry of a model, ...                                         *)
LEMMA FirstIs ==
  ASSUME NEW s \in Seq(Entry), NEW m \in Ids(s)
  PROVE  Place(s, m) \in DOMAIN s /\ s[Place(s, m)].id = m
<1> DEFINE I == {i \in 1..Len(s) : s[i].id = m}
<1>1. I \in SUBSET Nat /\ I # {}
  BY FileIs DEF Ids
<1>2. Place(s, m) = Min(I)
  BY <1>1 DEF Place, SelectInSeq
<1>3. Min(I) \in I
  <2> HIDE DEF I
  <2> QED BY <1>1, MinIs
<1> QED BY <1>2, <1>3, FileIs

LEMMA NamedIs ==
  ASSUME NEW s \in Seq(Entry), NEW m \in Ids(s)
  PROVE  /\ \E i \in DOMAIN s : Named(s, m) = s[i] /\ s[i].id = m
         /\ Named(s, m) \in Entry /\ Named(s, m).id = m
BY FirstIs, FileIs DEF Named

(* ... and the only one.                                                   *)
LEMMA NamedOnly ==
  ASSUME NEW s \in Seq(Entry), Distinct(s), NEW i \in DOMAIN s
  PROVE  s[i].id \in Ids(s) /\ Named(s, s[i].id) = s[i]
<1>1. s[i].id \in Ids(s)
  BY DEF Ids
<1> QED BY <1>1, NamedIs DEF Distinct

LEMMA WrittenIs ==
  ASSUME NEW s \in Seq(Entry), NEW m \in Model
  PROVE  /\ Written(s) \in [Model -> Entry \cup {Gone}]
         /\ Written(s)[m] = IF m \in Ids(s) THEN Named(s, m) ELSE Gone
         /\ Written(s)[m] = Gone <=> m \notin Ids(s)
<1>1. \A n \in Ids(s) : Named(s, n) \in Entry /\ Named(s, n) # Gone
  BY NamedIs, EntryTyped
<1> QED BY <1>1 DEF Written

(* A correction changes its model's entry, and that in two fields.         *)
LEMMA CorrectedIs ==
  ASSUME NEW s, Sound(s), NEW e \in Entry
  PROVE  /\ Sound(Corrected(e, s))
         /\ Written(Corrected(e, s)) =
              IF e.id \notin Ids(s) THEN Written(s)
              ELSE [Written(s) EXCEPT ![e.id] = WithContext(@, e)]
<1>1. CASE e.id \notin Ids(s)
  BY <1>1 DEF Corrected
<1>2. CASE e.id \in Ids(s)
  <2> DEFINE k == Place(s, e.id)
             f == WithContext(s[k], e)
             c == [s EXCEPT ![k] = f]
  <2>0. s \in Seq(Entry) /\ Apart(s) /\ Distinct(s)
    BY DEF Sound
  <2>1. k \in DOMAIN s /\ s[k].id = e.id /\ s[k] \in Entry
    BY <1>2, <2>0, FirstIs, FileIs
  <2>2. Corrected(e, s) = c
    BY <1>2 DEF Corrected
  <2>3. f \in Entry /\ f.id = e.id /\ f.aliases = s[k].aliases
    BY <2>1, EntryTyped DEF Entry, WithContext
  <2> HIDE DEF f, k
  <2>4. c \in Seq(Entry) /\ DOMAIN c = DOMAIN s /\ c[k] = f /\ \A i \in DOMAIN s \ {k} : c[i] = s[i]
    <3>1. c \in Seq(Entry) /\ Len(c) = Len(s)
      BY <2>0, <2>1, <2>3, ExceptSeq, FileIs
    <3> QED BY <2>1, <3>1
  <2> HIDE DEF c
  <2>5. \A i \in DOMAIN s : c[i].id = s[i].id /\ c[i].aliases = s[i].aliases
    BY <2>1, <2>3, <2>4
  <2>6. Sound(c)
    BY <2>0, <2>4, <2>5 DEF Sound, Apart, Distinct
  <2>7. Ids(c) = Ids(s)
    BY <2>4, <2>5 DEF Ids
  <2>8. \A i \in DOMAIN s : Written(c)[s[i].id] = c[i] /\ Written(s)[s[i].id] = s[i]
    BY <2>0, <2>4, <2>5, <2>6, NamedOnly, WrittenIs, FileIs DEF Sound
  <2>9. ASSUME NEW m \in Model
        PROVE Written(c)[m] = [Written(s) EXCEPT ![e.id] = WithContext(@, e)][m]
    <3>1. Written(s) \in [Model -> Entry \cup {Gone}] /\ e.id \in Model
      BY <2>0, WrittenIs, EntryTyped
    <3>2. CASE m = e.id
      <4>1. Written(c)[m] = f /\ Written(s)[m] = s[k]
        BY <2>1, <2>4, <2>8, <3>2
      <4> QED BY <3>1, <3>2, <4>1 DEF f
    <3>3. CASE m # e.id /\ m \in Ids(s)
      <4>1. PICK i \in DOMAIN s : s[i].id = m
        BY <3>3 DEF Ids
      <4>2. i # k
        BY <2>1, <3>3, <4>1
      <4>3. Written(c)[m] = Written(s)[m]
        BY <2>4, <2>8, <4>1, <4>2
      <4> QED BY <3>1, <3>3, <4>3
    <3>4. CASE m # e.id /\ m \notin Ids(s)
      <4>1. Written(c)[m] = Gone /\ Written(s)[m] = Gone
        BY <2>0, <2>4, <2>7, <3>4, WrittenIs
      <4> QED BY <3>1, <3>4, <4>1
    <3> QED BY <3>2, <3>3, <3>4
  <2>10. Written(c) \in [Model -> Entry \cup {Gone}] /\ Written(s) \in [Model -> Entry \cup {Gone}]
    BY <2>0, <2>4, WrittenIs, EntryTyped
  <2>11. Written(c) = [Written(s) EXCEPT ![e.id] = WithContext(@, e)]
    BY <2>9, <2>10
  <2> QED BY <1>2, <2>2, <2>6, <2>11
<1> QED BY <1>1, <1>2

(* An addition puts its entry at the end; the names it gives are nobody    *)
(* else's.                                                                 *)
LEMMA AddedIs ==
  ASSUME NEW s, Sound(s), NEW e \in Entry
  PROVE  /\ Sound(Added(e, s))
         /\ Written(Added(e, s)) =
              [Written(s) EXCEPT ![e.id] = [e EXCEPT !.aliases = Named(Added(e, s), e.id).aliases]]
<1> DEFINE m == e.id
           o == Others(m, s)
           f == [e EXCEPT !.aliases = AliasesFor(m, s)]
           a == Append(o, f)
<1>0. s \in Seq(Entry) /\ Apart(s) /\ Distinct(s) /\ m \in Model
  BY EntryTyped DEF Sound
<1>1. Added(e, s) = a
  BY DEF Added
<1>2. /\ o \in Seq(Entry) /\ DOMAIN o = 1..Len(o) /\ Len(o) \in Nat
      /\ \A i \in DOMAIN o : o[i].id # m /\ \E j \in DOMAIN s : o[i] = s[j]
      /\ \A j \in DOMAIN s : s[j].id # m => \E i \in DOMAIN o : o[i] = s[j]
      /\ Distinct(o)
  BY <1>0, OthersIs, LenProperties
<1>3. AliasesFor(m, s) \in SUBSET Name
  BY <1>0, NamedIs, EntryTyped, Contexts DEF AliasesFor
<1>4. f \in Entry /\ f.id = m /\ f.aliases = AliasesFor(m, s)
  BY <1>3 DEF Entry
<1>5. \A j \in DOMAIN s : s[j].id # m => s[j].aliases \cap AliasesFor(m, s) = {}
  <2> SUFFICES ASSUME NEW j \in DOMAIN s, s[j].id # m PROVE s[j].aliases \cap AliasesFor(m, s) = {}
    OBVIOUS
  <2>1. CASE m \in Ids(s) /\ Named(s, m).aliases # {}
    <3>1. PICK i \in DOMAIN s : Named(s, m) = s[i] /\ s[i].id = m
      BY <1>0, <2>1, NamedIs
    <3>2. s[j].aliases \cap s[i].aliases = {}
      BY <1>0, <3>1 DEF Apart
    <3> QED BY <2>1, <3>1, <3>2 DEF AliasesFor
  <2>2. CASE ~(m \in Ids(s) /\ Named(s, m).aliases # {})
    BY <2>2 DEF AliasesFor
  <2> QED BY <2>1, <2>2
<1> HIDE DEF o, f, m
<1>6. /\ a \in Seq(Entry) /\ DOMAIN a = DOMAIN o \cup {Len(o) + 1} /\ Len(o) + 1 \notin DOMAIN o
      /\ \A i \in DOMAIN o : a[i] = o[i]
      /\ a[Len(o) + 1] = f
  <2>1. a \in Seq(Entry) /\ Len(a) = Len(o) + 1 /\ (\A i \in 1..Len(o) : a[i] = o[i]) /\ a[Len(o) + 1] = f
    BY <1>2, <1>4, AppendProperties
  <2>2. DOMAIN a = 1..(Len(o) + 1)
    BY <2>1, LenProperties
  <2> QED BY <1>2, <2>1, <2>2
<1> HIDE DEF a
<1>7. Distinct(a)
  BY <1>2, <1>4, <1>6 DEF Distinct
<1>8. Apart(a)
  <2>1. \A i \in DOMAIN o : o[i].aliases \cap f.aliases = {}
    BY <1>2, <1>4, <1>5
  <2>2. \A i, j \in DOMAIN o : o[i].id # o[j].id => o[i].aliases \cap o[j].aliases = {}
    <3> SUFFICES ASSUME NEW i \in DOMAIN o, NEW j \in DOMAIN o, o[i].id # o[j].id
                 PROVE  o[i].aliases \cap o[j].aliases = {}
      OBVIOUS
    <3>1. PICK p \in DOMAIN s, q \in DOMAIN s : o[i] = s[p] /\ o[j] = s[q]
      BY <1>2
    <3>2. s[p].id # s[q].id
      BY <3>1
    <3>3. s[p].aliases \cap s[q].aliases = {}
      BY <1>0, <3>2 DEF Apart
    <3> QED BY <3>1, <3>3
  <2> QED BY <1>6, <2>1, <2>2 DEF Apart
<1>9. Sound(a)
  BY <1>6, <1>7, <1>8 DEF Sound
<1>10. Named(a, m) = f /\ m \in Ids(a)
  BY <1>4, <1>6, <1>7, NamedOnly
<1>11. \A i \in DOMAIN o : Named(a, o[i].id) = o[i] /\ o[i].id \in Ids(a)
  <2> SUFFICES ASSUME NEW i \in DOMAIN o PROVE Named(a, o[i].id) = o[i] /\ o[i].id \in Ids(a)
    OBVIOUS
  <2>1. i \in DOMAIN a /\ a[i] = o[i]
    BY <1>6
  <2> QED BY <1>6, <1>7, <2>1, NamedOnly
<1>12. \A n \in Ids(a) : n # m => \E i \in DOMAIN o : o[i].id = n
  BY <1>4, <1>6 DEF Ids
<1>13. ASSUME NEW n \in Model, n # m PROVE Written(a)[n] = Written(s)[n]
  <2>1. CASE n \in Ids(s)
    <3>1. PICK j \in DOMAIN s : s[j].id = n
      BY <2>1 DEF Ids
    <3>2. PICK i \in DOMAIN o : o[i] = s[j]
      BY <1>2, <1>13, <3>1
    <3>3. Named(s, n) = s[j]
      BY <1>0, <3>1, NamedOnly
    <3>4. Written(a)[n] = o[i]
      BY <1>6, <1>11, <3>1, <3>2, WrittenIs
    <3> QED BY <1>0, <2>1, <3>2, <3>3, <3>4, WrittenIs
  <2>2. CASE n \notin Ids(s)
    <3>1. n \notin Ids(a)
      <4> SUFFICES ASSUME n \in Ids(a) PROVE FALSE
        OBVIOUS
      <4>1. PICK i \in DOMAIN o : o[i].id = n
        BY <1>12, <1>13
      <4>2. PICK j \in DOMAIN s : o[i] = s[j]
        BY <1>2
      <4> QED BY <2>2, <4>1, <4>2 DEF Ids
    <3> QED BY <1>0, <1>6, <2>2, <3>1, WrittenIs
  <2> QED BY <2>1, <2>2
<1>14. Written(a)[m] = f
  BY <1>0, <1>6, <1>10, WrittenIs
<1>15. f = [e EXCEPT !.aliases = Named(a, m).aliases]
  BY <1>10, <1>4 DEF f, m
<1>16. Written(a) \in [Model -> Entry \cup {Gone}] /\ Written(s) \in [Model -> Entry \cup {Gone}]
  BY <1>0, <1>6, WrittenIs
<1>17. Written(a) = [Written(s) EXCEPT ![m] = [e EXCEPT !.aliases = Named(a, m).aliases]]
  BY <1>0, <1>13, <1>14, <1>15, <1>16
<1> QED BY <1>1, <1>9, <1>17 DEF m

(* What a job makes of a file that holds what was due is what is due next. *)
LEMMA ContentIs ==
  ASSUME NEW s, Sound(s), NEW j \in Job, j.kind # "none"
  PROVE  /\ Sound(Content(j, s))
         /\ Written(s) = due => Written(Content(j, s)) = Meant(j, Content(j, s))
<1>0. j \in [kind : {"init"}] \cup Additions \cup Corrections
  BY DEF Job, NoJob
<1>1. CASE j \in [kind : {"init"}]
  <2>1. j.kind = "init"
    BY <1>1
  <2>2. Content(j, s) = Picks /\ Meant(j, Picks) = Written(Picks)
    BY <2>1 DEF Content, Meant
  <2> QED BY <2>2, PicksAreEntries, ValidIsApart DEF Sound
<1>2. CASE j \in Additions
  <2>1. j.kind = "add" /\ j.entry \in Entry
    BY <1>2 DEF Additions
  <2>2. Content(j, s) = Added(j.entry, s)
    BY <2>1 DEF Content
  <2>3. Meant(j, Added(j.entry, s)) =
          [due EXCEPT ![j.entry.id] = [j.entry EXCEPT !.aliases = Named(Added(j.entry, s), j.entry.id).aliases]]
    BY <2>1 DEF Meant
  <2> QED BY <2>1, <2>2, <2>3, AddedIs
<1>3. CASE j \in Corrections
  <2>1. j.kind = "correct" /\ j.entry \in Entry /\ j.entry.id \in Model
    BY <1>3, EntryTyped DEF Corrections
  <2>2. Content(j, s) = Corrected(j.entry, s)
    BY <2>1 DEF Content
  <2>3. Meant(j, Corrected(j.entry, s)) =
          IF due[j.entry.id] = Gone THEN due
          ELSE [due EXCEPT ![j.entry.id] = WithContext(@, j.entry)]
    BY <2>1 DEF Meant
  <2>4. Written(s)[j.entry.id] = Gone <=> j.entry.id \notin Ids(s)
    BY <2>1, WrittenIs DEF Sound
  <2> QED BY <2>1, <2>2, <2>3, <2>4, CorrectedIs
<1> QED BY <1>0, <1>1, <1>2, <1>3

-------------------------------------------------------------------------------
(* The inductive invariant.                                                *)

Places == {"idle", "serving", "read", "open", "dump"}
Writing == {"read", "open", "dump"}

Typed ==
  /\ {exists, torn, damaged} \subseteq BOOLEAN
  /\ memory \in [Gateway -> Seq(Entry)]
  /\ pc \in [Writer -> Places]
  /\ job \in [Writer -> Job]
  /\ jobs \in [Command -> 0..Jobs]
  /\ due \in [Model -> Entry \cup {Gone}]
  /\ stale \in [Gateway -> SUBSET Model]
  /\ snapshot \in [Writer -> Seq(Entry)]

(* In every text that is read or written, no alias and no model is twice.  *)
AllSound ==
  /\ Sound(file)
  /\ \A w \in Writer : Sound(snapshot[w])
  /\ \A g \in Gateway : Distinct(memory[g])

(* A writer has its job: a gateway corrects what it has in memory, for     *)
(* llama.cpp or WARP; a command adds or initialises.                       *)
Employed ==
  /\ \A w \in Writer : pc[w] \in Writing <=> job[w].kind # "none"
  /\ \A g \in Gateway : pc[g] \in Writing =>
       /\ job[g] \in Corrections
       /\ Engine[job[g].entry.id] \in {"llamacpp", "warp"}
       /\ \E i \in DOMAIN memory[g] : memory[g][i] = job[g].entry
  /\ \A c \in Command : job[c].kind # "correct" /\ pc[c] # "serving"

(* As long as writers do not overlap: what each finds is what it read, and *)
(* the file, or while it is empty the copy of its writer, holds what is    *)
(* due.                                                                    *)
OneAtATime ==
  ~damaged =>
    /\ \A v, w \in Writer : Busy(v) /\ Busy(w) => v = w
    /\ \A w \in Writer : pc[w] = "open" => snapshot[w] = file
    /\ \A w \in Writer : pc[w] = "dump" => Written(snapshot[w]) = due /\ file = <<>> /\ ~torn

(* What a gateway knows of a model that nobody else has written since: a   *)
(* context that is due or fits; a policy that is fixed if the one that is  *)
(* due is; and no reason to correct but a value that does not fit or is    *)
(* not fixed.                                                              *)
Remembers(g, m) ==
  \A i \in DOMAIN memory[g] : memory[g][i].id = m =>
    /\ Engine[m] = "llamacpp" =>
         memory[g][i].ctx = due[m].ctx \/ Fit[m][memory[g][i].ctx] = memory[g][i].ctx
    /\ Engine[m] = "warp" => due[m].auto # "fixed" \/ memory[g][i].auto = "fixed"

HasReason(g, m) ==
  pc[g] \in Writing /\ job[g].entry.id = m =>
    /\ Engine[m] = "llamacpp" => Fit[m][due[m].ctx] # due[m].ctx
    /\ Engine[m] = "warp" => due[m].auto # "fixed"

Known(g) == \A m \in Model \ stale[g] : due[m] # Gone => Remembers(g, m) /\ HasReason(g, m)

Knows == ~damaged => \A g \in Gateway : Known(g)

FileInv == Typed /\ AllSound /\ Employed /\ OneAtATime /\ NothingLost /\ Knows

LEMMA FileInit == Init => FileInv
<1> SUFFICES ASSUME Init PROVE FileInv
  OBVIOUS
<1>1. file \in Seq(Entry) /\ Apart(file) /\ Distinct(file)
  <2>1. CASE exists
    <3>1. file \in SeqOf(Plausible, Initially)
      BY <2>1 DEF Init
    <3>2. PICK n \in 0..Initially : file \in [1..n -> Plausible]
      BY <3>1 DEF SeqOf
    <3>3. n \in Nat /\ \A i \in 1..n : file[i] \in Entry
      BY <3>2, Contexts DEF Plausible
    <3>4. file \in [1..n -> Entry]
      BY <3>2, <3>3
    <3>5. file \in Seq(Entry)
      BY <3>3, <3>4, SeqDef
    <3> QED BY <2>1, <3>5, ValidIsApart DEF Init
  <2>2. CASE ~exists
    <3>1. file = <<>>
      BY <2>2 DEF Init
    <3> QED BY <3>1, EmptySeq DEF Apart, Distinct
  <2> QED BY <2>1, <2>2
<1>2. <<>> \in Seq(Entry) /\ Sound(<<>>)
  BY EmptySeq DEF Sound, Apart, Distinct
<1>3. NoJob \in Job /\ NoJob.kind = "none" /\ Writer = Gateway \cup Command
  BY DEF Job, NoJob, Writer
<1>4. due = Written(file) /\ Written(file) \in [Model -> Entry \cup {Gone}]
  <2>1. \A m \in Model : Written(file) \in [Model -> Entry \cup {Gone}]
    BY <1>1, WrittenIs
  <2>2. CASE Model = {}
    BY <2>2 DEF Init, Written
  <2> QED BY <2>1, <2>2 DEF Init
<1>5. Typed
  <2>1. jobs \in [Command -> 0..Jobs]
    BY Contexts DEF Init
  <2> QED BY <1>2, <1>3, <1>4, <2>1 DEF Init, Typed, Places
<1>6. AllSound
  BY <1>1, <1>2 DEF Init, AllSound, Sound
<1>7. Employed
  BY <1>3 DEF Init, Employed, Writing
<1>8. OneAtATime
  BY DEF Init, OneAtATime, Busy
<1>9. NothingLost
  BY DEF Init, NothingLost
<1>10. Knows
  BY DEF Init, Knows, Known, Remembers, HasReason, Writing, Writer
<1> QED BY <1>5, <1>6, <1>7, <1>8, <1>9, <1>10 DEF FileInv

-------------------------------------------------------------------------------
(* One lemma for each action.                                              *)

LEMMA Writers == Writer = Gateway \cup Command /\ Gateway \cap Command = {}
BY Processes DEF Writer

LEMMA KnownKept ==
  ASSUME NEW g \in Gateway, Known(g), memory'[g] = memory[g],
         \A m \in Model \ stale'[g] : due'[m] = due[m] /\ m \notin stale[g],
         pc'[g] \notin Writing \/ (pc[g] \in Writing /\ job'[g] = job[g])
  PROVE  Known(g)'
<1> SUFFICES ASSUME NEW m \in Model \ stale'[g], due'[m] # Gone
             PROVE  Remembers(g, m)' /\ HasReason(g, m)'
  BY DEF Known
<1>1. Remembers(g, m) /\ HasReason(g, m) /\ due'[m] = due[m]
  BY DEF Known
<1> QED BY <1>1 DEF Remembers, HasReason

LEMMA ServeStep == ASSUME FileInv, NEW g \in Gateway, Serve(g) PROVE FileInv'
<1> USE DEF FileInv
<1>1. Typed'
  BY Writers DEF Serve, Goto, disk, Typed, Places, AllSound, Sound
<1>2. AllSound'
  BY DEF Serve, disk, AllSound, Sound, Typed
<1>3. Employed'
  BY Writers DEF Serve, Goto, Employed, Typed, Writing
<1>4. OneAtATime'
  BY Writers DEF Serve, Goto, disk, OneAtATime, Busy, Typed
<1>5. NothingLost'
  BY Writers DEF Serve, Goto, disk, NothingLost, Typed
<1>6. Knows'
  <2> SUFFICES ASSUME ~damaged, NEW h \in Gateway PROVE Known(h)'
    BY DEF Knows, Serve
  <2>1. CASE h # g
    BY <2>1, KnownKept, Writers DEF Serve, Goto, Typed, Knows
  <2>2. CASE h = g
    <3>1. Written(file) = due
      <4>1. \A w \in Writer : pc[w] # "dump"
        BY DEF Serve, OneAtATime
      <4> QED BY <4>1 DEF NothingLost
    <3>2. memory'[g] = file /\ pc'[g] = "serving" /\ due' = due
      BY Writers DEF Serve, Goto, Typed
    <3>3. \A i \in DOMAIN file : due[file[i].id] = file[i]
      BY <3>1, NamedOnly, WrittenIs, FileIs DEF AllSound, Sound
    <3> QED BY <2>2, <3>2, <3>3 DEF Known, Remembers, HasReason, Writing
  <2> QED BY <2>1, <2>2
<1> QED BY <1>1, <1>2, <1>3, <1>4, <1>5, <1>6

LEMMA NoFile == <<>> \in Seq(Entry) /\ Sound(<<>>) /\ Distinct(<<>>) /\ DOMAIN <<>> = {}
BY EmptySeq DEF Sound, Apart, Distinct

LEMMA QuitStep == ASSUME FileInv, NEW g \in Gateway, Quit(g) PROVE FileInv'
<1> USE DEF FileInv
<1>1. Typed'
  BY Writers, NoFile DEF Quit, Goto, disk, aux, Typed, Places
<1>2. AllSound'
  BY NoFile DEF Quit, disk, AllSound, Sound, Typed
<1>3. Employed'
  BY Writers DEF Quit, Goto, Employed, Typed, Writing
<1>4. OneAtATime'
  BY Writers DEF Quit, Goto, disk, aux, OneAtATime, Busy, Typed
<1>5. NothingLost'
  BY Writers DEF Quit, Goto, disk, aux, NothingLost, Typed
<1>6. Knows'
  <2> SUFFICES ASSUME ~damaged, NEW h \in Gateway PROVE Known(h)'
    BY DEF Knows, Quit, aux
  <2>1. CASE h # g
    BY <2>1, KnownKept, Writers DEF Quit, Goto, Typed, Knows, aux
  <2>2. CASE h = g
    BY <2>2, NoFile, Writers DEF Quit, Goto, Typed, Known, Remembers, HasReason, Writing
  <2> QED BY <2>1, <2>2
<1> QED BY <1>1, <1>2, <1>3, <1>4, <1>5, <1>6

(* A correction in memory, whose writer then has it as its job.            *)
LEMMA MemoryIs ==
  ASSUME Typed, AllSound, NEW g \in Gateway, NEW i \in DOMAIN memory[g], NEW e \in Entry, e.id = memory[g][i].id,
         memory' = [memory EXCEPT ![g][i] = e]
  PROVE  /\ memory' \in [Gateway -> Seq(Entry)]
         /\ \A h \in Gateway \ {g} : memory'[h] = memory[h]
         /\ DOMAIN memory'[g] = DOMAIN memory[g] /\ memory'[g][i] = e
         /\ \A j \in DOMAIN memory[g] \ {i} : memory'[g][j] = memory[g][j]
         /\ \A j \in DOMAIN memory[g] : memory'[g][j].id = e.id => j = i
         /\ \A h \in Gateway : Distinct(memory'[h])
<1>1. memory[g] \in Seq(Entry) /\ memory'[g] = [memory[g] EXCEPT ![i] = e]
  BY DEF Typed
<1>2. memory'[g] \in Seq(Entry) /\ DOMAIN memory'[g] = DOMAIN memory[g] /\ memory'[g][i] = e
      /\ \A j \in DOMAIN memory[g] \ {i} : memory'[g][j] = memory[g][j]
  BY <1>1, ExceptSeq, FileIs
<1>3. \A h \in Gateway \ {g} : memory'[h] = memory[h]
  BY DEF Typed
<1>4. memory' \in [Gateway -> Seq(Entry)]
  BY <1>2 DEF Typed
<1>5. \A j \in DOMAIN memory[g] : memory'[g][j].id = memory[g][j].id
  BY <1>2
<1>6. Distinct(memory'[g])
  BY <1>2, <1>5 DEF Distinct, AllSound
<1>7. \A h \in Gateway : Distinct(memory'[h])
  BY <1>3, <1>6 DEF AllSound
<1>8. \A j \in DOMAIN memory[g] : memory'[g][j].id = e.id => j = i
  BY <1>2, <1>6 DEF Distinct
<1> QED BY <1>2, <1>3, <1>4, <1>7, <1>8

(* Why a gateway may change the entry it has of a model.                   *)
Justified(g, e) ==
  ~damaged /\ e.id \notin stale[g] /\ due[e.id] # Gone =>
    /\ Engine[e.id] = "llamacpp" =>
         Fit[e.id][e.ctx] = e.ctx /\ Fit[e.id][due[e.id].ctx] # due[e.id].ctx
    /\ Engine[e.id] = "warp" => due[e.id].auto # "fixed"

Touched(g, i, e) ==
  /\ g \in Gateway /\ pc[g] = "serving" /\ i \in DOMAIN memory[g]
  /\ e \in Entry /\ e.id = memory[g][i].id /\ Engine[e.id] \in {"llamacpp", "warp"}

LEMMA PersistStep ==
  ASSUME FileInv, NEW g, NEW i, NEW e, Touched(g, i, e), Justified(g, e), Persist(g, i, e)
  PROVE  FileInv'
<1> USE DEF FileInv
<1>0. /\ g \in Gateway /\ pc[g] = "serving" /\ i \in DOMAIN memory[g]
      /\ e \in Entry /\ e.id = memory[g][i].id /\ Engine[e.id] \in {"llamacpp", "warp"}
  BY DEF Touched
<1>1. /\ memory' = [memory EXCEPT ![g][i] = e]
      /\ job' = [job EXCEPT ![g] = [kind |-> "correct", entry |-> e]]
      /\ pc' = [pc EXCEPT ![g] = "read"]
      /\ UNCHANGED <<exists, torn, file, snapshot, jobs, due, stale, damaged>>
  BY DEF Persist, Goto, disk, aux
<1>2. /\ memory' \in [Gateway -> Seq(Entry)]
      /\ \A h \in Gateway \ {g} : memory'[h] = memory[h]
      /\ DOMAIN memory'[g] = DOMAIN memory[g] /\ memory'[g][i] = e
      /\ \A j \in DOMAIN memory[g] \ {i} : memory'[g][j] = memory[g][j]
      /\ \A j \in DOMAIN memory[g] : memory'[g][j].id = e.id => j = i
      /\ \A h \in Gateway : Distinct(memory'[h])
  BY <1>0, <1>1, MemoryIs
<1>3. [kind |-> "correct", entry |-> e] \in Corrections /\ Corrections \subseteq Job
  BY <1>0 DEF Corrections, Job
<1>4. /\ \A w \in Writer \ {g} : pc'[w] = pc[w] /\ job'[w] = job[w]
      /\ pc'[g] = "read" /\ job'[g] = [kind |-> "correct", entry |-> e]
      /\ g \in Writer /\ g \notin Command
      /\ pc' \in [Writer -> Places] /\ job' \in [Writer -> Job]
  BY <1>0, <1>1, <1>3, Writers DEF Typed, Places
<1>5. Typed'
  BY <1>1, <1>2, <1>4 DEF Typed
<1>6. AllSound'
  BY <1>1, <1>2 DEF AllSound, Sound
<1>7. Employed'
  <2>1. \A w \in Writer : pc'[w] \in Writing <=> job'[w].kind # "none"
    BY <1>4 DEF Employed, Writing
  <2>2. ASSUME NEW h \in Gateway, pc'[h] \in Writing
        PROVE /\ job'[h] \in Corrections
              /\ Engine[job'[h].entry.id] \in {"llamacpp", "warp"}
              /\ \E k \in DOMAIN memory'[h] : memory'[h][k] = job'[h].entry
    <3>1. CASE h = g
      BY <1>0, <1>2, <1>3, <1>4, <3>1
    <3>2. CASE h # g
      BY <1>2, <1>4, <2>2, <3>2, Writers DEF Employed
    <3> QED BY <3>1, <3>2
  <2>3. \A c \in Command : job'[c].kind # "correct" /\ pc'[c] # "serving"
    BY <1>4, Writers DEF Employed
  <2> QED BY <2>1, <2>2, <2>3 DEF Employed
<1>8. OneAtATime'
  <2>1. \A w \in Writer : (Busy(w)' <=> Busy(w) /\ w # g) /\ (pc'[w] \in {"open", "dump"} => pc'[w] = pc[w])
    BY <1>0, <1>4 DEF Busy
  <2> QED BY <1>1, <2>1 DEF OneAtATime
<1>9. NothingLost'
  BY <1>0, <1>1, <1>4 DEF NothingLost, Written
<1>10. Knows'
  <2> SUFFICES ASSUME ~damaged, NEW h \in Gateway PROVE Known(h)'
    BY <1>1 DEF Knows
  <2>1. CASE h # g
    BY <1>1, <1>2, <1>4, <2>1, KnownKept, Writers DEF Knows
  <2>2. CASE h = g
    <3> SUFFICES ASSUME NEW m \in Model \ stale[g], due[m] # Gone
                 PROVE  Remembers(g, m)' /\ HasReason(g, m)'
      BY <1>1, <2>2 DEF Known
    <3>1. Remembers(g, m)
      BY <1>0 DEF Knows, Known
    <3>2. CASE m # e.id
      <4>1. Remembers(g, m)'
        BY <1>0, <1>1, <1>2, <3>1, <3>2 DEF Remembers
      <4>2. HasReason(g, m)'
        BY <1>4, <3>2 DEF HasReason
      <4> QED BY <4>1, <4>2
    <3>3. CASE m = e.id
      <4>1. /\ Engine[m] = "llamacpp" => Fit[m][e.ctx] = e.ctx /\ Fit[m][due[m].ctx] # due[m].ctx
            /\ Engine[m] = "warp" => due[m].auto # "fixed"
        BY <3>3 DEF Justified
      <4>2. Remembers(g, m)'
        BY <1>1, <1>2, <3>3, <4>1 DEF Remembers
      <4>3. HasReason(g, m)'
        BY <1>1, <1>4, <4>1 DEF HasReason
      <4> QED BY <4>2, <4>3
    <3> QED BY <3>2, <3>3
  <2> QED BY <2>1, <2>2
<1> QED BY <1>5, <1>6, <1>7, <1>8, <1>9, <1>10

(* The same without a writer: the engine did not start.                    *)
LEMMA ForgottenStep ==
  ASSUME FileInv, NEW g, NEW i, NEW e, Touched(g, i, e), Justified(g, e),
         memory' = [memory EXCEPT ![g][i] = e],
         UNCHANGED <<disk, pc, job, snapshot, jobs, aux>>
  PROVE  FileInv'
<1> USE DEF FileInv, disk, aux
<1>0. /\ g \in Gateway /\ pc[g] = "serving" /\ i \in DOMAIN memory[g]
      /\ e \in Entry /\ e.id = memory[g][i].id
  BY DEF Touched
<1>2. /\ memory' \in [Gateway -> Seq(Entry)]
      /\ \A h \in Gateway \ {g} : memory'[h] = memory[h]
      /\ DOMAIN memory'[g] = DOMAIN memory[g] /\ memory'[g][i] = e
      /\ \A j \in DOMAIN memory[g] \ {i} : memory'[g][j] = memory[g][j]
      /\ \A j \in DOMAIN memory[g] : memory'[g][j].id = e.id => j = i
      /\ \A h \in Gateway : Distinct(memory'[h])
  BY <1>0, MemoryIs
<1>5. Typed'
  BY <1>2 DEF Typed
<1>6. AllSound'
  BY <1>2 DEF AllSound, Sound
<1>7. Employed'
  <2>1. \A h \in Gateway : pc[h] \in Writing => memory'[h] = memory[h]
    BY <1>0, <1>2 DEF Writing
  <2> QED BY <2>1 DEF Employed
<1>8. OneAtATime'
  BY DEF OneAtATime, Busy, Written
<1>9. NothingLost'
  BY DEF NothingLost, Written
<1>10. Knows'
  <2> SUFFICES ASSUME ~damaged, NEW h \in Gateway PROVE Known(h)'
    BY DEF Knows
  <2>1. CASE h # g
    BY <1>2, <2>1, KnownKept, Writers DEF Knows
  <2>2. CASE h = g
    <3> SUFFICES ASSUME NEW m \in Model \ stale[g], due[m] # Gone
                 PROVE  Remembers(g, m)' /\ HasReason(g, m)'
      BY <2>2 DEF Known
    <3>1. Remembers(g, m)
      BY <1>0 DEF Knows, Known
    <3>2. HasReason(g, m)'
      BY <1>0 DEF HasReason, Writing
    <3>3. CASE m # e.id
      BY <1>0, <1>2, <3>1, <3>2, <3>3 DEF Remembers
    <3>4. CASE m = e.id
      <4>1. /\ Engine[m] = "llamacpp" => Fit[m][e.ctx] = e.ctx /\ Fit[m][due[m].ctx] # due[m].ctx
            /\ Engine[m] = "warp" => due[m].auto # "fixed"
        BY <3>4 DEF Justified
      <4>2. Remembers(g, m)'
        BY <1>2, <3>4, <4>1 DEF Remembers
      <4> QED BY <3>2, <4>2
    <3> QED BY <3>3, <3>4
  <2> QED BY <2>1, <2>2
<1> QED BY <1>5, <1>6, <1>7, <1>8, <1>9, <1>10

LEMMA FixContextStep ==
  ASSUME FileInv, NEW g \in Gateway, NEW i \in DOMAIN memory[g], FixContext(g, i)
  PROVE  FileInv'
<1> DEFINE old == memory[g][i]
           e == [old EXCEPT !.ctx = Fit[old.id][old.ctx]]
<1>1. old \in Entry /\ old.id \in Model /\ old.ctx \in Ctx
  BY FileIs, EntryTyped DEF FileInv, Typed
<1>2. pc[g] = "serving" /\ Engine[old.id] = "llamacpp" /\ Fit[old.id][old.ctx] # old.ctx /\ Persist(g, i, e)
  BY DEF FixContext
<1>3. Fit[old.id][old.ctx] \in Ctx /\ Fit[old.id][Fit[old.id][old.ctx]] = Fit[old.id][old.ctx]
  BY <1>1, FitIsStable
<1>4. e \in Entry /\ e.id = old.id /\ e.ctx = Fit[old.id][old.ctx]
  BY <1>1, <1>3 DEF Entry
<1>5. Touched(g, i, e)
  BY <1>2, <1>4 DEF Touched
<1>6. Justified(g, e)
  <2> SUFFICES ASSUME ~damaged, old.id \notin stale[g], due[old.id] # Gone
               PROVE  Fit[old.id][e.ctx] = e.ctx /\ Fit[old.id][due[old.id].ctx] # due[old.id].ctx
    BY <1>2, <1>4 DEF Justified
  <2>1. Remembers(g, old.id)
    BY <1>1 DEF FileInv, Knows, Known
  <2>2. old.ctx = due[old.id].ctx
    BY <1>2, <2>1 DEF Remembers
  <2> QED BY <1>2, <1>3, <1>4, <2>2
<1> HIDE DEF e
<1> QED BY <1>2, <1>5, <1>6, PersistStep

LEMMA PrepareContextStep ==
  ASSUME FileInv, NEW g \in Gateway, NEW i \in DOMAIN memory[g], PrepareContext(g, i)
  PROVE  FileInv'
<1> DEFINE old == memory[g][i]
<1>1. old \in Entry /\ old.id \in Model /\ old.ctx \in Ctx
  BY FileIs, EntryTyped DEF FileInv, Typed
<1>2. pc[g] = "serving" /\ Engine[old.id] = "warp"
  BY DEF PrepareContext
<1>3. PICK c \in IF Automatic(old) THEN Ctx \ {0} ELSE {old.ctx} \ {0} :
        LET planned == [old EXCEPT !.ctx = c, !.auto = IF Automatic(old) THEN "auto" ELSE "fixed"] IN
        /\ planned # old
        /\ \/ Persist(g, i, planned)
           \/ /\ memory' = [memory EXCEPT ![g][i] = planned]
              /\ UNCHANGED <<disk, pc, job, snapshot, jobs, aux>>
  BY DEF PrepareContext
<1> DEFINE e == [old EXCEPT !.ctx = c, !.auto = IF Automatic(old) THEN "auto" ELSE "fixed"]
<1>4. /\ e # old
      /\ \/ Persist(g, i, e)
         \/ memory' = [memory EXCEPT ![g][i] = e] /\ UNCHANGED <<disk, pc, job, snapshot, jobs, aux>>
  BY <1>3
<1>5. e \in Entry /\ e.id = old.id
  <2>1. c \in Ctx
    BY <1>1, <1>3
  <2> QED BY <1>1, <2>1 DEF Entry, Policy
<1>6. Touched(g, i, e)
  BY <1>2, <1>5 DEF Touched
<1>7. old.auto # "fixed"
  <2> SUFFICES ASSUME old.auto = "fixed" PROVE e = old
    BY <1>4
  <2>1. ~Automatic(old)
    BY DEF Automatic
  <2>2. c = old.ctx
    BY <1>3, <2>1
  <2> QED BY <1>1, <2>1, <2>2 DEF Entry
<1>8. Justified(g, e)
  <2> SUFFICES ASSUME ~damaged, old.id \notin stale[g], due[old.id] # Gone
               PROVE  due[old.id].auto # "fixed"
    BY <1>2, <1>5 DEF Justified
  <2>1. Remembers(g, old.id)
    BY <1>1 DEF FileInv, Knows, Known
  <2> QED BY <1>2, <1>7, <2>1 DEF Remembers
<1> HIDE DEF e
<1> QED BY <1>4, <1>6, <1>8, PersistStep, ForgottenStep

(* A command gets its job.                                                 *)
LEMMA JobStep ==
  ASSUME FileInv, NEW c \in Command, NEW j \in Job, j.kind \in {"add", "init"}, pc[c] = "idle",
         pc' = [pc EXCEPT ![c] = "read"], job' = [job EXCEPT ![c] = j],
         jobs' \in [Command -> 0..Jobs], UNCHANGED <<disk, memory, snapshot, aux>>
  PROVE  FileInv'
<1> USE DEF FileInv, disk, aux
<1>4. /\ \A w \in Writer \ {c} : pc'[w] = pc[w] /\ job'[w] = job[w]
      /\ pc'[c] = "read" /\ job'[c] = j
      /\ c \in Writer /\ c \notin Gateway
      /\ pc' \in [Writer -> Places] /\ job' \in [Writer -> Job]
  BY Writers DEF Typed, Places
<1>5. Typed'
  BY <1>4 DEF Typed
<1>6. AllSound'
  BY DEF AllSound, Sound
<1>7. Employed'
  BY <1>4, Writers DEF Employed, Writing
<1>8. OneAtATime'
  <2>1. \A w \in Writer : (Busy(w)' <=> Busy(w) /\ w # c) /\ (pc'[w] \in {"open", "dump"} => pc'[w] = pc[w])
    BY <1>4 DEF Busy
  <2> QED BY <2>1 DEF OneAtATime, Written
<1>9. NothingLost'
  BY <1>4 DEF NothingLost, Written
<1>10. Knows'
  <2> SUFFICES ASSUME ~damaged, NEW h \in Gateway PROVE Known(h)'
    BY DEF Knows
  <2> QED BY <1>4, KnownKept, Writers DEF Knows
<1> QED BY <1>5, <1>6, <1>7, <1>8, <1>9, <1>10

LEMMA InstallStep ==
  ASSUME FileInv, NEW c \in Command, NEW m \in Model, NEW n \in Ctx, Install(c, m, n)
  PROVE  FileInv'
<1> DEFINE policy == IF Engine[m] # "warp" THEN "unset" ELSE IF n = 0 THEN "auto" ELSE "fixed"
           e == [id |-> m, ctx |-> n, auto |-> policy, aliases |-> {}]
           j == [kind |-> "add", entry |-> e]
<1>1. e \in Entry
  BY DEF Entry, Policy
<1>2. j \in Job /\ j.kind = "add"
  BY <1>1 DEF Job, Additions
<1>3. job' = [job EXCEPT ![c] = j] /\ pc[c] = "idle" /\ pc' = [pc EXCEPT ![c] = "read"]
      /\ UNCHANGED <<disk, memory, snapshot, aux>>
  BY DEF Install, Goto
<1>4. jobs' \in [Command -> 0..Jobs]
  BY Contexts DEF Install, FileInv, Typed
<1> HIDE DEF j
<1> QED BY <1>2, <1>3, <1>4, JobStep

LEMMA InitConfigStep == ASSUME FileInv, NEW c \in Command, InitConfig(c) PROVE FileInv'
<1> DEFINE j == [kind |-> "init"]
<1>2. j \in Job /\ j.kind = "init"
  BY DEF Job
<1>3. job' = [job EXCEPT ![c] = j] /\ pc[c] = "idle" /\ pc' = [pc EXCEPT ![c] = "read"]
      /\ UNCHANGED <<disk, memory, snapshot, aux>>
  BY DEF InitConfig, Goto
<1>4. jobs' \in [Command -> 0..Jobs]
  BY Contexts DEF InitConfig, FileInv, Typed
<1> HIDE DEF j
<1> QED BY <1>2, <1>3, <1>4, JobStep

LEMMA ReadStep == ASSUME FileInv, NEW w \in Writer, Read(w) PROVE FileInv'
<1> USE DEF FileInv, disk
<1>1. /\ pc[w] = "read" /\ pc'[w] = "open" /\ snapshot'[w] = file
      /\ \A v \in Writer \ {w} : pc'[v] = pc[v] /\ snapshot'[v] = snapshot[v]
      /\ pc' \in [Writer -> Places] /\ snapshot' \in [Writer -> Seq(Entry)]
      /\ damaged' = (damaged \/ Overlaps(w))
      /\ UNCHANGED <<exists, torn, file, memory, job, jobs, due, stale>>
  BY DEF Read, Goto, Typed, Places, AllSound, Sound
<1>2. Typed'
  BY <1>1 DEF Typed, Overlaps
<1>3. AllSound'
  BY <1>1 DEF AllSound, Sound
<1>4. Employed'
  BY <1>1, Writers DEF Employed, Writing
<1>5. ~damaged' => ~damaged /\ \A v \in Writer : ~Busy(v)
  BY <1>1 DEF Overlaps, Busy
<1>6. OneAtATime'
  BY <1>1, <1>5 DEF OneAtATime, Busy
<1>7. NothingLost'
  BY <1>1, <1>5 DEF NothingLost, Written
<1>8. Knows'
  <2> SUFFICES ASSUME ~damaged', NEW h \in Gateway PROVE Known(h)'
    BY DEF Knows
  <2>1. pc'[h] \in Writing => pc[h] \in Writing
    BY <1>1, Writers DEF Writing
  <2> QED BY <1>1, <1>5, <2>1, KnownKept, Writers DEF Knows
<1> QED BY <1>2, <1>3, <1>4, <1>6, <1>7, <1>8

LEMMA OpenStep == ASSUME FileInv, NEW w \in Writer, Open(w) PROVE FileInv'
<1> USE DEF FileInv, aux
<1>1. /\ pc[w] = "open" /\ pc'[w] = "dump" /\ exists' = TRUE /\ torn' = FALSE /\ file' = <<>>
      /\ \A v \in Writer \ {w} : pc'[v] = pc[v]
      /\ pc' \in [Writer -> Places]
      /\ UNCHANGED <<snapshot, memory, job, jobs, due, stale, damaged>>
  BY DEF Open, Goto, Typed, Places
<1>2. Typed'
  BY <1>1 DEF Typed
<1>3. AllSound'
  BY <1>1, NoFile DEF AllSound, Sound
<1>4. Employed'
  BY <1>1, Writers DEF Employed, Writing
<1>5. OneAtATime'
  <2> SUFFICES ASSUME ~damaged
               PROVE /\ \A u, v \in Writer : Busy(u)' /\ Busy(v)' => u = v
                     /\ \A v \in Writer : pc'[v] = "open" => snapshot'[v] = file'
                     /\ \A v \in Writer : pc'[v] = "dump" => Written(snapshot[v])' = due' /\ file' = <<>> /\ ~torn'
    BY <1>1 DEF OneAtATime
  <2>1. \A v \in Writer : Busy(v) <=> v = w
    BY <1>1 DEF OneAtATime, Busy
  <2>2. \A v \in Writer : Busy(v)' <=> v = w
    BY <1>1, <2>1 DEF Busy
  <2>3. Written(snapshot[w]) = due
    <3>1. \A v \in Writer : pc[v] # "dump"
      BY <1>1, <2>1 DEF Busy
    <3>2. snapshot[w] = file
      BY <1>1 DEF OneAtATime
    <3> QED BY <3>1, <3>2 DEF NothingLost
  <2>4. \A v \in Writer : pc'[v] \in {"open", "dump"} => v = w
    BY <2>2 DEF Busy
  <2> QED BY <1>1, <2>2, <2>3, <2>4 DEF Written
<1>6. NothingLost'
  BY <1>1 DEF NothingLost
<1>7. Knows'
  <2> SUFFICES ASSUME ~damaged, NEW h \in Gateway PROVE Known(h)'
    BY <1>1 DEF Knows
  <2>1. pc'[h] \in Writing => pc[h] \in Writing
    BY <1>1, Writers DEF Writing
  <2> QED BY <1>1, <2>1, KnownKept, Writers DEF Knows
<1> QED BY <1>2, <1>3, <1>4, <1>5, <1>6, <1>7

LEMMA WithContextTyped ==
  ASSUME NEW old \in Entry, NEW e \in Entry
  PROVE  /\ WithContext(old, e) \in Entry /\ WithContext(old, e) # Gone
         /\ WithContext(old, e).ctx = e.ctx
         /\ WithContext(old, e).auto = IF Engine[e.id] = "warp" THEN e.auto ELSE old.auto
<1>1. WithContext(old, e) \in Entry
  BY EntryTyped DEF WithContext, Entry
<1> QED BY <1>1, EntryTyped DEF WithContext, Entry

LEMMA MeantTyped ==
  ASSUME Typed, NEW s, Sound(s), NEW j \in Job, j.kind # "none"
  PROVE  Meant(j, Content(j, s)) \in [Model -> Entry \cup {Gone}]
<1>0. j \in [kind : {"init"}] \cup Additions \cup Corrections
  BY DEF Job, NoJob
<1>1. CASE j \in [kind : {"init"}]
  <2>1. j.kind = "init"
    BY <1>1
  <2>2. Meant(j, Content(j, s)) = Written(Picks)
    BY <2>1 DEF Content, Meant
  <2>3. \A m \in Ids(Picks) : Named(Picks, m) \in Entry
    BY NamedIs, PicksAreEntries
  <2> QED BY <2>2, <2>3 DEF Written
<1>2. CASE j \in Additions
  <2>1. j.kind = "add" /\ j.entry \in Entry /\ j.entry.id \in Model
    BY <1>2, EntryTyped DEF Additions
  <2> DEFINE c == Content(j, s)
  <2>2. c = Added(j.entry, s) /\ c \in Seq(Entry)
    BY <2>1, AddedIs DEF Content, Sound
  <2>3. Meant(j, c) = [due EXCEPT ![j.entry.id] = [j.entry EXCEPT !.aliases = Named(c, j.entry.id).aliases]]
    BY <2>1 DEF Meant
  <2> HIDE DEF c
  <2>4. j.entry.id \in Ids(c)
    <3>1. Written(c)[j.entry.id] = [j.entry EXCEPT !.aliases = Named(c, j.entry.id).aliases]
      BY <2>1, <2>2, AddedIs, WrittenIs DEF Sound
    <3>2. "ctx" \in DOMAIN [j.entry EXCEPT !.aliases = Named(c, j.entry.id).aliases] /\ "ctx" \notin DOMAIN Gone
      BY <2>1 DEF Entry, Gone
    <3> QED BY <2>1, <2>2, <3>1, <3>2, WrittenIs
  <2>5. Named(c, j.entry.id).aliases \in SUBSET Name
    BY <2>2, <2>4, NamedIs, EntryTyped
  <2>6. [j.entry EXCEPT !.aliases = Named(c, j.entry.id).aliases] \in Entry
    BY <2>1, <2>5 DEF Entry
  <2>7. Meant(j, c) \in [Model -> Entry \cup {Gone}]
    BY <2>1, <2>3, <2>6 DEF Typed
  <2> QED BY <2>7 DEF c
<1>3. CASE j \in Corrections
  <2>1. j.kind = "correct" /\ j.entry \in Entry /\ j.entry.id \in Model
    BY <1>3, EntryTyped DEF Corrections
  <2>2. Meant(j, Content(j, s)) =
          IF due[j.entry.id] = Gone THEN due
          ELSE [due EXCEPT ![j.entry.id] = WithContext(due[j.entry.id], j.entry)]
    BY <2>1 DEF Meant
  <2>3. due[j.entry.id] # Gone => WithContext(due[j.entry.id], j.entry) \in Entry
    BY <2>1, WithContextTyped DEF Typed
  <2> QED BY <2>1, <2>2, <2>3 DEF Typed
<1> QED BY <1>0, <1>1, <1>2, <1>3

(* What is due of a model a job is not for stays due.                      *)
LEMMA MeantElsewhere ==
  ASSUME Typed, NEW j \in Job, j.kind # "none", NEW c, NEW m \in Model, m \notin Concerns(j)
  PROVE  Meant(j, c)[m] = due[m]
<1>0. j.kind \in {"init", "add", "correct"}
  BY DEF Job, NoJob, Additions, Corrections
<1>1. j.kind # "init" /\ m # j.entry.id
  BY DEF Concerns
<1> QED BY <1>0, <1>1 DEF Meant, Typed

LEMMA Rested ==
  ASSUME FileInv, NEW w \in Writer, NEW p \in Places \ Writing, w \in Command => p = "idle", Goto(w, p), Forget(w)
  PROVE  /\ pc'[w] = p /\ job'[w] = NoJob /\ snapshot'[w] = <<>>
         /\ \A v \in Writer \ {w} : pc'[v] = pc[v] /\ job'[v] = job[v] /\ snapshot'[v] = snapshot[v]
         /\ pc' \in [Writer -> Places] /\ job' \in [Writer -> Job] /\ snapshot' \in [Writer -> Seq(Entry)]
         /\ \A v \in Writer : Sound(snapshot[v])'
         /\ \A v \in Writer : pc'[v] \in Writing => v # w /\ pc[v] \in Writing
<1>1. NoJob \in Job
  BY DEF Job
<1>2. /\ pc'[w] = p /\ job'[w] = NoJob /\ snapshot'[w] = <<>>
      /\ \A v \in Writer \ {w} : pc'[v] = pc[v] /\ job'[v] = job[v] /\ snapshot'[v] = snapshot[v]
      /\ pc' \in [Writer -> Places] /\ job' \in [Writer -> Job] /\ snapshot' \in [Writer -> Seq(Entry)]
  BY <1>1, NoFile DEF Goto, Forget, FileInv, Typed
<1>3. \A v \in Writer : Sound(snapshot[v])'
  BY <1>2, NoFile DEF FileInv, AllSound, Sound
<1> QED BY <1>2, <1>3

(* A writer that rests is none; memory may be forgotten with it.           *)
LEMMA EmployedKept ==
  ASSUME FileInv, NEW w \in Writer, NEW p \in Places \ Writing, w \in Command => p = "idle", Goto(w, p), Forget(w),
         \A g \in Gateway \ {w} : memory'[g] = memory[g]
  PROVE  Employed'
<1>1. /\ pc'[w] = p /\ job'[w] = NoJob
      /\ \A v \in Writer \ {w} : pc'[v] = pc[v] /\ job'[v] = job[v]
  BY Rested
<1>2. NoJob.kind = "none" /\ p \notin Writing
  BY DEF NoJob
<1>3. \A v \in Writer : pc'[v] \in Writing <=> job'[v].kind # "none"
  BY <1>1, <1>2 DEF FileInv, Employed
<1>4. ASSUME NEW g \in Gateway, pc'[g] \in Writing
      PROVE  /\ job'[g] \in Corrections
             /\ Engine[job'[g].entry.id] \in {"llamacpp", "warp"}
             /\ \E i \in DOMAIN memory'[g] : memory'[g][i] = job'[g].entry
  <2>1. g # w /\ g \in Writer
    BY <1>1, <1>2, <1>4, Writers
  <2> QED BY <1>1, <1>4, <2>1 DEF FileInv, Employed
<1>5. \A c \in Command : job'[c].kind # "correct" /\ pc'[c] # "serving"
  BY <1>1, <1>2, Writers DEF FileInv, Employed
<1> QED BY <1>3, <1>4, <1>5 DEF Employed

LEMMA RestingIs ==
  ASSUME NEW w \in Writer
  PROVE  Resting(w) \in Places \ Writing /\ (w \in Command => Resting(w) = "idle")
BY Writers DEF Resting, Places, Writing

LEMMA DumpStep == ASSUME FileInv, NEW w \in Writer, Dump(w) PROVE FileInv'
<1> USE DEF FileInv
<1> DEFINE j == job[w]
           content == Content(j, snapshot[w])
<1>1. /\ pc[w] = "dump" /\ file' = content
      /\ torn' \in IF file = <<>> /\ ~torn THEN {FALSE} ELSE BOOLEAN
      /\ due' = Meant(j, content)
      /\ stale' = [g \in Gateway |-> stale[g] \cup (IF g = w THEN {} ELSE Concerns(j))]
      /\ Goto(w, Resting(w)) /\ Forget(w)
      /\ UNCHANGED <<exists, memory, jobs, damaged>>
  BY DEF Dump
<1>2. j \in Job /\ j.kind # "none" /\ Sound(snapshot[w])
  BY <1>1 DEF Typed, Employed, Writing, AllSound
<1>3. Sound(content) /\ due' \in [Model -> Entry \cup {Gone}]
  BY <1>1, <1>2, ContentIs, MeantTyped
<1>4. /\ pc'[w] = Resting(w) /\ job'[w] = NoJob /\ snapshot'[w] = <<>>
      /\ \A v \in Writer \ {w} : pc'[v] = pc[v] /\ job'[v] = job[v] /\ snapshot'[v] = snapshot[v]
      /\ pc' \in [Writer -> Places] /\ job' \in [Writer -> Job] /\ snapshot' \in [Writer -> Seq(Entry)]
      /\ \A v \in Writer : Sound(snapshot[v])'
      /\ \A v \in Writer : pc'[v] \in Writing => v # w /\ pc[v] \in Writing
  BY <1>1, Rested, RestingIs
<1>5. Typed'
  <2>1. Concerns(j) \subseteq Model
    <3>1. j.kind = "init" \/ j.entry.id \in Model
      BY <1>2, EntryTyped DEF Job, NoJob, Additions, Corrections
    <3> QED BY <3>1 DEF Concerns
  <2>2. stale' \in [Gateway -> SUBSET Model]
    BY <1>1, <2>1 DEF Typed
  <2>3. torn' \in BOOLEAN
    BY <1>1
  <2> QED BY <1>1, <1>3, <1>4, <2>2, <2>3 DEF Typed
<1>6. AllSound'
  BY <1>1, <1>3, <1>4 DEF AllSound, Sound
<1>7. Employed'
  BY <1>1, RestingIs, EmployedKept
<1>8. OneAtATime'
  <2> SUFFICES ASSUME ~damaged PROVE \A v \in Writer : pc'[v] \notin {"open", "dump"}
    BY <1>1 DEF OneAtATime, Busy
  <2>1. \A v \in Writer \ {w} : ~Busy(v)
    BY <1>1 DEF OneAtATime, Busy
  <2> QED BY <1>4, <2>1 DEF Busy, Writing
<1>9. NothingLost'
  <2> SUFFICES ASSUME ~damaged PROVE ~torn' /\ Written(file)' = due'
    BY <1>1 DEF NothingLost
  <2>1. Written(snapshot[w]) = due /\ file = <<>> /\ ~torn
    BY <1>1 DEF OneAtATime
  <2>2. Written(content) = Meant(j, content)
    BY <1>2, <2>1, ContentIs
  <2> QED BY <1>1, <2>1, <2>2 DEF Written
<1> HIDE DEF content
<1>10. Knows'
  <2> SUFFICES ASSUME ~damaged, NEW h \in Gateway, NEW m \in Model \ stale'[h], due'[m] # Gone
               PROVE  Remembers(h, m)' /\ HasReason(h, m)'
    BY <1>1 DEF Knows, Known
  <2>0. m \notin stale[h] /\ memory' = memory /\ (h # w => m \notin Concerns(j)) /\ h \in Writer
    BY <1>1, Writers DEF Typed
  <2>a. due[m] # Gone => Remembers(h, m) /\ HasReason(h, m)
    BY <2>0 DEF Knows, Known
  <2>1. CASE m \notin Concerns(j)
    <3>1. due'[m] = due[m]
      BY <1>1, <1>2, <2>1, MeantElsewhere
    <3>2. pc'[h] \in Writing => pc[h] \in Writing /\ job'[h] = job[h]
      BY <1>4, <2>0
    <3> QED BY <2>0, <2>a, <3>1, <3>2 DEF Remembers, HasReason
  <2>2. CASE m \in Concerns(j)
    <3>1. h = w
      BY <2>0, <2>2
    <3>2. /\ j \in Corrections /\ j.kind = "correct" /\ j.entry \in Entry
          /\ \E i \in DOMAIN memory[h] : memory[h][i] = j.entry
      BY <1>1, <3>1 DEF Employed, Writing, Corrections
    <3>3. m = j.entry.id
      BY <2>2, <3>2 DEF Concerns
    <3>4. due' = IF due[m] = Gone THEN due ELSE [due EXCEPT ![m] = WithContext(due[m], j.entry)]
      BY <1>1, <3>2, <3>3 DEF Meant
    <3>5. due[m] \in Entry /\ due'[m] = WithContext(due[m], j.entry)
      BY <3>4 DEF Typed
    <3>6. due'[m].ctx = j.entry.ctx /\ (Engine[m] = "warp" => due'[m].auto = j.entry.auto)
      <4> HIDE DEF j
      <4>1. /\ WithContext(due[m], j.entry).ctx = j.entry.ctx
            /\ WithContext(due[m], j.entry).auto = IF Engine[m] = "warp" THEN j.entry.auto ELSE due[m].auto
        BY <3>2, <3>3, <3>5, WithContextTyped
      <4> QED BY <3>5, <4>1
    <3>7. \A i \in DOMAIN memory[h] : memory[h][i].id = m => memory[h][i] = j.entry
      BY <3>2, <3>3 DEF AllSound, Distinct
    <3>8. Remembers(h, m)'
      <4> SUFFICES ASSUME NEW i \in DOMAIN memory[h], memory[h][i].id = m
                   PROVE  /\ Engine[m] = "llamacpp" => memory[h][i].ctx = due'[m].ctx
                          /\ Engine[m] = "warp" => due'[m].auto # "fixed" \/ memory[h][i].auto = "fixed"
        BY <2>0 DEF Remembers
      <4>1. memory[h][i] = j.entry
        BY <3>7
      <4> HIDE DEF j
      <4> QED BY <3>6, <4>1
    <3>9. HasReason(h, m)'
      BY <1>4, <3>1, RestingIs DEF HasReason
    <3> QED BY <3>8, <3>9
  <2> QED BY <2>1, <2>2
<1> QED BY <1>5, <1>6, <1>7, <1>8, <1>9, <1>10

(* A writer gives up or is killed.                                         *)
LEMMA AbandonStep ==
  ASSUME FileInv, NEW w \in Writer, pc[w] \in Writing,
         NEW p \in Places \ Writing, w \in Command => p = "idle", Goto(w, p), Forget(w),
         damaged' = (damaged \/ pc[w] = "dump"), UNCHANGED <<disk, jobs, due, stale>>,
         memory' = memory \/ (w \in Gateway /\ memory' = [memory EXCEPT ![w] = <<>>])
  PROVE  FileInv'
<1> USE DEF FileInv, disk
<1>1. /\ memory' \in [Gateway -> Seq(Entry)]
      /\ \A g \in Gateway \ {w} : memory'[g] = memory[g]
      /\ \A g \in Gateway : memory'[g] \in {memory[g], <<>>}
  BY NoFile DEF Typed
<1>4. /\ pc'[w] = p
      /\ \A v \in Writer \ {w} : pc'[v] = pc[v] /\ job'[v] = job[v] /\ snapshot'[v] = snapshot[v]
      /\ pc' \in [Writer -> Places] /\ job' \in [Writer -> Job] /\ snapshot' \in [Writer -> Seq(Entry)]
      /\ \A v \in Writer : Sound(snapshot[v])'
      /\ \A v \in Writer : pc'[v] \in Writing => v # w /\ pc[v] \in Writing
  BY Rested
<1>5. Typed'
  <2>1. damaged' \in BOOLEAN
    BY DEF Typed
  <2> QED BY <1>1, <1>4, <2>1 DEF Typed
<1>6. AllSound'
  <2>1. \A g \in Gateway : Distinct(memory'[g])
    BY <1>1, NoFile DEF AllSound
  <2> QED BY <1>4, <2>1 DEF AllSound, Sound
<1>7. Employed'
  BY <1>1, EmployedKept
<1>a. ~damaged' => ~damaged /\ pc[w] # "dump"
  OBVIOUS
<1>8. OneAtATime'
  <2>1. \A v \in Writer : pc'[v] \in {"open", "dump"} => v # w /\ pc[v] = pc'[v]
    BY <1>4 DEF Writing
  <2>2. \A v \in Writer : v # w => Written(snapshot[v])' = Written(snapshot[v])
    BY <1>4 DEF Written
  <2>3. \A v \in Writer : Busy(v)' => Busy(v)
    BY <2>1 DEF Busy
  <2> QED BY <1>4, <1>a, <2>1, <2>2, <2>3 DEF OneAtATime
<1>9. NothingLost'
  <2>1. ~damaged' /\ (\A v \in Writer : pc'[v] # "dump") => \A v \in Writer : pc[v] # "dump"
    BY <1>4, <1>a
  <2> QED BY <1>a, <2>1 DEF NothingLost, Written
<1>10. Knows'
  <2> SUFFICES ASSUME ~damaged, NEW h \in Gateway PROVE Known(h)'
    BY <1>a DEF Knows
  <2>0. h \in Writer /\ Known(h) /\ (pc'[h] \in Writing => h # w /\ pc[h] \in Writing /\ job'[h] = job[h])
    BY <1>4, Writers DEF Knows
  <2>1. CASE memory'[h] = memory[h]
    BY <2>0, <2>1, KnownKept
  <2>2. CASE memory'[h] = <<>> /\ h = w
    BY <2>0, <2>2, NoFile DEF Known, Remembers, HasReason
  <2> QED BY <1>1, <2>1, <2>2
<1> QED BY <1>5, <1>6, <1>7, <1>8, <1>9, <1>10

LEMMA FileStep == FileInv /\ [Next]_vars => FileInv'
<1> SUFFICES ASSUME FileInv, [Next]_vars PROVE FileInv'
  OBVIOUS
<1>1. ASSUME NEW g \in Gateway, Serve(g) PROVE FileInv'
  BY <1>1, ServeStep
<1>2. ASSUME NEW g \in Gateway, Quit(g) PROVE FileInv'
  BY <1>2, QuitStep
<1>3. ASSUME NEW g \in Gateway, Kill(g) PROVE FileInv'
  <2>1. g \in Writer /\ g \notin Command /\ "idle" \in Places \ Writing
    BY Writers DEF Places, Writing
  <2>2. pc[g] \in Writing
    BY <1>3 DEF Kill, Writing
  <2> QED BY <1>3, <2>1, <2>2, AbandonStep DEF Kill
<1>4. ASSUME NEW g \in Gateway, NEW i \in DOMAIN memory[g], FixContext(g, i) PROVE FileInv'
  BY <1>4, FixContextStep
<1>5. ASSUME NEW g \in Gateway, NEW i \in DOMAIN memory[g], PrepareContext(g, i) PROVE FileInv'
  BY <1>5, PrepareContextStep
<1>6. ASSUME NEW c \in Command, InitConfig(c) PROVE FileInv'
  BY <1>6, InitConfigStep
<1>7. ASSUME NEW c \in Command, NEW m \in Model, NEW n \in Ctx, Install(c, m, n) PROVE FileInv'
  BY <1>7, InstallStep
<1>8. ASSUME NEW w \in Writer, Read(w) PROVE FileInv'
  BY <1>8, ReadStep
<1>9. ASSUME NEW w \in Writer, Open(w) PROVE FileInv'
  BY <1>9, OpenStep
<1>10. ASSUME NEW w \in Writer, Dump(w) PROVE FileInv'
  BY <1>10, DumpStep
<1>11. ASSUME NEW w \in Writer, GiveUp(w) PROVE FileInv'
  <2>1. pc[w] \in Writing
    BY <1>11 DEF GiveUp, Writing
  <2>2. memory' = memory /\ UNCHANGED <<disk, jobs, due, stale>>
    BY <1>11 DEF GiveUp
  <2> QED BY <1>11, <2>1, <2>2, RestingIs, AbandonStep DEF GiveUp
<1>12. CASE UNCHANGED vars
  BY <1>12 DEF vars, disk, aux, FileInv, Typed, AllSound, Sound, Employed, OneAtATime, Busy, NothingLost,
               Written, Knows, Known, Remembers, HasReason
<1> QED BY <1>1, <1>2, <1>3, <1>4, <1>5, <1>6, <1>7, <1>8, <1>9, <1>10, <1>11, <1>12 DEF Next

-------------------------------------------------------------------------------
(* Which aliases are another model's id.                                   *)

ClearOf(s, taken) ==
  \A i, j \in DOMAIN s : s[i].id # s[j].id /\ s[i].id \in s[j].aliases => {s[i].id, s[j].id} \cap taken # {}

AllClear == ClearOf(file, clashes) /\ \A w \in Writer : ClearOf(snapshot[w], clashes)

LEMMA ClearMore ==
  ASSUME NEW s, NEW taken, NEW more, ClearOf(s, taken), taken \subseteq more
  PROVE  ClearOf(s, more)
BY DEF ClearOf

LEMMA ClearNone == \A taken : ClearOf(<<>>, taken)
BY NoFile DEF ClearOf

LEMMA ValidIsClear == \A s, taken : Valid(s) => ClearOf(s, taken)
BY DEF Valid, Labels, ClearOf

(* A model that is added over a name in use is known for it.               *)
LEMMA AddedClear ==
  ASSUME NEW s, Sound(s), NEW j \in Additions, NEW taken, ClearOf(s, taken)
  PROVE  ClearOf(Added(j.entry, s), taken \cup Takes(j, s))
<1> DEFINE e == j.entry
           m == e.id
           o == Others(m, s)
           f == [e EXCEPT !.aliases = AliasesFor(m, s)]
           a == Append(o, f)
           more == taken \cup Takes(j, s)
<1>0. s \in Seq(Entry) /\ e \in Entry /\ m \in Model
  BY EntryTyped DEF Sound, Additions
<1>1. Added(e, s) = a
  BY DEF Added
<1>2. /\ o \in Seq(Entry) /\ DOMAIN o = 1..Len(o) /\ Len(o) \in Nat
      /\ \A i \in DOMAIN o : o[i].id # m /\ \E k \in DOMAIN s : o[i] = s[k]
  BY <1>0, OthersIs, LenProperties
<1>3. AliasesFor(m, s) \in SUBSET Name
  BY <1>0, NamedIs, EntryTyped, Contexts DEF AliasesFor
<1>4. f \in Entry /\ f.id = m /\ f.aliases = AliasesFor(m, s)
  BY <1>0, <1>3 DEF Entry
<1>5. ASSUME NEW i \in DOMAIN o, m \in o[i].aliases \/ o[i].id \in AliasesFor(m, s)
      PROVE  m \in more
  <2>1. PICK k \in DOMAIN s : o[i] = s[k] /\ s[k].id # m
    BY <1>2
  <2> QED BY <1>5, <2>1 DEF Takes
<1> HIDE DEF o, f, m, more
<1>6. /\ DOMAIN a = DOMAIN o \cup {Len(o) + 1} /\ Len(o) + 1 \notin DOMAIN o
      /\ \A i \in DOMAIN o : a[i] = o[i]
      /\ a[Len(o) + 1] = f
  <2>1. a \in Seq(Entry) /\ Len(a) = Len(o) + 1 /\ (\A i \in 1..Len(o) : a[i] = o[i]) /\ a[Len(o) + 1] = f
    BY <1>2, <1>4, AppendProperties
  <2>2. DOMAIN a = 1..(Len(o) + 1)
    BY <2>1, LenProperties
  <2> QED BY <1>2, <2>1, <2>2
<1> HIDE DEF a
<1>7. ASSUME NEW i \in DOMAIN o, NEW k \in DOMAIN o, o[i].id # o[k].id, o[i].id \in o[k].aliases
      PROVE  {o[i].id, o[k].id} \cap more # {}
  <2>1. PICK x \in DOMAIN s, y \in DOMAIN s : o[i] = s[x] /\ o[k] = s[y]
    BY <1>2
  <2>2. {s[x].id, s[y].id} \cap taken # {}
    BY <1>7, <2>1 DEF ClearOf
  <2> QED BY <2>1, <2>2 DEF more
<1>8. ClearOf(a, more)
  <2> SUFFICES ASSUME NEW i \in DOMAIN a, NEW k \in DOMAIN a, a[i].id # a[k].id, a[i].id \in a[k].aliases
               PROVE  {a[i].id, a[k].id} \cap more # {}
    BY DEF ClearOf
  <2>1. CASE i \in DOMAIN o /\ k \in DOMAIN o
    BY <1>6, <1>7, <2>1
  <2>2. CASE i \in DOMAIN o /\ k = Len(o) + 1
    BY <1>4, <1>5, <1>6, <2>2
  <2>3. CASE i = Len(o) + 1 /\ k \in DOMAIN o
    BY <1>4, <1>5, <1>6, <2>3
  <2>4. CASE i = Len(o) + 1 /\ k = Len(o) + 1
    BY <2>4
  <2> QED BY <1>6, <2>1, <2>2, <2>3, <2>4
<1> QED BY <1>1, <1>8 DEF more, a, o, f, m

LEMMA CorrectedClear ==
  ASSUME NEW s, Sound(s), NEW e \in Entry, NEW taken, ClearOf(s, taken)
  PROVE  ClearOf(Corrected(e, s), taken)
<1>1. CASE e.id \notin Ids(s)
  BY <1>1 DEF Corrected
<1>2. CASE e.id \in Ids(s)
  <2> DEFINE k == Place(s, e.id)
             f == WithContext(s[k], e)
             c == [s EXCEPT ![k] = f]
  <2>1. s \in Seq(Entry) /\ k \in DOMAIN s /\ s[k] \in Entry
    BY <1>2, FirstIs, FileIs DEF Sound
  <2>2. Corrected(e, s) = c
    BY <1>2 DEF Corrected
  <2>3. f.id = s[k].id /\ f.aliases = s[k].aliases
    BY <2>1 DEF Entry, WithContext
  <2> HIDE DEF f, k
  <2>4. DOMAIN c = DOMAIN s /\ \A i \in DOMAIN s : c[i].id = s[i].id /\ c[i].aliases = s[i].aliases
    BY <2>1, <2>3
  <2> HIDE DEF c
  <2> QED BY <2>2, <2>4 DEF ClearOf
<1> QED BY <1>1, <1>2

LEMMA DumpClear == ASSUME FileInv, AllClear, NEW w \in Writer, Dump(w) PROVE AllClear'
<1> DEFINE j == job[w]
           s == snapshot[w]
<1>1. /\ pc[w] = "dump" /\ file' = Content(j, s) /\ snapshot' = [snapshot EXCEPT ![w] = <<>>]
      /\ clashes' = clashes \cup IF j.kind = "add" THEN Takes(j, s) ELSE {}
  BY DEF Dump, Forget
<1>2. j \in Job /\ j.kind # "none" /\ Sound(s) /\ ClearOf(s, clashes)
  BY <1>1 DEF FileInv, Typed, Employed, Writing, AllSound, AllClear
<1>3. j \in [kind : {"init"}] \cup Additions \cup Corrections
  BY <1>2 DEF Job, NoJob
<1> HIDE DEF j, s
<1>4. ClearOf(Content(j, s), clashes')
  <2>1. CASE j \in [kind : {"init"}]
    <3>1. Content(j, s) = Picks
      BY <2>1 DEF Content
    <3> QED BY <3>1, PicksAreEntries, ValidIsClear
  <2>2. CASE j \in Additions
    <3>1. j.kind = "add" /\ Content(j, s) = Added(j.entry, s)
      BY <2>2 DEF Additions, Content
    <3>2. clashes' = clashes \cup Takes(j, s)
      BY <1>1, <3>1
    <3> QED BY <1>2, <2>2, <3>1, <3>2, AddedClear
  <2>3. CASE j \in Corrections
    <3>1. j.kind = "correct" /\ j.entry \in Entry
      BY <2>3 DEF Corrections
    <3>2. Content(j, s) = Corrected(j.entry, s)
      BY <3>1 DEF Content
    <3>3. clashes' = clashes
      BY <1>1, <3>1
    <3> QED BY <1>2, <3>1, <3>2, <3>3, CorrectedClear
  <2> QED BY <1>3, <2>1, <2>2, <2>3
<1>5. clashes \subseteq clashes'
  BY <1>1
<1>6. \A v \in Writer : ClearOf(snapshot'[v], clashes')
  <2> TAKE v \in Writer
  <2>1. CASE v = w
    <3>1. snapshot'[v] = <<>>
      BY <1>1, <2>1 DEF FileInv, Typed
    <3> QED BY <3>1, ClearNone
  <2>2. CASE v # w
    <3>1. snapshot'[v] = snapshot[v] /\ ClearOf(snapshot[v], clashes)
      BY <1>1, <2>2 DEF FileInv, Typed, AllClear
    <3> QED BY <1>5, <3>1, ClearMore
  <2> QED BY <2>1, <2>2
<1> QED BY <1>1, <1>4, <1>6 DEF AllClear

LEMMA ClearStep == FileInv /\ AllClear /\ [Next]_vars => AllClear'
<1> SUFFICES ASSUME FileInv, AllClear, [Next]_vars PROVE AllClear'
  OBVIOUS
<1>1. ASSUME NEW w \in Writer, Dump(w) PROVE AllClear'
  BY <1>1, DumpClear
<1>2. ASSUME UNCHANGED <<file, clashes>>, \A v \in Writer : snapshot'[v] \in {snapshot[v], file, <<>>} PROVE AllClear'
  <2>1. \A v \in Writer : ClearOf(snapshot'[v], clashes)
    BY <1>2, ClearNone DEF AllClear
  <2> QED BY <1>2, <2>1 DEF AllClear
<1>3. ASSUME NEW w \in Writer, Read(w) \/ GiveUp(w) PROVE AllClear'
  <2>1. /\ UNCHANGED <<file, clashes>>
        /\ snapshot' = [snapshot EXCEPT ![w] = file] \/ snapshot' = [snapshot EXCEPT ![w] = <<>>]
    BY <1>3 DEF Read, GiveUp, Forget, disk
  <2>2. \A v \in Writer : snapshot'[v] \in {snapshot[v], file, <<>>}
    BY <2>1 DEF FileInv, Typed
  <2> QED BY <1>2, <2>1, <2>2
<1>4. ASSUME NEW g \in Gateway, Kill(g) PROVE AllClear'
  <2>1. UNCHANGED <<file, clashes>> /\ snapshot' = [snapshot EXCEPT ![g] = <<>>]
    BY <1>4 DEF Kill, Forget, disk
  <2>2. \A v \in Writer : snapshot'[v] \in {snapshot[v], file, <<>>}
    BY <2>1 DEF FileInv, Typed
  <2> QED BY <1>2, <2>1, <2>2
<1>5. ASSUME NEW w \in Writer, Open(w) PROVE AllClear'
  <2>1. file' = <<>> /\ UNCHANGED <<clashes, snapshot>>
    BY <1>5 DEF Open, aux
  <2> QED BY <2>1, ClearNone DEF AllClear
<1>6. ASSUME NEW g \in Gateway,
             \/ Serve(g) \/ Quit(g)
             \/ \E i \in DOMAIN memory[g] : FixContext(g, i) \/ PrepareContext(g, i)
      PROVE  AllClear'
  <2>1. UNCHANGED <<file, clashes, snapshot>>
    BY <1>6 DEF Serve, Quit, FixContext, PrepareContext, Persist, disk, aux
  <2> QED BY <1>2, <2>1
<1>7. ASSUME NEW c \in Command, InitConfig(c) \/ \E m \in Model, n \in Ctx : Install(c, m, n) PROVE AllClear'
  <2>1. UNCHANGED <<file, clashes, snapshot>>
    BY <1>7 DEF InitConfig, Install, disk, aux
  <2> QED BY <1>2, <2>1
<1>8. CASE UNCHANGED vars
  BY <1>2, <1>8 DEF vars, disk, aux
<1> QED BY <1>1, <1>3, <1>4, <1>5, <1>6, <1>7, <1>8 DEF Next

(* What is known at every moment of the file, its writers and what they    *)
(* have read, for any numbers of them.                                     *)
THEOREM FileSafe == Spec => [](FileInv /\ AllClear)
<1>1. Init => AllClear
  <2> SUFFICES ASSUME Init PROVE AllClear
    OBVIOUS
  <2>1. Valid(file)
    <3>1. CASE exists
      BY <3>1 DEF Init
    <3>2. CASE ~exists
      <4>1. file = <<>>
        BY <3>2 DEF Init
      <4> QED BY <4>1, NoFile DEF Valid
    <3> QED BY <3>1, <3>2
  <2>2. \A w \in Writer : snapshot[w] = <<>>
    BY DEF Init
  <2> QED BY <2>1, <2>2, ValidIsClear, ClearNone DEF AllClear
<1> QED BY <1>1, FileInit, FileStep, ClearStep, PTL DEF Spec

(* However the writers overlap, models.yaml has each model once and no     *)
(* alias twice; only a model that add_model_to_config itself put over a    *)
(* name in use can make load_config refuse it (_unique_ids).               *)
THEOREM ValidSafe == Spec => []FileValid
<1>1. FileInv /\ AllClear => FileValid
  BY DEF FileInv, AllSound, Sound, Apart, AllClear, ClearOf, FileValid
<1> QED BY <1>1, FileSafe, PTL

(* As long as no two writers overlap and none stops between emptying the   *)
(* file and writing it, every model has the entry last written for it      *)
(* (add_model_to_config, Gateway._persist_ctx, litmoe init).               *)
THEOREM LosesNothing == Spec => []NothingLost
<1>1. FileInv => NothingLost
  BY DEF FileInv
<1> QED BY <1>1, FileSafe, PTL

LEMMA OnlyDumpsDue == ASSUME Next, due' # due PROVE \E w \in Writer : Dump(w)
<1> USE DEF aux
<1>1. ASSUME NEW g \in Gateway, Serve(g) \/ Quit(g) \/ Kill(g) PROVE FALSE
  BY <1>1 DEF Serve, Quit, Kill
<1>2. ASSUME NEW g \in Gateway, NEW i \in DOMAIN memory[g], FixContext(g, i) PROVE FALSE
  BY <1>2 DEF FixContext, Persist
<1>3. ASSUME NEW g \in Gateway, NEW i \in DOMAIN memory[g], PrepareContext(g, i) PROVE FALSE
  BY <1>3 DEF PrepareContext, Persist
<1>4. ASSUME NEW c \in Command, InitConfig(c) PROVE FALSE
  BY <1>4 DEF InitConfig
<1>5. ASSUME NEW c \in Command, NEW m \in Model, NEW n \in Ctx, Install(c, m, n) PROVE FALSE
  BY <1>5 DEF Install
<1>6. ASSUME NEW w \in Writer, Read(w) \/ Open(w) \/ GiveUp(w) PROVE FALSE
  BY <1>6 DEF Read, Open, GiveUp
<1> QED BY <1>1, <1>2, <1>3, <1>4, <1>5, <1>6 DEF Next

(* A gateway corrects a context only if what is due does not fit, and a    *)
(* WARP entry only if its policy is not fixed, if nobody else has written  *)
(* the model since it read it (Gateway._fix_context, _prepare_context).    *)
THEOREM CorrectionsSafe == Spec => OnlyBadValuesChange
<1> DEFINE A == \A g \in Gateway, m \in Model : ~damaged /\ m \notin stale[g] => OnlyBadValues(g, m)
<1>1. FileInv /\ [Next]_vars => [A]_vars
  <2> SUFFICES ASSUME FileInv, Next, NEW g \in Gateway, NEW m \in Model, ~damaged, m \notin stale[g], Corrects(g, m)
               PROVE  CASE Engine[m] = "llamacpp" -> Fit[m][due[m].ctx] # due[m].ctx
                        [] Engine[m] = "warp" -> due[m].auto # "fixed"
    BY DEF OnlyBadValues
  <2>1. pc[g] = "dump" /\ pc'[g] # "dump" /\ due'[m] # due[m] /\ g \in Writer
    BY Writers DEF Corrects
  <2>2. Dump(g)
    <3>1. ASSUME NEW w \in Writer, Dump(w) PROVE w = g
      BY <2>1, <3>1 DEF Dump, Goto, FileInv, Typed
    <3>2. \E w \in Writer : Dump(w)
      BY <2>1, OnlyDumpsDue
    <3> QED BY <3>1, <3>2
  <2>3. job[g] \in Corrections /\ job[g].kind = "correct" /\ Engine[job[g].entry.id] \in {"llamacpp", "warp"}
    BY <2>1 DEF FileInv, Employed, Writing, Corrections
  <2>4. m = job[g].entry.id
    <3>1. job[g] \in Job /\ job[g].kind # "none" /\ due' = Meant(job[g], Content(job[g], snapshot[g]))
      BY <2>1, <2>2, <2>3 DEF Dump, FileInv, Typed
    <3>2. m \in Concerns(job[g])
      BY <2>1, <3>1, MeantElsewhere DEF FileInv
    <3> QED BY <2>3, <3>2 DEF Concerns
  <2>5. due[m] # Gone
    BY <2>1, <2>2, <2>3, <2>4 DEF Dump, Meant
  <2>6. HasReason(g, m)
    BY <2>5 DEF FileInv, Knows, Known
  <2> QED BY <2>1, <2>3, <2>4, <2>6 DEF HasReason, Writing
<1> QED BY <1>1, FileSafe, PTL DEF Spec, OnlyBadValuesChange
===============================================================================
