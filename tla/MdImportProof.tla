---------------------------- MODULE MdImportProof ----------------------------
(***************************************************************************)
(* Theorems about MdImport, for documents of any length.                   *)
(*                                                                         *)
(* There is no induction here: where one would be used, the argument is    *)
(* about the least number that lacks the property.                         *)
(***************************************************************************)
EXTENDS MdImport, FiniteSetTheorems, WellFoundedInduction, TLAPS

(***************************************************************************)
(* Least and greatest numbers                                              *)
(***************************************************************************)

LEMMA LeastNat ==
    ASSUME NEW S, S \subseteq Nat, S # {}
    PROVE  \E x \in S : \A y \in S : x =< y
<1>1. PICK x \in S : \A y \in S : <<y, x>> \notin OpToRel(<, Nat)
      BY WFMin, NatLessThanWellFounded, Zenon
<1>2. \A y \in S : ~(y < x)  BY <1>1, Zenon DEF OpToRel
<1>3. \A y \in S : x =< y  BY <1>2
<1>. QED  BY <1>3

LEMMA MinNat ==
    ASSUME NEW S, S \subseteq Nat, S # {}
    PROVE  Min(S) \in S /\ \A y \in S : Min(S) =< y
BY LeastNat, Zenon DEF Min

LEMMA MaxNat ==
    ASSUME NEW S, S \subseteq Nat, S # {}, NEW n \in Nat, \A x \in S : x <= n
    PROVE  Max(S) \in S /\ \A y \in S : Max(S) >= y
<1>. DEFINE T == {m \in Nat : \A x \in S : x <= m}
<1>1. PICK m \in T : \A k \in T : m =< k  BY LeastNat
<1>2. m \in S
  <2>1. CASE m = 0
    <3>1. PICK x \in S : x <= 0  BY <2>1
    <3>. QED  BY <2>1, <3>1
  <2>2. CASE m # 0 /\ m \notin S
    <3>1. \A x \in S : x <= m - 1  BY <1>1, <2>2
    <3>2. m - 1 \in T  BY <1>1, <2>2, <3>1
    <3>. QED  BY <1>1, <3>2
  <2>. QED  BY <2>1, <2>2
<1>3. \E x \in S : \A y \in S : x >= y  BY <1>1, <1>2
<1>. QED  BY <1>3, Zenon DEF Max

(***************************************************************************)
(* The fences                                                              *)
(***************************************************************************)

\* What the recursion of Fenced says of a function.
Flips(d, n, g) == g = [i \in 0..n |-> i > 0 /\ ((d[i] \in Fence) # g[i - 1])]

LEMMA FlipsExists ==
    ASSUME NEW d, NEW n \in Nat
    PROVE  \E g : Flips(d, n, g)
<1>. DEFINE S == {m \in Nat : ~\E g : Flips(d, m, g)}
<1>1. SUFFICES ASSUME S # {} PROVE FALSE
      OBVIOUS
<1>2. PICK m \in S : \A k \in S : m =< k  BY <1>1, LeastNat
<1>3. m # 0
  <2>1. [i \in 0..0 |-> FALSE] = [i \in 0..0 |-> i > 0 /\ ((d[i] \in Fence) # [j \in 0..0 |-> FALSE][i - 1])]
    <3>1. \A i \in 0..0 : ~(i > 0)  OBVIOUS
    <3>. QED  BY <3>1, Zenon
  <2>. QED  BY <2>1 DEF Flips
<1>4. m - 1 \in Nat  BY <1>3
<1>5. PICK g : Flips(d, m - 1, g)  BY <1>2, <1>4
<1>. DEFINE h == [i \in 0..m |-> IF i < m THEN g[i] ELSE (d[m] \in Fence) # g[m - 1]]
<1>6. \A i \in 0..(m - 1) : h[i] = g[i]
      OBVIOUS
<1>7. ASSUME NEW i \in 0..m PROVE h[i] = (i > 0 /\ ((d[i] \in Fence) # h[i - 1]))
  <2>1. CASE i = m
    <3>1. h[m] = ((d[m] \in Fence) # g[m - 1])  BY <1>3
    <3>2. h[m - 1] = g[m - 1]  BY <1>3, <1>6
    <3>3. m > 0  BY <1>3
    <3>. QED  BY <2>1, <3>1, <3>2, <3>3, Zenon
  <2>2. CASE i = 0
    <3>1. h[0] = g[0] /\ 0 \in 0..(m - 1) /\ ~(0 > 0)  BY <1>3, <1>6
    <3>2. g[0] = (0 > 0 /\ ((d[0] \in Fence) # g[0 - 1]))
          BY <1>5, <3>1, Zenon DEF Flips
    <3>. QED  BY <2>2, <3>1, <3>2, Zenon
  <2>3. CASE i # m /\ i # 0
    <3>1. i \in 0..(m - 1) /\ h[i] = g[i] /\ h[i - 1] = g[i - 1]  BY <1>6, <2>3
    <3>2. g[i] = (i > 0 /\ ((d[i] \in Fence) # g[i - 1]))
          BY <1>5, <3>1, Zenon DEF Flips
    <3>. QED  BY <3>1, <3>2, Zenon
  <2>. QED  BY <2>1, <2>2, <2>3
<1>8. Flips(d, m, h)
  <2>1. h = [i \in 0..m |-> h[i]]  OBVIOUS
  <2>. HIDE DEF h
  <2>. QED  BY <1>7, <2>1, Zenon DEF Flips
<1>. QED  BY <1>2, <1>8

LEMMA FencedRec ==
    ASSUME NEW d \in Seq(Line)
    PROVE  Flips(d, Len(d), Fenced(d))
<1>1. PICK g : Flips(d, Len(d), g)
  <2>1. Len(d) \in Nat  OBVIOUS
  <2>. QED  BY <2>1, FlipsExists, Zenon
<1>2. \E f : f = [i \in 0..Len(d) |-> i > 0 /\ ((d[i] \in Fence) # f[i - 1])]
      BY <1>1 DEF Flips
<1>. QED BY <1>2, Zenon DEF Flips, Fenced

LEMMA FencedAt ==
    ASSUME NEW d \in Seq(Line)
    PROVE  /\ Fenced(d)[0] = FALSE
           /\ \A i \in 1..Len(d) : Fenced(d)[i] = ((d[i] \in Fence) # Fenced(d)[i - 1])
<1>1. \A i \in 0..Len(d) : Fenced(d)[i] = (i > 0 /\ ((d[i] \in Fence) # Fenced(d)[i - 1]))
      BY FencedRec, Zenon DEF Flips
<1>2. 0 \in 0..Len(d) /\ ~(0 > 0)  OBVIOUS
<1>3. Fenced(d)[0] = FALSE  BY <1>1, <1>2, Zenon
<1>4. \A i \in 1..Len(d) : i \in 0..Len(d) /\ i > 0  OBVIOUS
<1>5. \A i \in 1..Len(d) : Fenced(d)[i] = ((d[i] \in Fence) # Fenced(d)[i - 1])
      BY <1>1, <1>4, Zenon
<1>. QED  BY <1>3, <1>5

\* A line at the end changes nothing before it.
LEMMA FencedAppend ==
    ASSUME NEW d \in Seq(Line), NEW l \in Line, NEW i \in 0..Len(d)
    PROVE  Fenced(Append(d, l))[i] = Fenced(d)[i]
<1>. DEFINE e == Append(d, l)
            S == {k \in Nat : k <= Len(d) /\ Fenced(e)[k] # Fenced(d)[k]}
<1>1. SUFFICES ASSUME S # {} PROVE FALSE
      OBVIOUS
<1>2. PICK k \in S : \A j \in S : k <= j  BY <1>1, LeastNat
<1>3. /\ e \in Seq(Line) /\ Len(d) \in Nat /\ Len(e) = Len(d) + 1
      /\ \A j \in 1..Len(d) : e[j] = d[j]
      OBVIOUS
<1>. HIDE DEF e
<1>4. CASE k = 0  BY <1>2, <1>3, <1>4, FencedAt
<1>5. CASE k # 0
  <2>1. k \in 1..Len(d) /\ k \in 1..Len(e) /\ k - 1 \in Nat /\ k - 1 <= Len(d) /\ ~(k <= k - 1)
        BY <1>2, <1>3, <1>5
  <2>2. Fenced(e)[k - 1] = Fenced(d)[k - 1]  BY <1>2, <2>1
  <2>3. e[k] = d[k]  BY <1>3, <2>1
  <2>4. /\ Fenced(d)[k] = ((d[k] \in Fence) # Fenced(d)[k - 1])
        /\ Fenced(e)[k] = ((e[k] \in Fence) # Fenced(e)[k - 1])
        BY <1>3, <2>1, FencedAt, Zenon
  <2>5. Fenced(e)[k] = Fenced(d)[k]  BY <2>2, <2>3, <2>4, Zenon
  <2>. QED  BY <1>2, <2>5
<1>. QED  BY <1>4, <1>5

(***************************************************************************)
(* The items                                                               *)
(***************************************************************************)

LEMMA AnchorsFit ==
    ASSUME NEW d \in Seq(Line)
    PROVE  /\ Len(d) \in Nat /\ DOMAIN d = 1..Len(d)
           /\ Anchors(d) \subseteq Headings(d) /\ Headings(d) \subseteq 1..Len(d)
<1>1. Len(d) \in Nat /\ DOMAIN d = 1..Len(d)  OBVIOUS
<1>2. Anchors(d) \subseteq Headings(d) /\ Headings(d) \subseteq DOMAIN d
      BY Zenon DEF Anchors, Headings
<1>. QED  BY <1>1, <1>2

\* An entry ends at the next anchor, or with the document.
LEMMA EndFits ==
    ASSUME NEW d \in Seq(Line), NEW i \in 1..Len(d)
    PROVE  /\ End(d, i) \in Anchors(d) \cup {Len(d) + 1}
           /\ End(d, i) \in Nat /\ i < End(d, i) /\ End(d, i) <= Len(d) + 1
           /\ \A j \in Anchors(d) : j > i => End(d, i) <= j
<1>. DEFINE S == {j \in Anchors(d) : j > i} \cup {Len(d) + 1}
<1>1. /\ Len(d) \in Nat /\ Anchors(d) \subseteq 1..Len(d)  BY AnchorsFit
<1>2. S \subseteq Nat /\ S # {} /\ \A x \in S : i < x /\ x <= Len(d) + 1  BY <1>1
<1>3. End(d, i) = Min(S)  BY Zenon DEF End
<1>. HIDE DEF S
<1>4. End(d, i) \in S /\ \A y \in S : End(d, i) <= y  BY <1>2, <1>3, MinNat
<1>. QED  BY <1>2, <1>4 DEF S

\* Outside code that is between two anchors, stripped of its blank ends.
Between(d, i) == (i + 1)..(End(d, i) - 1)

Filled(d, i) == {x \in Between(d, i) : d[x] # "blank"}

LEMMA BodyFits ==
    ASSUME NEW d, NEW i
    PROVE  Body(d, i) = {x \in Between(d, i) : \E j, k \in Filled(d, i) : j <= x /\ x <= k}
BY Zenon DEF Body, Strip, Between, Filled

\* Every line is in the entry of the last anchor before it and in no other.
LEMMA OneBody ==
    ASSUME NEW d \in Seq(Line), NEW a \in Anchors(d), NEW i \in Body(d, a)
    PROVE  /\ a < i /\ i <= Len(d)
           /\ \A b \in Anchors(d) : b <= i => b <= a
<1>1. /\ a \in 1..Len(d) /\ Len(d) \in Nat /\ Anchors(d) \subseteq 1..Len(d)  BY AnchorsFit
<1>2. i \in Between(d, a)  BY BodyFits
<1>. QED  BY <1>1, <1>2, EndFits DEF Between

LEMMA ItemsFit ==
    ASSUME NEW d, NEW item
    PROVE  item \in Items(d) <=>
             \E a \in Anchors(d) : /\ Body(d, a) # {}
                                   /\ item = [title |-> a, content |-> Body(d, a)]
BY Zenon DEF Items

LEMMA NothingLostOf ==
    ASSUME doc \in Seq(Line)
    PROVE  NothingLost
<1>. SUFFICES ASSUME NEW i \in DOMAIN doc, doc[i] # "blank",
                     \E a \in Anchors(doc) : a <= i
              PROVE  \/ Cardinality({item \in Items(doc) : i = item.title \/ i \in item.content}) = 1
                     \/ i \in Anchors(doc) /\ \A item \in Items(doc) :
                                                  i # item.title /\ i \notin item.content
     BY Zenon DEF NothingLost
<1>1. /\ Len(doc) \in Nat /\ i \in 1..Len(doc) /\ Anchors(doc) \subseteq 1..Len(doc)
      BY AnchorsFit
<1>2. PICK a \in Anchors(doc) : a <= i /\ \A b \in Anchors(doc) : b <= i => b <= a
  <2>. DEFINE S == {b \in Anchors(doc) : b <= i}
  <2>1. S \subseteq Nat /\ S # {} /\ i \in Nat /\ \A x \in S : x <= i  BY <1>1
  <2>2. Max(S) \in S /\ \A y \in S : Max(S) >= y
    <3>. HIDE DEF S
    <3>. QED  BY <2>1, MaxNat
  <2>3. \A y \in S : y <= Max(S)  BY <1>1, <2>2
  <2>. QED  BY <2>2, <2>3
\* The only item that can hold line i is that of a.
<1>3. ASSUME NEW b \in Anchors(doc), i = b \/ i \in Body(doc, b) PROVE b = a
  <2>1. CASE i = b  BY <1>1, <1>2, <2>1
  <2>2. CASE i \in Body(doc, b)
    <3>1. b < i /\ \A c \in Anchors(doc) : c <= i => c <= b  BY <2>2, OneBody
    <3>. QED  BY <1>1, <1>2, <3>1
  <2>. QED  BY <1>3, <2>1, <2>2
<1>4. i # a => i \in Body(doc, a)
  <2>1. ASSUME i # a PROVE i \in Between(doc, a)
    <3>1. a \in 1..Len(doc)  BY <1>1
    <3>2. i < End(doc, a)  BY <1>1, <1>2, <2>1, <3>1, EndFits
    <3>. QED  BY <1>1, <1>2, <2>1, <3>1, <3>2, EndFits DEF Between
  <2>2. ASSUME i # a PROVE i \in Filled(doc, a)  BY <2>1, <2>2 DEF Filled
  <2>. QED  BY <1>1, <2>1, <2>2, BodyFits
<1>. DEFINE item == [title |-> a, content |-> Body(doc, a)]
<1>5. CASE Body(doc, a) # {}
  <2>1. item \in Items(doc) /\ (i = item.title \/ i \in item.content)
        BY <1>4, <1>5, ItemsFit
  <2>2. ASSUME NEW r \in Items(doc), i = r.title \/ i \in r.content PROVE r = item
        BY <1>3, <2>2, ItemsFit
  <2>3. {r \in Items(doc) : i = r.title \/ i \in r.content} = {item}
    <3>. HIDE DEF item
    <3>. QED  BY <2>1, <2>2
  <2>. QED  BY <2>3, FS_Singleton
<1>6. CASE Body(doc, a) = {}
  <2>1. i = a  BY <1>4, <1>6
  <2>2. ASSUME NEW r \in Items(doc) PROVE i # r.title /\ i \notin r.content
        BY <1>3, <1>6, ItemsFit
  <2>. QED  BY <2>1, <2>2
<1>. QED  BY <1>5, <1>6

DocIsLines == doc \in Seq(Line)

LEMMA Lines == Spec => []DocIsLines
<1>1. Init => DocIsLines  BY DEF Init, DocIsLines
<1>2. DocIsLines /\ [Next]_doc => DocIsLines'  BY DEF DocIsLines, Next, AddLine
<1>. QED  BY <1>1, <1>2, PTL DEF Spec

\* Every line after the first title is in exactly one item, but for titles
\* without a content (md_import.py 46-56), however long the file is.
THEOREM NothingIsLost == Spec => []NothingLost
<1>1. DocIsLines => NothingLost  BY NothingLostOf DEF DocIsLines
<1>. QED  BY <1>1, Lines, PTL

(***************************************************************************)
(* A file that grows                                                       *)
(***************************************************************************)

\* The levels of the headings are numbers, so that a least one is among them.
LEMMA SplitLevelFits ==
    ASSUME NEW d \in Seq(Line), Headings(d) # {}
    PROVE  /\ SplitLevel(d) \in Nat
           /\ \E i \in Headings(d) : Level[d[i]] = SplitLevel(d)
           /\ \A i \in Headings(d) : SplitLevel(d) <= Level[d[i]]
<1>. DEFINE S == {Level[d[i]] : i \in Headings(d)}
<1>1. S \subseteq Nat /\ S # {}  BY LevelAssumption DEF Headings
<1>2. SplitLevel(d) = Min(S)  BY Zenon DEF SplitLevel
<1>3. SplitLevel(d) \in S /\ \A y \in S : SplitLevel(d) <= y
  <2>. HIDE DEF S
  <2>. QED  BY <1>1, <1>2, MinNat
<1>. QED  BY <1>1, <1>3

\* A new line leaves the headings before it alone, and, unless it outranks
\* them, the anchors too.
LEMMA AnchorsAppend ==
    ASSUME NEW d \in Seq(Line), NEW l \in Line, SplitLevel(Append(d, l)) = SplitLevel(d)
    PROVE  \A i \in 1..Len(d) : i \in Anchors(Append(d, l)) <=> i \in Anchors(d)
<1>. DEFINE e == Append(d, l)
<1>1. SUFFICES ASSUME NEW i \in 1..Len(d) PROVE i \in Anchors(e) <=> i \in Anchors(d)
      OBVIOUS
<1>2. /\ e[i] = d[i] /\ i \in DOMAIN e /\ i \in DOMAIN d /\ i \in 0..Len(d)
      OBVIOUS
<1>3. Fenced(e)[i] = Fenced(d)[i]  BY <1>2, FencedAppend
<1>. HIDE DEF e
<1>4. i \in Headings(e) <=> i \in Headings(d)  BY <1>2, <1>3, Zenon DEF Headings
<1>5. SplitLevel(e) = SplitLevel(d)  BY DEF e
<1>. QED  BY <1>2, <1>4, <1>5, Zenon DEF Anchors

LEMMA BodyAppend ==
    ASSUME NEW d \in Seq(Line), NEW l \in Line, SplitLevel(Append(d, l)) = SplitLevel(d),
           NEW a \in Anchors(d), NEW b \in Anchors(d), a < b
    PROVE  Body(Append(d, l), a) = Body(d, a)
<1>. DEFINE e == Append(d, l)
<1>1. /\ e \in Seq(Line) /\ Len(d) \in Nat /\ Len(e) = Len(d) + 1
      /\ \A j \in 1..Len(d) : e[j] = d[j]
      OBVIOUS
<1>2. \A i \in 1..Len(d) : i \in Anchors(e) <=> i \in Anchors(d)
      BY AnchorsAppend
<1>3. a \in 1..Len(d) /\ b \in 1..Len(d)  BY AnchorsFit
<1>. HIDE DEF e
<1>4. /\ End(d, a) \in Anchors(d) \cup {Len(d) + 1} /\ a < End(d, a) /\ End(d, a) \in Nat
      /\ \A j \in Anchors(d) : j > a => End(d, a) <= j
      BY <1>3, EndFits
<1>5. /\ End(e, a) \in Anchors(e) \cup {Len(e) + 1} /\ a < End(e, a) /\ End(e, a) \in Nat
      /\ \A j \in Anchors(e) : j > a => End(e, a) <= j
  <2>1. a \in 1..Len(e)  BY <1>1, <1>3
  <2>. QED  BY <1>1, <2>1, EndFits
<1>6. End(e, a) = End(d, a)
  <2>1. End(d, a) <= b /\ End(d, a) \in Anchors(d)  BY <1>1, <1>3, <1>4
  <2>2. End(e, a) <= b  BY <1>2, <1>3, <1>5
  <2>3. End(e, a) \in 1..Len(d)  BY <1>1, <1>3, <1>5, <2>2
  <2>4. End(e, a) \in Anchors(d)  BY <1>1, <1>2, <1>5, <2>3
  <2>5. End(d, a) \in Anchors(e)  BY <1>2, <2>1, AnchorsFit
  <2>6. End(e, a) <= End(d, a)  BY <1>4, <1>5, <2>5
  <2>7. End(d, a) <= End(e, a)  BY <1>4, <1>5, <2>4
  <2>. QED  BY <1>4, <1>5, <2>6, <2>7
<1>7. Between(e, a) = Between(d, a)  BY <1>6 DEF Between
<1>8. Filled(e, a) = Filled(d, a)
  <2>1. \A x \in Between(d, a) : e[x] = d[x]
        BY <1>1, <1>3, EndFits DEF Between
  <2>. QED  BY <1>7, <2>1 DEF Filled
<1>9. Body(e, a) = Body(d, a)  BY <1>7, <1>8, BodyFits, Zenon
<1>. QED  BY <1>9 DEF e

LEMMA EarlierStay ==
    ASSUME DocIsLines, [Next]_doc, Headings(doc) # {}, SplitLevel(doc') = SplitLevel(doc),
           NEW item \in Items(doc), item.title # Max(Anchors(doc))
    PROVE  item \in Items(doc')
<1>1. CASE doc' = doc
  <2>1. Items(doc') = Items(doc)  BY <1>1
  <2>. QED  BY <2>1
<1>2. CASE \E l \in Line : AddLine(l)
  <2>1. PICK l \in Line : doc' = Append(doc, l)  BY <1>2 DEF AddLine
  <2>2. PICK a \in Anchors(doc) : /\ Body(doc, a) # {}
                                  /\ item = [title |-> a, content |-> Body(doc, a)]
        BY ItemsFit
  <2>3. Anchors(doc) \subseteq 1..Len(doc) /\ Len(doc) \in Nat
        BY AnchorsFit DEF DocIsLines
  <2>4. PICK b \in Anchors(doc) : a < b
    <3>1. /\ Max(Anchors(doc)) \in Anchors(doc)
          /\ \A y \in Anchors(doc) : Max(Anchors(doc)) >= y
      <4>1. /\ Anchors(doc) \subseteq Nat /\ Anchors(doc) # {}
            /\ \A x \in Anchors(doc) : x <= Len(doc)
            BY <2>2, <2>3
      <4>. QED  BY <2>3, <4>1, MaxNat
    <3>2. a # Max(Anchors(doc))  BY <2>2
    <3>. QED  BY <2>3, <3>1, <3>2
  <2>5. SplitLevel(Append(doc, l)) = SplitLevel(doc)  BY <2>1
  <2>6. Body(doc', a) = Body(doc, a)  BY <2>1, <2>4, <2>5, BodyAppend DEF DocIsLines
  <2>7. a \in Anchors(doc')  BY <2>1, <2>3, <2>5, AnchorsAppend DEF DocIsLines
  <2>. QED  BY <2>2, <2>6, <2>7, ItemsFit
<1>. QED  BY <1>1, <1>2 DEF Next

\* An import of a file that has grown yields the earlier items again, unless a
\* title outranks all so far (md_import.py 41-56).
THEOREM EarlierStayed == Spec => EarlierItemsStay
<1>1. DocIsLines /\ [Next]_doc =>
         [Headings(doc) # {} /\ SplitLevel(doc') = SplitLevel(doc) =>
             \A item \in Items(doc) : item.title # Max(Anchors(doc)) => item \in Items(doc')]_doc
      BY EarlierStay
<1>. QED  BY <1>1, Lines, PTL DEF Spec, EarlierItemsStay

(***************************************************************************)
(* The code blocks                                                         *)
(***************************************************************************)

\* Line i opens a block, if g says which lines before it do.
OpensHere(d, i, g) ==
    /\ d[i] \in Fence
    /\ \A b \in 1..(i - 1) : g[b] => \E e \in (b + 1)..(i - 1) : IsBlock(d, b, e)

OpensTo(d, n, g) == g = [i \in 1..n |-> OpensHere(d, i, g)]

LEMMA OpensToExists ==
    ASSUME NEW d, NEW n \in Nat
    PROVE  \E g : OpensTo(d, n, g)
<1>. DEFINE S == {m \in Nat : ~\E g : OpensTo(d, m, g)}
<1>1. SUFFICES ASSUME S # {} PROVE FALSE
      OBVIOUS
<1>2. PICK m \in S : \A k \in S : m <= k  BY <1>1, LeastNat
<1>3. m # 0
  <2>1. \A g : [i \in 1..0 |-> FALSE] = [i \in 1..0 |-> OpensHere(d, i, g)]
        OBVIOUS
  <2>2. OpensTo(d, 0, [i \in 1..0 |-> FALSE])  BY <2>1, Zenon DEF OpensTo
  <2>. QED  BY <2>2
<1>4. m - 1 \in Nat  BY <1>3
<1>5. PICK g : OpensTo(d, m - 1, g)  BY <1>2, <1>4
<1>. DEFINE h == [i \in 1..m |-> IF i < m THEN g[i] ELSE OpensHere(d, m, g)]
<1>6. \A i \in 1..(m - 1) : h[i] = g[i]
      OBVIOUS
<1>7. ASSUME NEW i \in 1..m PROVE h[i] = OpensHere(d, i, h)
  <2>1. \A b \in 1..(i - 1) : h[b] = g[b]
        BY <1>6
  <2>2. OpensHere(d, i, g) = OpensHere(d, i, h)
    <3>. HIDE DEF h
    <3>. QED  BY <2>1, Zenon DEF OpensHere
  <2>3. CASE i = m
    <3>1. h[m] = OpensHere(d, m, g)  BY <1>3
    <3>. QED  BY <2>2, <2>3, <3>1, Zenon
  <2>4. CASE i # m
    <3>1. i \in 1..(m - 1) /\ h[i] = g[i]  BY <1>6, <2>4
    <3>2. g[i] = OpensHere(d, i, g)  BY <1>5, <3>1, Zenon DEF OpensTo
    <3>. QED  BY <2>2, <3>1, <3>2, Zenon
  <2>. QED  BY <2>3, <2>4
<1>8. OpensTo(d, m, h)
  <2>1. h = [i \in 1..m |-> h[i]]  OBVIOUS
  <2>. HIDE DEF h
  <2>. QED  BY <1>7, <2>1, Zenon DEF OpensTo
<1>. QED  BY <1>2, <1>8

LEMMA OpensAt ==
    ASSUME NEW d \in Seq(Line)
    PROVE  /\ Opens(d) \subseteq 1..Len(d)
           /\ \A i \in 1..Len(d) :
                 i \in Opens(d) <=>
                     /\ d[i] \in Fence
                     /\ \A b \in Opens(d) : b < i =>
                            \E e \in (b + 1)..(i - 1) : IsBlock(d, b, e)
<1>1. Len(d) \in Nat /\ DOMAIN d = 1..Len(d)  OBVIOUS
<1>. DEFINE open == CHOOSE open : open = [i \in 1..Len(d) |->
                        /\ d[i] \in Fence
                        /\ \A b \in 1..(i - 1) : open[b] =>
                               \E e \in (b + 1)..(i - 1) : IsBlock(d, b, e)]
<1>2. Opens(d) = {i \in DOMAIN d : open[i]}  BY Zenon DEF Opens
<1>3. PICK g : OpensTo(d, Len(d), g)  BY <1>1, OpensToExists, Zenon
<1>4. OpensTo(d, Len(d), open)  BY <1>3, Zenon DEF OpensTo, OpensHere
<1>. HIDE DEF open
<1>5. \A i \in 1..Len(d) : open[i] = OpensHere(d, i, open)  BY <1>4, Zenon DEF OpensTo
<1>6. \A i \in 1..Len(d) : i \in Opens(d) <=> OpensHere(d, i, open)
      BY <1>1, <1>2, <1>5, Zenon
<1>7. ASSUME NEW i \in 1..Len(d), NEW b
      PROVE  b \in 1..(i - 1) /\ open[b] <=> b \in Opens(d) /\ b < i
  <2>1. b \in Opens(d) <=> b \in 1..Len(d) /\ open[b]  BY <1>1, <1>2, Zenon
  <2>2. b \in 1..(i - 1) <=> b \in 1..Len(d) /\ b < i  BY <1>1
  <2>. QED  BY <2>1, <2>2, Zenon
<1>8. \A i \in 1..Len(d) :
          OpensHere(d, i, open) <=>
              /\ d[i] \in Fence
              /\ \A b \in Opens(d) : b < i =>
                     \E e \in (b + 1)..(i - 1) : IsBlock(d, b, e)
      BY <1>7, Zenon DEF OpensHere
<1>9. Opens(d) \subseteq 1..Len(d)  BY <1>1, <1>2, Zenon
<1>. QED  BY <1>6, <1>8, <1>9, Zenon

\* Every fence has one end: the next of its kind, or that of the document.
LEMMA OneEnd ==
    ASSUME NEW d \in Seq(Line), NEW b \in 1..Len(d), d[b] \in Fence
    PROVE  /\ \E e \in (b + 1)..(Len(d) + 1) : IsBlock(d, b, e)
           /\ \A e, f \in (b + 1)..(Len(d) + 1) :
                 IsBlock(d, b, e) /\ IsBlock(d, b, f) => e = f
<1>1. Len(d) \in Nat  OBVIOUS
<1>. DEFINE S == {e \in (b + 1)..Len(d) : d[e] = d[b]} \cup {Len(d) + 1}
<1>2. PICK e \in S : \A f \in S : e <= f
  <2>1. S \subseteq Nat /\ S # {}  BY <1>1
  <2>. HIDE DEF S
  <2>. QED  BY <2>1, LeastNat
<1>3. e \in (b + 1)..(Len(d) + 1)  BY <1>1
<1>4. IsBlock(d, b, e)
  <2>1. ASSUME NEW i \in (b + 1)..(e - 1), d[i] = d[b] PROVE FALSE
        BY <1>1, <1>2, <2>1
  <2>2. e <= Len(d) => d[e] = d[b]  BY <1>1
  <2>. QED  BY <2>1, <2>2 DEF IsBlock
<1>5. ASSUME NEW x \in (b + 1)..(Len(d) + 1), NEW y \in (b + 1)..(Len(d) + 1),
             IsBlock(d, b, x), IsBlock(d, b, y), x < y
      PROVE  FALSE
      BY <1>1, <1>5 DEF IsBlock
<1>6. ASSUME NEW x \in (b + 1)..(Len(d) + 1), NEW y \in (b + 1)..(Len(d) + 1),
             IsBlock(d, b, x), IsBlock(d, b, y)
      PROVE  x = y
      BY <1>1, <1>5, <1>6
<1>. QED  BY <1>3, <1>4, <1>6
\* A block has begun by line i and has not ended.
Holds(d, i) ==
    \E b \in Opens(d) : b <= i /\ \E e \in (b + 1)..(Len(d) + 1) : IsBlock(d, b, e) /\ i < e

LEMMA OpensAreFences ==
    ASSUME NEW d \in Seq(Line), NEW b \in Opens(d)
    PROVE  b \in 1..Len(d) /\ d[b] \in Fence
BY OpensAt

\* Where no block holds the other kind of fence, a fence after a block's first
\* line ends the block, and no line is in two.
LEMMA FenceEnds ==
    ASSUME NEW d \in Seq(Line), Unmixed(d), NEW k \in 1..Len(d), d[k] \in Fence,
           NEW b \in Opens(d), b < k, NEW e \in (b + 1)..(Len(d) + 1), IsBlock(d, b, e)
    PROVE  e <= k
<1>1. ~InCode(d, k)  BY DEF Unmixed
<1>2. ~(b < k /\ k < e)  BY <1>1, Zenon DEF InCode
<1>3. b \in 1..Len(d) /\ Len(d) \in Nat  BY OpensAreFences
<1>. QED  BY <1>2, <1>3

LEMMA HoldsAtText ==
    ASSUME NEW d \in Seq(Line), NEW k \in 1..Len(d), d[k] \notin Fence
    PROVE  Holds(d, k) <=> Holds(d, k - 1)
<1>1. Len(d) \in Nat  OBVIOUS
<1>2. ASSUME NEW b \in Opens(d), NEW e \in (b + 1)..(Len(d) + 1), IsBlock(d, b, e)
      PROVE  b <= k /\ k < e <=> b <= k - 1 /\ k - 1 < e
  <2>1. b \in 1..Len(d) /\ d[b] \in Fence  BY OpensAreFences
  <2>2. b # k /\ (e <= Len(d) => e # k)  BY <1>2, <2>1 DEF IsBlock
  <2>. QED  BY <1>1, <2>1, <2>2
<1>. QED  BY <1>2 DEF Holds

LEMMA HoldsAtFence ==
    ASSUME NEW d \in Seq(Line), Unmixed(d), NEW k \in 1..Len(d), d[k] \in Fence
    PROVE  Holds(d, k) <=> ~Holds(d, k - 1)
<1>1. Len(d) \in Nat  OBVIOUS
<1>2. ASSUME Holds(d, k - 1), Holds(d, k) PROVE FALSE
  <2>1. PICK b \in Opens(d) : /\ b <= k - 1
                              /\ \E e \in (b + 1)..(Len(d) + 1) : IsBlock(d, b, e) /\ k - 1 < e
        BY <1>2 DEF Holds
  <2>2. PICK c \in Opens(d) : /\ c <= k
                              /\ \E f \in (c + 1)..(Len(d) + 1) : IsBlock(d, c, f) /\ k < f
        BY <1>2 DEF Holds
  <2>3. b \in 1..Len(d) /\ d[b] \in Fence /\ c \in 1..Len(d)  BY OpensAreFences
  <2>4. c = k
    <3>1. PICK f \in (c + 1)..(Len(d) + 1) : IsBlock(d, c, f) /\ k < f  BY <2>2
    <3>2. ASSUME c < k PROVE f <= k  BY <3>1, <3>2, FenceEnds
    <3>. QED  BY <1>1, <2>2, <2>3, <3>1, <3>2
  <2>5. b < k  BY <2>1, <2>3
  <2>6. PICK g \in (b + 1)..(k - 1) : IsBlock(d, b, g)
        BY <2>4, <2>5, OpensAt
  <2>7. g \in (b + 1)..(Len(d) + 1)  BY <1>1, <2>3
  <2>8. PICK e \in (b + 1)..(Len(d) + 1) : IsBlock(d, b, e) /\ k - 1 < e  BY <2>1
  <2>9. g = e  BY <2>3, <2>6, <2>7, <2>8, OneEnd
  <2>. QED  BY <2>3, <2>8, <2>9
<1>3. ASSUME ~Holds(d, k - 1) PROVE Holds(d, k)
  <2>1. ASSUME NEW b \in Opens(d), b < k PROVE \E e \in (b + 1)..(k - 1) : IsBlock(d, b, e)
    <3>1. b \in 1..Len(d) /\ d[b] \in Fence  BY OpensAreFences
    <3>2. PICK e \in (b + 1)..(Len(d) + 1) : IsBlock(d, b, e)  BY <3>1, OneEnd
    <3>3. ~(b <= k - 1 /\ k - 1 < e)  BY <1>3, <3>2, Zenon DEF Holds
    <3>4. e \in (b + 1)..(k - 1)  BY <1>1, <2>1, <3>1, <3>3
    <3>. QED  BY <3>2, <3>4
  <2>2. k \in Opens(d)  BY <2>1, OpensAt
  <2>3. PICK e \in (k + 1)..(Len(d) + 1) : IsBlock(d, k, e)  BY OneEnd
  <2>4. k <= k /\ k < e  BY <1>1
  <2>. QED  BY <2>2, <2>3, <2>4, Zenon DEF Holds
<1>. QED  BY <1>2, <1>3

\* The code's flag, flipped by every fence, is up where a block is open.
LEMMA FencedIsHeld ==
    ASSUME NEW d \in Seq(Line), Unmixed(d), NEW i \in 0..Len(d)
    PROVE  Fenced(d)[i] <=> Holds(d, i)
<1>. DEFINE S == {k \in Nat : k <= Len(d) /\ ~(Fenced(d)[k] <=> Holds(d, k))}
<1>1. SUFFICES ASSUME S # {} PROVE FALSE
      OBVIOUS
<1>2. PICK k \in S : \A j \in S : k <= j  BY <1>1, LeastNat
<1>3. Len(d) \in Nat  OBVIOUS
<1>4. CASE k = 0
  <2>1. ~Holds(d, 0)
    <3>1. \A b \in Opens(d) : ~(b <= 0)  BY <1>3, OpensAt
    <3>. QED  BY <3>1 DEF Holds
  <2>2. Fenced(d)[0] = FALSE  BY FencedAt
  <2>. QED  BY <1>2, <1>4, <2>1, <2>2
<1>5. CASE k # 0
  <2>1. k \in 1..Len(d) /\ k - 1 \in Nat /\ k - 1 <= Len(d) /\ ~(k <= k - 1)
        BY <1>2, <1>3, <1>5
  <2>2. Fenced(d)[k - 1] <=> Holds(d, k - 1)  BY <1>2, <2>1
  <2>3. Fenced(d)[k] = ((d[k] \in Fence) # Fenced(d)[k - 1])
        BY <2>1, FencedAt, Zenon
  <2>4. Fenced(d)[k - 1] \in BOOLEAN
    <3>1. k - 1 = 0 \/ k - 1 \in 1..Len(d)  BY <2>1
    <3>2. ASSUME NEW j \in 1..Len(d) PROVE Fenced(d)[j] \in BOOLEAN
      <4>1. Fenced(d)[j] = ((d[j] \in Fence) # Fenced(d)[j - 1])  BY FencedAt, Zenon
      <4>. QED  BY <4>1, Zenon
    <3>3. Fenced(d)[0] \in BOOLEAN  BY FencedAt
    <3>. QED  BY <3>1, <3>2, <3>3
  <2>5. CASE d[k] \in Fence
    <3>1. Holds(d, k) <=> ~Holds(d, k - 1)  BY <2>1, <2>5, HoldsAtFence
    <3>2. Fenced(d)[k] <=> ~Fenced(d)[k - 1]  BY <2>3, <2>4, <2>5, Zenon
    <3>3. Fenced(d)[k] <=> Holds(d, k)  BY <2>2, <3>1, <3>2, Zenon
    <3>. QED  BY <1>2, <3>3, Zenon
  <2>6. CASE d[k] \notin Fence
    <3>1. Holds(d, k) <=> Holds(d, k - 1)  BY <2>1, <2>6, HoldsAtText
    <3>2. Fenced(d)[k] <=> Fenced(d)[k - 1]
      <4>1. Fenced(d)[k - 1] = TRUE \/ Fenced(d)[k - 1] = FALSE  BY <2>4, Zenon
      <4>2. (d[k] \in Fence) = FALSE  BY <2>6
      <4>3. Fenced(d)[k] = (FALSE # Fenced(d)[k - 1])  BY <2>3, <4>2, Zenon
      <4>. QED  BY <4>1, <4>3
    <3>3. Fenced(d)[k] <=> Holds(d, k)  BY <2>2, <3>1, <3>2, Zenon
    <3>. QED  BY <1>2, <3>3, Zenon
  <2>. QED  BY <2>5, <2>6
<1>. QED  BY <1>4, <1>5

LEMMA HeadingsCount ==
    ASSUME NEW d \in Seq(Line), Unmixed(d), NEW i \in 1..Len(d)
    PROVE  i \in Headings(d) <=> Counts(d, i)
<1>1. DOMAIN d = 1..Len(d) /\ Len(d) \in Nat /\ i \in 0..Len(d)  OBVIOUS
<1>2. CASE d[i] \notin DOMAIN Level  BY <1>2 DEF Headings, Counts
<1>3. CASE d[i] \in DOMAIN Level
  <2>1. d[i] \notin Fence  BY <1>3, LevelAssumption
  <2>2. Fenced(d)[i] <=> Holds(d, i)  BY <1>1, FencedIsHeld
  <2>3. Holds(d, i) <=> InCode(d, i)
    <3>1. ASSUME NEW b \in Opens(d) PROVE b <= i <=> b < i
          BY <2>1, <3>1, OpensAreFences
    <3>. QED  BY <3>1, Zenon DEF Holds, InCode
  <2>. QED  BY <1>1, <1>3, <2>2, <2>3, Zenon DEF Headings, Counts
<1>. QED  BY <1>2, <1>3

LEMMA AnchorsSplit ==
    ASSUME NEW d \in Seq(Line), Unmixed(d), NEW i \in 1..Len(d)
    PROVE  i \in Anchors(d) <=> Splits(d, i)
<1>1. DOMAIN d = 1..Len(d) /\ Headings(d) \subseteq 1..Len(d)  BY AnchorsFit
<1>2. \A j \in 1..Len(d) : j \in Headings(d) <=> Counts(d, j)  BY HeadingsCount
<1>3. CASE i \notin Headings(d)  BY <1>2, <1>3, Zenon DEF Anchors, Splits
<1>4. CASE i \in Headings(d)
  <2>1. /\ SplitLevel(d) \in Nat
        /\ \E j \in Headings(d) : Level[d[j]] = SplitLevel(d)
        /\ \A j \in Headings(d) : SplitLevel(d) <= Level[d[j]]
        BY <1>4, SplitLevelFits
  <2>2. Level[d[i]] \in Nat  BY <1>4, LevelAssumption DEF Headings
  <2>3. Level[d[i]] = SplitLevel(d) <=> \A j \in Headings(d) : Level[d[i]] <= Level[d[j]]
    <3>1. ASSUME Level[d[i]] = SplitLevel(d), NEW j \in Headings(d)
          PROVE  Level[d[i]] <= Level[d[j]]
          BY <2>1, <3>1, Zenon
    <3>2. ASSUME \A j \in Headings(d) : Level[d[i]] <= Level[d[j]]
          PROVE  Level[d[i]] = SplitLevel(d)
      <4>1. Level[d[i]] <= SplitLevel(d)  BY <2>1, <3>2, Zenon
      <4>2. SplitLevel(d) <= Level[d[i]]  BY <1>4, <2>1, Zenon
      <4>. HIDE <3>2
      <4>. QED  BY <2>1, <2>2, <4>1, <4>2, SMT
    <3>. QED  BY <3>1, <3>2
  <2>4. Splits(d, i) <=> \A j \in Headings(d) : Level[d[i]] <= Level[d[j]]
        BY <1>1, <1>2, <1>4, Zenon DEF Splits
  <2>. QED  BY <1>4, <2>3, <2>4, Zenon DEF Anchors
<1>. QED  BY <1>3, <1>4


(***************************************************************************)
(* The items are the entries                                               *)
(***************************************************************************)

\* The ends of a set of line numbers.
LEMMA Ends ==
    ASSUME NEW d \in Seq(Line), NEW c \in SUBSET (1..Len(d)), c # {}
    PROVE  /\ Min(c) \in c /\ Max(c) \in c
           /\ \A x \in c : Min(c) <= x /\ x <= Max(c)
<1>1. c \subseteq Nat /\ Len(d) \in Nat /\ \A x \in c : x <= Len(d)  OBVIOUS
<1>2. Min(c) \in c /\ \A x \in c : Min(c) <= x  BY <1>1, MinNat
<1>3. Max(c) \in c /\ \A x \in c : Max(c) >= x  BY <1>1, MaxNat
<1>. QED  BY <1>1, <1>2, <1>3

LEMMA BodyIsEntry ==
    ASSUME NEW d \in Seq(Line), Unmixed(d), NEW t \in Anchors(d), Body(d, t) # {}
    PROVE  Body(d, t) \in SUBSET (1..Len(d)) /\ IsEntry(d, t, Body(d, t))
<1>. DEFINE c == Body(d, t)
<1>1. /\ Len(d) \in Nat /\ DOMAIN d = 1..Len(d) /\ t \in 1..Len(d)
      /\ Anchors(d) \subseteq 1..Len(d)
      BY AnchorsFit
<1>2. /\ End(d, t) \in Anchors(d) \cup {Len(d) + 1}
      /\ End(d, t) \in Nat /\ t < End(d, t) /\ End(d, t) <= Len(d) + 1
      /\ \A j \in Anchors(d) : j > t => End(d, t) <= j
      BY <1>1, EndFits
<1>3. Between(d, t) \subseteq 1..Len(d) /\ Filled(d, t) \subseteq Between(d, t)
      BY <1>1, <1>2 DEF Between, Filled
<1>4. c = {x \in Between(d, t) : \E j, k \in Filled(d, t) : j <= x /\ x <= k}
      BY BodyFits
<1>5. Filled(d, t) \subseteq c  BY <1>3, <1>4
<1>6. c \in SUBSET (1..Len(d)) /\ c # {}  BY <1>3, <1>4
<1>. HIDE DEF c
<1>7. /\ Min(c) \in c /\ Max(c) \in c
      /\ \A x \in c : Min(c) <= x /\ x <= Max(c)
      BY <1>6, Ends
<1>8. Min(c) \in Filled(d, t)
  <2>1. PICK j \in Filled(d, t) : j <= Min(c)  BY <1>4, <1>7
  <2>2. j \in 1..Len(d) /\ Min(c) \in 1..Len(d) /\ Min(c) <= j
        BY <1>3, <1>5, <1>6, <1>7
  <2>. QED  BY <2>1, <2>2
<1>9. Max(c) \in Filled(d, t)
  <2>1. PICK k \in Filled(d, t) : Max(c) <= k  BY <1>4, <1>7
  <2>2. k \in 1..Len(d) /\ Max(c) \in 1..Len(d) /\ k <= Max(c)
        BY <1>3, <1>5, <1>6, <1>7
  <2>. QED  BY <2>1, <2>2
<1>10. /\ Min(c) \in 1..Len(d) /\ Max(c) \in 1..Len(d)
       /\ t < Min(c) /\ Max(c) < End(d, t)
       BY <1>1, <1>2, <1>3, <1>8, <1>9 DEF Between
<1>11. Splits(d, t)  BY <1>1, AnchorsSplit
<1>12. c = Min(c)..Max(c)
  <2>1. c \subseteq Min(c)..Max(c)  BY <1>6, <1>7
  <2>2. ASSUME NEW x \in Min(c)..Max(c) PROVE x \in c
    <3>1. x \in Between(d, t)  BY <1>1, <1>2, <1>10 DEF Between
    <3>2. Min(c) <= x /\ x <= Max(c)  BY <1>10
    <3>. QED  BY <1>4, <1>8, <1>9, <3>1, <3>2
  <2>. QED  BY <2>1, <2>2
<1>13. d[Min(c)] # "blank" /\ d[Max(c)] # "blank"  BY <1>8, <1>9 DEF Filled
<1>14. ASSUME NEW i \in (t + 1)..Max(c) PROVE ~Splits(d, i)
  <2>1. i \in 1..Len(d) /\ i > t /\ ~(End(d, t) <= i)  BY <1>1, <1>2, <1>10
  <2>2. i \notin Anchors(d)  BY <1>2, <2>1
  <2>. QED  BY <2>1, <2>2, AnchorsSplit
<1>15. ASSUME NEW i \in DOMAIN d, i > t, i \notin c, d[i] # "blank"
       PROVE  \E j \in (t + 1)..i : Splits(d, j)
  <2>1. i \notin Between(d, t)  BY <1>5, <1>15 DEF Filled
  <2>2. End(d, t) <= i  BY <1>1, <1>2, <1>15, <2>1 DEF Between
  <2>3. End(d, t) \in Anchors(d) /\ End(d, t) \in (t + 1)..i  BY <1>1, <1>2, <2>2
  <2>. QED  BY <1>1, <2>3, AnchorsSplit
<1>16. ASSUME NEW i \in (t + 1)..(Min(c) - 1), d[i] # "blank" PROVE FALSE
  <2>1. Min(c) <= Max(c)  BY <1>7
  <2>2. i \in Between(d, t)  BY <1>1, <1>2, <1>10, <2>1 DEF Between
  <2>3. i \in c  BY <1>5, <1>16, <2>2 DEF Filled
  <2>. QED  BY <1>7, <1>10, <2>3
<1>17. IsEntry(d, t, c)
       BY <1>10, <1>11, <1>12, <1>13, <1>14, <1>15, <1>16, Zenon DEF IsEntry
<1>. QED  BY <1>6, <1>17 DEF c

LEMMA EntryIsBody ==
    ASSUME NEW d \in Seq(Line), Unmixed(d), NEW t \in 1..Len(d),
           NEW c \in SUBSET (1..Len(d)), c # {}, IsEntry(d, t, c)
    PROVE  t \in Anchors(d) /\ c = Body(d, t)
<1>1. /\ Len(d) \in Nat /\ DOMAIN d = 1..Len(d) /\ Anchors(d) \subseteq 1..Len(d)
      BY AnchorsFit
<1>2. /\ End(d, t) \in Anchors(d) \cup {Len(d) + 1}
      /\ End(d, t) \in Nat /\ t < End(d, t) /\ End(d, t) <= Len(d) + 1
      /\ \A j \in Anchors(d) : j > t => End(d, t) <= j
      BY EndFits
<1>3. /\ Min(c) \in c /\ Max(c) \in c /\ Min(c) \in 1..Len(d) /\ Max(c) \in 1..Len(d)
      BY Ends
<1>4. /\ c = Min(c)..Max(c) /\ t < Min(c)
      /\ d[Min(c)] # "blank" /\ d[Max(c)] # "blank"
      BY DEF IsEntry
<1>5. t \in Anchors(d)  BY AnchorsSplit DEF IsEntry
<1>6. Max(c) < End(d, t)
  <2>1. ASSUME End(d, t) <= Max(c) PROVE FALSE
    <3>1. End(d, t) \in Anchors(d) /\ End(d, t) \in (t + 1)..Max(c)
          BY <1>1, <1>2, <1>3, <2>1
    <3>2. Splits(d, End(d, t))  BY <1>1, <3>1, AnchorsSplit
    <3>. QED  BY <3>1, <3>2 DEF IsEntry
  <2>. QED  BY <1>2, <1>3, <2>1
<1>7. c \subseteq Between(d, t)  BY <1>1, <1>2, <1>3, <1>4, <1>6 DEF Between
<1>8. Min(c) \in Filled(d, t) /\ Max(c) \in Filled(d, t)
      BY <1>3, <1>4, <1>7 DEF Filled
<1>9. \A x \in c : Min(c) <= x /\ x <= Max(c)  BY Ends
\* A line of the entry with text is in c: no title is before it.
<1>10. ASSUME NEW x \in Filled(d, t) PROVE x \in c
  <2>1. x \in 1..Len(d) /\ x > t /\ x < End(d, t) /\ d[x] # "blank"
        BY <1>1, <1>2 DEF Filled, Between
  <2>2. ASSUME NEW j \in (t + 1)..x PROVE ~Splits(d, j)
    <3>1. j \in 1..Len(d) /\ j > t /\ ~(End(d, t) <= j)  BY <1>1, <1>2, <2>1
    <3>2. j \notin Anchors(d)  BY <1>2, <3>1
    <3>. QED  BY <3>1, <3>2, AnchorsSplit
  <2>. QED  BY <1>1, <2>1, <2>2 DEF IsEntry
<1>11. Body(d, t) = {x \in Between(d, t) : \E j, k \in Filled(d, t) : j <= x /\ x <= k}
       BY BodyFits
<1>12. c \subseteq Body(d, t)  BY <1>7, <1>8, <1>9, <1>11
<1>13. ASSUME NEW x \in Body(d, t) PROVE x \in c
  <2>1. PICK j \in c, k \in c : j <= x /\ x <= k  BY <1>10, <1>11
  <2>2. Min(c) <= j /\ k <= Max(c) /\ x \in Int
        BY <1>1, <1>2, <1>9, <1>11 DEF Between
  <2>3. x \in Min(c)..Max(c)  BY <1>3, <2>1, <2>2
  <2>. QED  BY <1>4, <2>3
<1>. QED  BY <1>5, <1>12, <1>13

LEMMA ItemsAreEntriesOf ==
    ASSUME doc \in Seq(Line)
    PROVE  ItemsAreEntries
<1>1. DOMAIN doc = 1..Len(doc) /\ Anchors(doc) \subseteq 1..Len(doc)
      BY AnchorsFit
<1>2. SUFFICES ASSUME Unmixed(doc) PROVE Items(doc) = Entries(doc)
      BY DEF ItemsAreEntries
<1>3. ASSUME NEW item \in Items(doc) PROVE item \in Entries(doc)
  <2>1. PICK a \in Anchors(doc) : /\ Body(doc, a) # {}
                                  /\ item = [title |-> a, content |-> Body(doc, a)]
        BY <1>3, ItemsFit
  <2>2. Body(doc, a) \in SUBSET (1..Len(doc)) /\ IsEntry(doc, a, Body(doc, a))
        BY <1>2, <2>1, BodyIsEntry
  <2>3. item.title = a /\ item.content = Body(doc, a)  BY <2>1
  <2>4. item \in [title : DOMAIN doc, content : (SUBSET DOMAIN doc) \ {{}}]
        BY <1>1, <2>1, <2>2
  <2>. QED  BY <2>2, <2>3, <2>4, Zenon DEF Entries
<1>4. ASSUME NEW item \in Entries(doc) PROVE item \in Items(doc)
  <2>1. /\ item \in [title : DOMAIN doc, content : (SUBSET DOMAIN doc) \ {{}}]
        /\ IsEntry(doc, item.title, item.content)
        BY <1>4, Zenon DEF Entries
  <2>2. /\ item.title \in 1..Len(doc) /\ item.content \in SUBSET (1..Len(doc))
        /\ item.content # {}
        /\ item = [title |-> item.title, content |-> item.content]
        BY <1>1, <2>1
  <2>3. item.title \in Anchors(doc) /\ item.content = Body(doc, item.title)
        BY <1>2, <2>1, <2>2, EntryIsBody
  <2>. QED  BY <2>2, <2>3, ItemsFit
<1>. QED  BY <1>3, <1>4

\* The items are what the format promises: the text from a title to the next of
\* its rank, no # of a code block taken for a title (md_import.py 3-6, 26-56),
\* for every file in which no code block holds a fence of the other kind.
THEOREM EntriesAreItems == Spec => []ItemsAreEntries
<1>1. DocIsLines => ItemsAreEntries  BY ItemsAreEntriesOf DEF DocIsLines
<1>. QED  BY <1>1, Lines, PTL
=============================================================================
