---------------------------- MODULE OrderLemmas ----------------------------
(***************************************************************************)
(* Facts that the proofs of several parts share: about orders on finite    *)
(* sets, about sequences of any elements, and about the places in pieces   *)
(* of given sizes.                                                         *)
(***************************************************************************)
EXTENDS SavedLists, SequencesExt, SequenceTheorems, FiniteSetTheorems, WellFoundedInduction, TLAPS

(* A finite set that is not empty has a minimal element under a relation   *)
(* that is irreflexive and transitive on it: the element whose set of      *)
(* predecessors is minimal under strict inclusion.                         *)
LEMMA MinimalElement ==
    ASSUME NEW S, IsFiniteSet(S), S # {}, NEW Lt,
           \A x \in S : <<x, x>> \notin Lt,
           \A x, y, z \in S : <<x, y>> \in Lt /\ <<y, z>> \in Lt => <<x, z>> \in Lt
    PROVE  \E x \in S : \A y \in S : <<y, x>> \notin Lt
<1> DEFINE Before(x) == {y \in S : <<y, x>> \in Lt}
           T == {Before(x) : x \in S}
<1>1. T \subseteq FiniteSubsetsOf(S) /\ T # {}
  <2>1. FiniteSubsetsOf(S) = SUBSET S
    BY FS_FiniteSubsetsOfFinite
  <2>2. T \subseteq SUBSET S
    OBVIOUS
  <2>3. PICK x : x \in S
    OBVIOUS
  <2>4. Before(x) \in T
    BY <2>3
  <2>5. QED
    BY <2>1, <2>2, <2>4
<1>2. PICK P \in T : \A Q \in T : <<Q, P>> \notin StrictSubsetOrdering(S)
  <2> HIDE DEF T
  <2>1. QED
    BY <1>1, FS_StrictSubsetOrderingWellFounded, WFMin
<1>3. PICK x \in S : P = Before(x)
  BY <1>2
<1>4. ASSUME NEW y \in S, <<y, x>> \in Lt PROVE FALSE
  <2>1. Before(y) \subseteq Before(x)
    BY <1>4
  <2>2. y \in Before(x) /\ y \notin Before(y)
    BY <1>4
  <2>3. <<Before(y), Before(x)>> \in StrictSubsetOrdering(S)
    BY <2>1, <2>2 DEF StrictSubsetOrdering
  <2>4. Before(y) \in T
    OBVIOUS
  <2>5. QED
    BY <1>2, <1>3, <2>3, <2>4
<1>5. QED
  BY <1>4

(* A set of indices that is not empty has a least member. *)
LEMMA LeastMember ==
    ASSUME NEW n \in Nat, NEW S \in SUBSET (1..n), S # {}
    PROVE  \E i \in S : \A j \in S : i <= j
<1> DEFINE Lt == {p \in S \X S : p[1] < p[2]}
<1>1. IsFiniteSet(S)
  <2>1. IsFiniteSet(1..n)
    BY FS_Interval
  <2>2. QED
    BY <2>1, FS_Subset
<1>2. \A x, y \in S : <<x, y>> \in Lt <=> x < y
  OBVIOUS
<1>3. \E x \in S : \A y \in S : <<y, x>> \notin Lt
  <2>1. \A x \in S : <<x, x>> \notin Lt
    BY <1>2
  <2>2. \A x, y, z \in S : <<x, y>> \in Lt /\ <<y, z>> \in Lt => <<x, z>> \in Lt
    BY <1>2
  <2> HIDE DEF Lt
  <2>3. QED
    BY <1>1, <2>1, <2>2, MinimalElement
<1>4. \E x \in S : \A y \in S : x <= y
  <2>1. PICK x \in S : \A y \in S : ~(y < x)
    <3> HIDE DEF Lt
    <3>1. QED
      BY <1>2, <1>3
  <2>2. \A y \in S : x <= y
    BY <2>1
  <2>3. QED
    BY <2>2
<1>5. QED
  BY <1>4

-----------------------------------------------------------------------------
(* Sequences whose elements have no common type. *)

(* A sequence, whatever its elements. *)
IsRows(s) == \E S : s \in Seq(S)

(* Carrying one row more leaves the rows before it where they are. *)
LEMMA AppendedRow ==
    ASSUME NEW s, IsRows(s), NEW e
    PROVE  /\ IsRows(Append(s, e))
           /\ Len(s) \in Nat /\ DOMAIN s = 1..Len(s)
           /\ DOMAIN Append(s, e) = 1..(Len(s) + 1)
           /\ \A i \in DOMAIN s : Append(s, e)[i] = s[i]
           /\ Append(s, e)[Len(s) + 1] = e
<1>1. PICK S : s \in Seq(S)
  BY DEF IsRows
<1>2. s \in Seq(S \cup {e})
  <2>1. S \subseteq S \cup {e}
    OBVIOUS
  <2>2. QED
    BY <1>1, <2>1, SeqMonotonic
<1>3. /\ Append(s, e) \in Seq(S \cup {e})
      /\ Len(Append(s, e)) = Len(s) + 1
      /\ \A i \in 1..Len(s) : Append(s, e)[i] = s[i]
      /\ Append(s, e)[Len(s) + 1] = e
  <2>1. e \in S \cup {e}
    OBVIOUS
  <2>2. QED
    BY <1>2, <2>1, AppendProperties
<1>4. Len(s) \in Nat /\ DOMAIN s = 1..Len(s) /\ DOMAIN Append(s, e) = 1..Len(Append(s, e))
  BY <1>1, <1>3, LenProperties
<1>5. QED
  BY <1>3, <1>4 DEF IsRows

(* Rows carried at the end stand behind those before them. *)
LEMMA ConcatRows ==
    ASSUME NEW s, NEW t, IsRows(s), IsRows(t)
    PROVE  /\ IsRows(s \o t)
           /\ \A i \in DOMAIN s : i \in DOMAIN (s \o t) /\ (s \o t)[i] = s[i]
           /\ \A j \in DOMAIN t : Len(s) + j \in DOMAIN (s \o t) /\ (s \o t)[Len(s) + j] = t[j]
           /\ \A n \in DOMAIN (s \o t) : n \in DOMAIN s \/ \E j \in DOMAIN t : n = Len(s) + j
           /\ Len(s) \in Nat /\ DOMAIN s = 1..Len(s) /\ DOMAIN t \subseteq Nat \ {0}
<1>1. PICK S : s \in Seq(S)
  BY DEF IsRows
<1>2. PICK T : t \in Seq(T)
  BY DEF IsRows
<1>3. s \in Seq(S \cup T) /\ t \in Seq(S \cup T)
  <2>1. S \subseteq S \cup T /\ T \subseteq S \cup T
    OBVIOUS
  <2>2. QED
    BY <1>1, <1>2, <2>1, SeqMonotonic
<1>4. /\ s \o t \in Seq(S \cup T) /\ Len(s \o t) = Len(s) + Len(t)
      /\ \A i \in 1..(Len(s) + Len(t)) :
            (s \o t)[i] = IF i <= Len(s) THEN s[i] ELSE t[i - Len(s)]
  BY <1>3, ConcatProperties
<1>5. /\ Len(s) \in Nat /\ DOMAIN s = 1..Len(s) /\ Len(t) \in Nat /\ DOMAIN t = 1..Len(t)
      /\ DOMAIN (s \o t) = 1..(Len(s) + Len(t))
  BY <1>1, <1>2, <1>4, LenProperties
<1> DEFINE l == Len(s)
           m == Len(t)
           st == s \o t
<1>6. \A i \in 1..l : i \in 1..(l + m) /\ st[i] = s[i]
  BY <1>4, <1>5
<1>7. \A j \in 1..m : l + j \in 1..(l + m) /\ st[l + j] = t[j]
  <2> SUFFICES ASSUME NEW j \in 1..m PROVE l + j \in 1..(l + m) /\ st[l + j] = t[j]
    OBVIOUS
  <2>1. l + j \in 1..(l + m) /\ ~(l + j <= l) /\ (l + j) - l = j
    BY <1>5
  <2>2. QED
    BY <1>4, <2>1
<1>8. \A n \in 1..(l + m) : n \in 1..l \/ \E j \in 1..m : n = l + j
  <2> SUFFICES ASSUME NEW n \in 1..(l + m), n \notin 1..l PROVE \E j \in 1..m : n = l + j
    OBVIOUS
  <2>1. n - l \in 1..m /\ n = l + (n - l)
    BY <1>5
  <2>2. QED
    BY <2>1
<1>9. IsRows(st)
  BY <1>4 DEF IsRows
<1>10. DOMAIN s = 1..l /\ DOMAIN t = 1..m /\ DOMAIN st = 1..(l + m) /\ l \in Nat /\ m \in Nat
  BY <1>5
<1> HIDE DEF l, m, st
<1>11. 1..m \subseteq Nat \ {0}
  BY <1>10
<1>12. /\ IsRows(st)
       /\ \A i \in DOMAIN s : i \in DOMAIN st /\ st[i] = s[i]
       /\ \A j \in DOMAIN t : l + j \in DOMAIN st /\ st[l + j] = t[j]
       /\ \A n \in DOMAIN st : n \in DOMAIN s \/ \E j \in DOMAIN t : n = l + j
       /\ l \in Nat /\ DOMAIN s = 1..l /\ DOMAIN t \subseteq Nat \ {0}
  BY <1>6, <1>7, <1>8, <1>9, <1>10, <1>11
<1>13. QED
  BY <1>12 DEF l, m, st

(* No row, one row and two. *)
LEMMA FewRows ==
    ASSUME NEW a, NEW b
    PROVE  /\ IsRows(<<>>) /\ DOMAIN <<>> = {}
           /\ IsRows(<<a>>) /\ DOMAIN <<a>> = {1} /\ <<a>>[1] = a
           /\ IsRows(<<a, b>>) /\ DOMAIN <<a, b>> = {1, 2} /\ <<a, b>>[1] = a /\ <<a, b>>[2] = b
<1>1. <<>> \in Seq({a}) /\ <<a>> \in Seq({a}) /\ <<a, b>> \in Seq({a, b})
  OBVIOUS
<1>2. DOMAIN <<>> = {} /\ DOMAIN <<a>> = {1} /\ DOMAIN <<a, b>> = {1, 2}
  OBVIOUS
<1>3. QED
  BY <1>1, <1>2 DEF IsRows

-----------------------------------------------------------------------------
(* Pieces of given sizes, one behind the other. *)

PlacesOf(sizes) == UNION {{n} \X (1..sizes[n]) : n \in DOMAIN sizes}

(* A piece has as many places as its size says. *)
LEMMA PlacesOfOne ==
    ASSUME NEW e, NEW m \in Nat
    PROVE  IsFiniteSet({e} \X (1..m)) /\ Cardinality({e} \X (1..m)) = m
<1>1. IsFiniteSet(1..m) /\ Cardinality(1..m) = IF 1 > m THEN 0 ELSE m - 1 + 1
  BY FS_Interval
<1>2. Cardinality(1..m) = m
  BY <1>1
<1>3. IsFiniteSet({e}) /\ Cardinality({e}) = 1
  BY FS_Singleton
<1> DEFINE one == {e}
           up == 1..m
<1>4. IsFiniteSet(one \X up) /\ Cardinality(one \X up) = Cardinality(one) * Cardinality(up)
  <2>1. IsFiniteSet(one) /\ IsFiniteSet(up)
    BY <1>1, <1>3
  <2> HIDE DEF one, up
  <2>2. QED
    BY <2>1, FS_Product
<1>5. Cardinality(one) * Cardinality(up) = m
  BY <1>2, <1>3
<1>6. QED
  BY <1>4, <1>5

(* Finitely many pieces have finitely many places. *)
LEMMA PlacesAreFinite ==
    ASSUME NEW k \in Nat, NEW s \in [1..k -> Nat]
    PROVE  IsFiniteSet(PlacesOf(s)) /\ TotalOf(s) \in Nat
<1> DEFINE piece == [n \in 1..k |-> {n} \X (1..s[n])]
           pieces == {{n} \X (1..s[n]) : n \in DOMAIN s}
<1>1. piece \in Surjection(1..k, pieces) /\ IsFiniteSet(1..k)
  <2>1. DOMAIN s = 1..k
    OBVIOUS
  <2>2. \A p \in pieces : \E n \in 1..k : p = piece[n]
    BY <2>1
  <2>3. piece \in [1..k -> pieces]
    BY <2>1
  <2> HIDE DEF piece, pieces
  <2>4. QED
    BY <2>2, <2>3, FS_Interval DEF Surjection
<1>2. \A p \in pieces : IsFiniteSet(p)
  <2> SUFFICES ASSUME NEW n \in 1..k PROVE IsFiniteSet({n} \X (1..s[n]))
    OBVIOUS
  <2>1. s[n] \in Nat
    OBVIOUS
  <2>2. QED
    BY <2>1, PlacesOfOne
<1> HIDE DEF piece
<1>3. IsFiniteSet(pieces)
  <2> HIDE DEF pieces
  <2>1. QED
    BY <1>1, FS_Surjection
<1>4. IsFiniteSet(UNION pieces)
  <2> HIDE DEF pieces
  <2>1. QED
    BY <1>2, <1>3, FS_UNION
<1>5. UNION pieces = PlacesOf(s) /\ TotalOf(s) = Cardinality(PlacesOf(s))
  BY DEF PlacesOf, TotalOf
<1> HIDE DEF pieces
<1>6. QED
  BY <1>4, <1>5, FS_CardinalityType

(* One piece more adds its own places to those before it. *)
LEMMA TotalStep ==
    ASSUME NEW k \in Nat, NEW s \in [1..k -> Nat], NEW t \in [1..(k + 1) -> Nat],
           \A n \in 1..k : t[n] = s[n]
    PROVE  TotalOf(s) \in Nat /\ TotalOf(t) = TotalOf(s) + t[k + 1]
<1> DEFINE last == {k + 1} \X (1..t[k + 1])
<1>1. IsFiniteSet(PlacesOf(s)) /\ TotalOf(s) \in Nat
  BY PlacesAreFinite
<1>2. PlacesOf(t) = PlacesOf(s) \cup last
  <2>1. DOMAIN s = 1..k /\ DOMAIN t = 1..k \cup {k + 1}
    OBVIOUS
  <2>2. \A p : p \in PlacesOf(t) <=> \E n \in DOMAIN t : p \in {n} \X (1..t[n])
    BY DEF PlacesOf
  <2>3. \A p : p \in PlacesOf(s) <=> \E n \in DOMAIN s : p \in {n} \X (1..s[n])
    BY DEF PlacesOf
  <2>4. \A n \in DOMAIN s : {n} \X (1..s[n]) = {n} \X (1..t[n])
    BY <2>1
  <2>5. QED
    BY <2>1, <2>2, <2>3, <2>4
<1>3. PlacesOf(s) \cap last = {}
  <2>1. \A p \in PlacesOf(s) : p[1] \in 1..k
    BY DEF PlacesOf
  <2>2. \A p \in last : p[1] = k + 1
    OBVIOUS
  <2>3. k + 1 \notin 1..k
    OBVIOUS
  <2>4. QED
    BY <2>1, <2>2, <2>3
<1>4. IsFiniteSet(last) /\ Cardinality(last) = t[k + 1]
  <2>1. k + 1 \in 1..(k + 1)
    OBVIOUS
  <2>2. t[k + 1] \in Nat
    BY <2>1
  <2>3. QED
    BY <2>2, PlacesOfOne
<1> DEFINE a == PlacesOf(s)
           m == t[k + 1]
<1>5. Cardinality(a \cup last) = Cardinality(a) + m
  <2>1. /\ IsFiniteSet(a) /\ IsFiniteSet(last) /\ a \cap last = {} /\ Cardinality(last) = m
        /\ Cardinality(a) \in Nat /\ m \in Nat
    BY <1>1, <1>3, <1>4, FS_CardinalityType
  <2> HIDE DEF a, last, m
  <2>2. Cardinality(a \cup last) = Cardinality(a) + Cardinality(last) - Cardinality({})
    BY <2>1, FS_Union
  <2>3. Cardinality({}) = 0
    BY FS_EmptySet
  <2>4. QED
    BY <2>1, <2>2, <2>3
<1>6. QED
  BY <1>1, <1>2, <1>5 DEF TotalOf, PlacesOf

(* No piece, no place. *)
LEMMA TotalOfNone == ASSUME NEW s, DOMAIN s = {} PROVE TotalOf(s) = 0
<1>1. UNION {{n} \X (1..s[n]) : n \in DOMAIN s} = {}
  OBVIOUS
<1>2. QED
  BY <1>1, FS_EmptySet DEF TotalOf

-----------------------------------------------------------------------------
(* The places before a place, of n that R orders. *)
PlacesBefore(n, R, i) == {j \in 1..n : <<j, i>> \in R}

(* A total order of n places has one for each rank. *)
LEMMA RanksAreTaken ==
    ASSUME NEW n \in Nat, NEW R,
           \A i \in 1..n : <<i, i>> \notin R,
           \A i, j, k \in 1..n : <<i, j>> \in R /\ <<j, k>> \in R => <<i, k>> \in R,
           \A i, j \in 1..n : i # j => <<i, j>> \in R \/ <<j, i>> \in R
    PROVE  \A k \in 1..n : \E i \in 1..n : Cardinality(PlacesBefore(n, R, i)) + 1 = k
<1> DEFINE S == 1..n
           below(i) == PlacesBefore(n, R, i)
           rank == [i \in S |-> Cardinality(below(i)) + 1]
<1>1. IsFiniteSet(S) /\ Cardinality(S) = n
  BY FS_Interval
<1>2. \A i \in S : IsFiniteSet(below(i)) /\ Cardinality(below(i)) \in Nat
  <2>1. \A i \in S : below(i) \in SUBSET S
    BY DEF PlacesBefore
  <2>2. QED
    BY <1>1, <2>1, FS_Subset, FS_CardinalityType
<1>3. \A i, j \in S : <<i, j>> \in R => below(i) \cup {i} \in SUBSET below(j) /\ i \notin below(i)
  BY DEF PlacesBefore
<1>4. \A i \in S : below(i) \cup {i} \in SUBSET S /\ i \notin below(i)
  BY DEF PlacesBefore
<1> HIDE DEF below, S
<1>5. \A i \in S : Cardinality(below(i) \cup {i}) = Cardinality(below(i)) + 1
  BY <1>2, <1>4, FS_AddElement
<1>6. \A i, j \in S : <<i, j>> \in R => Cardinality(below(i)) + 1 <= Cardinality(below(j))
  BY <1>2, <1>3, <1>5, FS_Subset
<1>7. \A i \in S : Cardinality(below(i)) + 1 \in 1..n
  <2>1. \A i \in S : Cardinality(below(i)) + 1 <= n
    <3> SUFFICES ASSUME NEW i \in S PROVE Cardinality(below(i)) + 1 <= n
      OBVIOUS
    <3>1. Cardinality(below(i) \cup {i}) <= Cardinality(S)
      BY <1>1, <1>4, FS_Subset
    <3>2. QED
      BY <1>1, <1>5, <3>1
  <2>2. QED
    BY <1>2, <2>1
<1>8. rank \in Injection(S, 1..n)
  <2>1. rank \in [S -> 1..n]
    BY <1>7
  <2>2. \A i, j \in S : i # j => rank[i] # rank[j]
    <3> SUFFICES ASSUME NEW i \in S, NEW j \in S, <<i, j>> \in R PROVE rank[i] # rank[j]
      BY DEF S
    <3>1. Cardinality(below(i)) + 1 <= Cardinality(below(j))
      BY <1>6
    <3>2. Cardinality(below(i)) \in Nat /\ Cardinality(below(j)) \in Nat
      BY <1>2
    <3>3. QED
      BY <3>1, <3>2
  <2> HIDE DEF rank
  <2>3. QED
    BY <2>1, <2>2 DEF Injection, IsInjective
<1>9. \A i \in S : rank[i] = Cardinality(below(i)) + 1
  OBVIOUS
<1> HIDE DEF rank
<1>10. rank \in Surjection(S, 1..n)
  BY <1>1, <1>8, FS_Injection, FS_Interval DEF S
<1>11. QED
  BY <1>9, <1>10 DEF Surjection, S, below

(* The members of a longer sequence. *)
LEMMA AppendedSet ==
    ASSUME NEW S, NEW k \in Seq(S), NEW x \in S
    PROVE  ToSet(Append(k, x)) = ToSet(k) \cup {x} /\ Append(k, x) # <<>>
<1> DEFINE k2 == Append(k, x)
<1>1. /\ Len(k) \in Nat /\ DOMAIN k = 1..Len(k) /\ DOMAIN k2 = 1..(Len(k) + 1)
      /\ Len(k2) = Len(k) + 1
      /\ k2[Len(k) + 1] = x /\ \A n \in 1..Len(k) : k2[n] = k[n]
  BY AppendProperties, LenProperties
<1> HIDE DEF k2
<1>2. DOMAIN k2 = DOMAIN k \cup {Len(k) + 1}
  BY <1>1
<1>3. \A n \in DOMAIN k : k2[n] = k[n]
  BY <1>1
<1>4. ToSet(k2) = {k2[n] : n \in DOMAIN k \cup {Len(k) + 1}}
  BY <1>2, Zenon DEF ToSet
<1>5. \A y : y \in ToSet(k2) <=> (\E n \in DOMAIN k : y = k[n]) \/ y = x
  BY <1>1, <1>3, <1>4
<1>6. \A y : y \in ToSet(k) <=> \E n \in DOMAIN k : y = k[n]
  BY Zenon DEF ToSet
<1>7. ToSet(k2) = ToSet(k) \cup {x} /\ k2 # <<>>
  BY <1>1, <1>5, <1>6, EmptySeq
<1>8. QED
  BY <1>7 DEF k2

(* A sequence of a finite set holds each of its elements once. *)
LEMMA SequenceOfSet ==
    ASSUME NEW T, IsFiniteSet(T), NEW s \in SetToSeqs(T)
    PROVE  /\ IsRows(s) /\ \A j \in DOMAIN s : s[j] \in T
           /\ \A x \in T : \E j \in DOMAIN s : s[j] = x
           /\ \A i, j \in DOMAIN s : s[i] = s[j] => i = j
<1> DEFINE n == Cardinality(T)
           D == 1..n
<1>1. n \in Nat
  BY FS_CardinalityType
<1>2. s \in [D -> T] /\ \A i, j \in D : i # j => s[i] # s[j]
  BY DEF SetToSeqs
<1>3. IsFiniteSet(D) /\ Cardinality(D) = n
  BY <1>1, FS_Interval
<1>4. s \in Seq(T)
  BY <1>1, <1>2
<1> HIDE DEF D
<1>5. s \in Injection(D, T)
  BY <1>2 DEF Injection, IsInjective
<1>6. s \in Surjection(D, T)
  BY <1>3, <1>5, FS_Injection
<1>7. \A x \in T : \E j \in D : s[j] = x
  BY <1>6 DEF Surjection
<1>8. DOMAIN s = D
  BY <1>2
<1>9. QED
  BY <1>2, <1>4, <1>7, <1>8 DEF IsRows

(* A row put in the place of another. *)
LEMMA ReplacedRow ==
    ASSUME NEW s, IsRows(s), NEW at \in DOMAIN s, NEW e, NEW t, t = [s EXCEPT ![at] = e]
    PROVE  /\ IsRows(t) /\ DOMAIN t = DOMAIN s /\ t[at] = e
           /\ \A i \in DOMAIN s : i # at => t[i] = s[i]
           /\ Len(s) \in Nat /\ DOMAIN s = 1..Len(s)
<1>1. PICK S : s \in Seq(S)
  BY DEF IsRows
<1>2. Len(s) \in Nat /\ DOMAIN s = 1..Len(s) /\ s \in [1..Len(s) -> S]
  BY <1>1, LenProperties
<1>3. t \in [1..Len(s) -> S \cup {e}]
  BY <1>2
<1>4. t \in Seq(S \cup {e})
  BY <1>2, <1>3, SeqDef
<1>5. QED
  BY <1>2, <1>4 DEF IsRows

(* Two members make two. *)
LEMMA TwoMembers ==
    ASSUME NEW S, IsFiniteSet(S), NEW x \in S, NEW y \in S, ~(Cardinality(S) > 1)
    PROVE  x = y
<1> SUFFICES ASSUME x # y PROVE FALSE
  OBVIOUS
<1>1. IsFiniteSet({x}) /\ Cardinality({x}) = 1
  BY FS_Singleton
<1>2. IsFiniteSet({x} \cup {y}) /\ Cardinality({x} \cup {y}) = 2
  <2> DEFINE T == {x}
  <2>1. y \notin T
    OBVIOUS
  <2>2. IsFiniteSet(T) /\ Cardinality(T) = 1
    BY <1>1
  <2> HIDE DEF T
  <2>3. IsFiniteSet(T \cup {y}) /\ Cardinality(T \cup {y}) = 2
    BY <2>1, <2>2, FS_AddElement
  <2>4. QED
    BY <2>3 DEF T
<1>3. {x} \cup {y} \subseteq S
  OBVIOUS
<1>4. Cardinality({x} \cup {y}) <= Cardinality(S) /\ Cardinality(S) \in Nat
  BY <1>3, FS_Subset, FS_CardinalityType
<1>5. QED
  BY <1>2, <1>4

(* An order ranks a place before those it precedes. *)
LEMMA RankGrows ==
    ASSUME NEW n \in Nat, NEW R,
           \A i \in 1..n : <<i, i>> \notin R,
           \A i, j, k \in 1..n : <<i, j>> \in R /\ <<j, k>> \in R => <<i, k>> \in R,
           NEW i \in 1..n, NEW j \in 1..n, <<i, j>> \in R
    PROVE  Cardinality(PlacesBefore(n, R, i)) < Cardinality(PlacesBefore(n, R, j))
<1> DEFINE a == PlacesBefore(n, R, i)
           b == PlacesBefore(n, R, j)
<1>1. IsFiniteSet(1..n) /\ a \subseteq 1..n /\ b \subseteq 1..n
  <2>1. IsFiniteSet(1..n)
    BY FS_Interval
  <2>2. a \subseteq 1..n /\ b \subseteq 1..n
    BY DEF PlacesBefore
  <2>3. QED
    BY <2>1, <2>2
<1>2. i \notin a /\ a \cup {i} \subseteq b
  BY DEF PlacesBefore
<1> HIDE DEF a, b
<1>3. IsFiniteSet(a) /\ IsFiniteSet(b) /\ Cardinality(a) \in Nat /\ Cardinality(b) \in Nat
  BY <1>1, FS_Subset, FS_CardinalityType
<1>4. Cardinality(a \cup {i}) = Cardinality(a) + 1
  BY <1>2, <1>3, FS_AddElement
<1>5. Cardinality(a \cup {i}) <= Cardinality(b)
  BY <1>2, <1>3, FS_Subset
<1>6. QED
  BY <1>3, <1>4, <1>5 DEF a, b

(* The rows t are the rows s, moved. *)
Permutes(p, s, t) ==
    /\ p \in Bijection(DOMAIN s, DOMAIN s) /\ DOMAIN t = DOMAIN s
    /\ \A k \in DOMAIN s : t[k] = s[p[k]]

(* Rows put in the order of their times are the same rows, moved. *)
LEMMA ByTimePermutes ==
    ASSUME NEW s, IsRows(s), \A i \in DOMAIN s : s[i].time \in Int
    PROVE  /\ \E p : Permutes(p, s, ByTime(s))
           /\ \A i, j \in DOMAIN s : i < j => ByTime(s)[i].time <= ByTime(s)[j].time
<1> DEFINE n == Len(s)
           before(i, j) == s[i].time < s[j].time \/ (s[i].time = s[j].time /\ i < j)
           R == {x \in (1..n) \X (1..n) : before(x[1], x[2])}
           rank(i) == Cardinality({j \in DOMAIN s : before(j, i)}) + 1
           at(k) == CHOOSE i \in DOMAIN s : rank(i) = k
           p == [k \in DOMAIN s |-> at(k)]
           t == ByTime(s)
<1>1. n \in Nat /\ DOMAIN s = 1..n
  BY LenProperties DEF IsRows
<1>2. \A i, j \in 1..n : before(i, j) <=> <<i, j>> \in R
  OBVIOUS
<1>3. t = [k \in DOMAIN s |-> s[at(k)]]
  BY DEF ByTime, Sorted
<1>4. \A i \in 1..n : ~before(i, i)
  BY <1>1
<1>5. \A i, j, k \in 1..n : before(i, j) /\ before(j, k) => before(i, k)
  BY <1>1
<1>6. \A i, j \in 1..n : i # j => before(i, j) \/ before(j, i)
  BY <1>1
<1>7. \A i, j \in 1..n : before(i, j) => s[i].time <= s[j].time
  BY <1>1
<1> HIDE DEF n, before, R
<1>8. /\ \A i \in 1..n : <<i, i>> \notin R
      /\ \A i, j, k \in 1..n : <<i, j>> \in R /\ <<j, k>> \in R => <<i, k>> \in R
      /\ \A i, j \in 1..n : i # j => <<i, j>> \in R \/ <<j, i>> \in R
  BY <1>2, <1>4, <1>5, <1>6
<1>9. \A i \in 1..n : rank(i) = Cardinality(PlacesBefore(n, R, i)) + 1
  <2>1. \A i \in 1..n : {j \in DOMAIN s : before(j, i)} = PlacesBefore(n, R, i)
    BY <1>1, <1>2 DEF PlacesBefore
  <2>2. QED
    BY <2>1
<1>10. \A i \in 1..n : rank(i) \in Nat /\ Cardinality(PlacesBefore(n, R, i)) \in Nat
  <2>1. ASSUME NEW i \in 1..n PROVE Cardinality(PlacesBefore(n, R, i)) \in Nat
    <3>1. IsFiniteSet(1..n)
      BY <1>1, FS_Interval
    <3>2. PlacesBefore(n, R, i) \subseteq 1..n
      BY DEF PlacesBefore
    <3>3. QED
      BY <3>1, <3>2, FS_Subset, FS_CardinalityType
  <2>2. QED
    BY <1>9, <2>1
<1>11. ASSUME NEW i \in 1..n, NEW j \in 1..n, before(i, j) PROVE rank(i) < rank(j)
  <2>1. <<i, j>> \in R
    BY <1>2, <1>11
  <2>2. Cardinality(PlacesBefore(n, R, i)) < Cardinality(PlacesBefore(n, R, j))
    BY <1>1, <1>8, <2>1, RankGrows
  <2> DEFINE a == Cardinality(PlacesBefore(n, R, i))
             b == Cardinality(PlacesBefore(n, R, j))
  <2>3. a \in Nat /\ b \in Nat /\ rank(i) = a + 1 /\ rank(j) = b + 1 /\ a < b
    BY <1>9, <1>10, <2>2
  <2> HIDE DEF rank, a, b
  <2>4. QED
    BY <2>3
<1>12. \A k \in 1..n : \E i \in 1..n : rank(i) = k
  <2>1. \A k \in 1..n : \E i \in 1..n : Cardinality(PlacesBefore(n, R, i)) + 1 = k
    BY <1>1, <1>8, RanksAreTaken
  <2> HIDE DEF rank
  <2>2. QED
    BY <1>9, <2>1
<1> HIDE DEF rank
<1>13. \A k \in 1..n : at(k) \in 1..n /\ rank(at(k)) = k
  BY <1>1, <1>12
<1>14. \A i, j \in 1..n : rank(i) = rank(j) => i = j
  BY <1>6, <1>10, <1>11
<1>15. \A i \in 1..n : rank(i) \in 1..n
  <2> DEFINE S == 1..n
             q == [k \in S |-> at(k)]
  <2>1. q \in [S -> S] /\ \A k \in S : rank(q[k]) = k
    BY <1>13
  <2>2. q \in Injection(S, S)
    <3> HIDE DEF q, S, at
    <3>1. QED
      BY <2>1 DEF Injection, IsInjective
  <2>3. IsFiniteSet(S)
    BY <1>1, FS_Interval
  <2>4. q \in Surjection(S, S)
    <3> HIDE DEF q, S
    <3>1. QED
      BY <2>2, <2>3, FS_Injection
  <2>5. ASSUME NEW i \in S PROVE \E k \in S : q[k] = i
    <3> HIDE DEF q, S
    <3>1. QED
      BY <2>4 DEF Surjection
  <2>6. QED
    <3> HIDE DEF q
    <3>1. QED
      BY <2>1, <2>5
<1> HIDE DEF at
<1>16. p \in [1..n -> 1..n] /\ \A k \in 1..n : rank(p[k]) = k
  BY <1>1, <1>13
<1>17. p \in Bijection(DOMAIN s, DOMAIN s)
  <2> HIDE DEF p
  <2>1. p \in Injection(1..n, 1..n)
    BY <1>16 DEF Injection, IsInjective
  <2>2. p \in Surjection(1..n, 1..n)
    <3>1. ASSUME NEW i \in 1..n PROVE \E k \in 1..n : p[k] = i
      <4>1. rank(i) \in 1..n /\ rank(p[rank(i)]) = rank(i) /\ p[rank(i)] \in 1..n
        BY <1>15, <1>16
      <4>2. QED
        BY <1>14, <4>1
    <3>2. QED
      BY <1>16, <3>1 DEF Surjection
  <2>3. QED
    BY <1>1, <2>1, <2>2 DEF Bijection
<1>18. DOMAIN t = DOMAIN s /\ \A k \in DOMAIN s : t[k] = s[p[k]]
  <2> HIDE DEF t
  <2>1. QED
    BY <1>3
<1>19. ASSUME NEW i \in DOMAIN s, NEW j \in DOMAIN s, i < j PROVE t[i].time <= t[j].time
  <2> HIDE DEF p, t
  <2>1. p[i] \in 1..n /\ p[j] \in 1..n /\ rank(p[i]) = i /\ rank(p[j]) = j
    BY <1>1, <1>16
  <2>2. ~before(p[j], p[i]) /\ p[i] # p[j]
    BY <1>1, <1>11, <1>19, <2>1
  <2>3. s[p[i]].time <= s[p[j]].time
    BY <1>6, <1>7, <2>1, <2>2
  <2>4. QED
    BY <1>18, <2>3
<1>20. Permutes(p, s, t)
  <2> HIDE DEF p, t
  <2>1. QED
    BY <1>17, <1>18 DEF Permutes
<1>21. QED
  BY <1>19, <1>20

(* A distance lies in one of the spans laid behind one another. *)
LEMMA OneSpan ==
    ASSUME NEW d \in Nat, NEW p \in Nat \ {0}
    PROVE  \E q \in 1..(d + 1) : /\ (q - 1) * p <= d /\ d < (q - 1) * p + p
                                 /\ \A v \in Nat : (v - 1) * p <= d /\ d < (v - 1) * p + p => v = q
<1> DEFINE S == {q \in 1..(d + 1) : d < q * p}
<1>1. d + 1 \in S
  <2>1. (d + 1) * p = (d + 1) + (d + 1) * (p - 1) /\ (d + 1) * (p - 1) >= 0
    <3>1. p - 1 \in Nat /\ d + 1 \in Nat
      OBVIOUS
    <3>2. (d + 1) * (p - 1) \in Nat
      BY <3>1
    <3>3. QED
      BY <3>2
  <2>2. d < (d + 1) * p
    BY <2>1
  <2>3. QED
    BY <2>2
<1>2. PICK q \in S : \A v \in S : q <= v
  <2>1. S \in SUBSET (1..(d + 1))
    OBVIOUS
  <2> HIDE DEF S
  <2>2. d + 1 \in Nat /\ S # {}
    BY <1>1
  <2>3. QED
    BY <2>1, <2>2, LeastMember
<1>3. q \in 1..(d + 1) /\ d < q * p
  OBVIOUS
<1>4. (q - 1) * p <= d
  <2>1. CASE q = 1
    BY <2>1
  <2>2. CASE q # 1
    <3>1. q - 1 \in 1..(d + 1) /\ q - 1 < q
      BY <1>3, <2>2
    <3>2. q - 1 \notin S
      BY <1>2, <3>1
    <3>3. ~(d < (q - 1) * p)
      BY <3>1, <3>2
    <3>4. (q - 1) * p \in Int
      BY <3>1
    <3>5. QED
      BY <3>3, <3>4
  <2>3. QED
    BY <2>1, <2>2
<1> HIDE DEF S
<1>5. \A u, v \in Nat : u < v => u * p <= (v - 1) * p
  <2> SUFFICES ASSUME NEW u \in Nat, NEW v \in Nat, u < v PROVE u * p <= (v - 1) * p
    OBVIOUS
  <2>1. (v - 1) - u \in Nat
    OBVIOUS
  <2>2. ((v - 1) - u) * p \in Nat
    BY <2>1
  <2>3. ((v - 1) - u) * p = (v - 1) * p - u * p
    OBVIOUS
  <2>4. u * p \in Int /\ (v - 1) * p \in Int
    OBVIOUS
  <2>5. QED
    BY <2>2, <2>3, <2>4
<1>6. \A v \in Nat : (v - 1) * p + p = v * p /\ v * p \in Int /\ (v - 1) * p \in Int
  OBVIOUS
<1>7. ASSUME NEW v \in Nat, (v - 1) * p <= d, d < (v - 1) * p + p
      PROVE  v = q
  <2>1. q \in Nat
    BY <1>3
  <2>2. ~(v < q)
    BY <1>4, <1>5, <1>6, <1>7, <2>1
  <2>3. ~(q < v)
    BY <1>3, <1>5, <1>6, <1>7, <2>1
  <2>4. QED
    BY <2>1, <2>2, <2>3
<1>8. QED
  BY <1>3, <1>4, <1>6, <1>7

(* Rows that are moved stay as many. *)
LEMMA MovedRows ==
    ASSUME NEW s, IsRows(s), NEW p, NEW t, Permutes(p, s, t), NEW A, A \subseteq DOMAIN s
    PROVE  Cardinality({k \in DOMAIN s : p[k] \in A}) = Cardinality(A)
<1> DEFINE D == DOMAIN s
           B == {k \in D : p[k] \in A}
           f == [k \in B |-> p[k]]
<1>1. IsFiniteSet(D)
  <2>1. Len(s) \in Nat /\ D = 1..Len(s)
    BY LenProperties DEF IsRows
  <2>2. QED
    BY <2>1, FS_Interval
<1>2. p \in Bijection(D, D)
  BY DEF Permutes
<1>3. A \subseteq D /\ B \subseteq D
  OBVIOUS
<1>4. f \in [B -> A] /\ \A k \in B : f[k] = p[k]
  OBVIOUS
<1>5. \A k \in D : k \in B <=> p[k] \in A
  OBVIOUS
<1> HIDE DEF D, B, f
<1>6. p \in [D -> D] /\ (\A a, b \in D : p[a] = p[b] => a = b) /\ \A a \in D : \E k \in D : p[k] = a
  BY <1>2 DEF Bijection, Injection, IsInjective, Surjection
<1>7. f \in Injection(B, A)
  BY <1>3, <1>4, <1>6 DEF Injection, IsInjective
<1>8. f \in Surjection(B, A)
  <2>1. ASSUME NEW a \in A PROVE \E k \in B : f[k] = a
    <3>1. PICK k \in D : p[k] = a
      BY <1>3, <1>6
    <3>2. k \in B
      BY <1>5, <3>1
    <3>3. QED
      BY <1>4, <3>1, <3>2
  <2>2. QED
    BY <1>4, <2>1 DEF Surjection
<1>9. IsFiniteSet(B)
  BY <1>1, <1>3, FS_Subset
<1>10. Cardinality(B) = Cardinality(A)
  BY <1>7, <1>8, <1>9, FS_Bijection DEF ExistsBijection, Bijection
<1>11. QED
  BY <1>10 DEF B, D

(* A move leaves every row in one place. *)
LEMMA MovedOnce ==
    ASSUME NEW p, NEW s, NEW t, Permutes(p, s, t)
    PROVE  /\ DOMAIN t = DOMAIN s /\ \A k \in DOMAIN s : p[k] \in DOMAIN s /\ t[k] = s[p[k]]
           /\ \A a \in DOMAIN s : \E k \in DOMAIN s : p[k] = a /\ \A i \in DOMAIN s : p[i] = a => i = k
<1> DEFINE D == DOMAIN s
<1>1. p \in Bijection(D, D) /\ DOMAIN t = D /\ \A k \in D : t[k] = s[p[k]]
  BY DEF Permutes
<1> HIDE DEF D
<1>2. p \in [D -> D] /\ (\A a, b \in D : p[a] = p[b] => a = b) /\ \A a \in D : \E k \in D : p[k] = a
  BY <1>1 DEF Bijection, Injection, IsInjective, Surjection
<1>3. \A a \in D : \E k \in D : p[k] = a /\ \A i \in D : p[i] = a => i = k
  BY <1>2
<1>4. \A k \in D : p[k] \in D
  BY <1>2
<1>5. QED
  BY <1>1, <1>3, <1>4 DEF D
=============================================================================
