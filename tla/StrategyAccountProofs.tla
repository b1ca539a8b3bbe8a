----------------------- MODULE StrategyAccountProofs -----------------------
(***************************************************************************)
(* The accounts of StrategyBroker: the size and the direction of the       *)
(* position against its open trades, and the contracts that were entered   *)
(* and exited, for every mixture of entries, orders, exits and reversals.  *)
(* They rest on a theory of the sum over a finite set of open trades.      *)
(***************************************************************************)
EXTENDS StrategyBrokerProofs, WellFoundedInduction

(* Induction over the subsets of a finite set, from a least counterexample. *)
LEMMA LeastNumber ==
  ASSUME NEW S \in SUBSET Nat, S # {}
  PROVE  \E m \in S : \A n \in S : m <= n
<1>1. PICK m \in S : \A n \in S : ~(<< n, m >> \in OpToRel(<, Nat))
  BY NatLessThanWellFounded, WFMin
<1>2. \A n \in S : ~(n < m)
  BY <1>1 DEF OpToRel
<1> QED
  BY <1>2

LEMMA SubsetInduction ==
  ASSUME NEW S, IsFiniteSet(S), NEW Q, {} \in Q,
         \A s \in SUBSET S : s # {} /\ (\A x \in s : s \ {x} \in Q) => s \in Q
  PROVE  \A s \in SUBSET S : s \in Q
<1> DEFINE Bad == {s \in SUBSET S : s \notin Q}
           Count == {Cardinality(s) : s \in Bad}
<1>1. \A s \in SUBSET S : IsFiniteSet(s) /\ Cardinality(s) \in Nat
  BY FS_Subset, FS_CardinalityType
<1>2. ASSUME Bad # {} PROVE FALSE
  <2>1. Count \in SUBSET Nat /\ Count # {}
    BY <1>1, <1>2
  <2>2. PICK m \in Count : \A n \in Count : m <= n
    <3> HIDE DEF Count
    <3> QED
      BY <2>1, LeastNumber
  <2>3. PICK s \in Bad : Cardinality(s) = m
    OBVIOUS
  <2>4. s \in SUBSET S /\ s # {} /\ IsFiniteSet(s) /\ m \in Nat
    BY <1>1, <2>3
  <2>5. ASSUME NEW x \in s PROVE s \ {x} \in Q
    <3>1. Cardinality(s \ {x}) = m - 1 /\ s \ {x} \in SUBSET S
      BY <2>3, <2>4, FS_RemoveElement
    <3>2. ~(m <= m - 1)
      BY <2>4
    <3>3. s \ {x} \notin Bad
      BY <2>2, <3>1, <3>2
    <3> QED
      BY <3>1, <3>3
  <2>6. s \in Q
    BY <2>4, <2>5
  <2> QED
    BY <2>6
<1> QED
  BY <1>2

LEMMA ImageFinite ==
  ASSUME NEW S, IsFiniteSet(S), NEW f
  PROVE  IsFiniteSet({f[x] : x \in S})
<1> DEFINE g == [x \in S |-> f[x]]
           T == {f[x] : x \in S}
<1>1. g \in Surjection(S, T)
  BY DEF Surjection
<1> HIDE DEF g, T
<1>2. IsFiniteSet(T)
  BY <1>1, FS_Surjection
<1> QED
  BY <1>2 DEF T

(* A finite set of numbers has a greatest one.                             *)
LEMMA GreatestNumber ==
  ASSUME NEW S \in SUBSET Nat, IsFiniteSet(S), S # {}
  PROVE  Max(S) \in S /\ \A y \in S : Max(S) >= y
<1> DEFINE Q == {s \in SUBSET S : s = {} \/ \E m \in s : \A y \in s : m >= y}
<1>1. ASSUME NEW s \in SUBSET S, s # {}, \A x \in s : s \ {x} \in Q
      PROVE  s \in Q
  <2>1. PICK x \in s : TRUE
    BY <1>1
  <2>2. CASE s \ {x} = {}
    BY <2>1, <2>2
  <2>3. CASE s \ {x} # {}
    <3>1. PICK m \in s \ {x} : \A y \in s \ {x} : m >= y
      BY <1>1, <2>1, <2>3
    <3>2. m \in Nat /\ x \in Nat /\ \A y \in s : y \in Nat
      BY <3>1, <1>1
    <3>3. CASE m >= x
      BY <3>1, <3>3
    <3>4. CASE x >= m
      <4>1. \A y \in s : x >= y
        BY <3>1, <3>2, <3>4
      <4> QED
        BY <4>1
    <3> QED
      BY <3>2, <3>3, <3>4
  <2> QED
    BY <2>2, <2>3
<1>2. {} \in Q
  OBVIOUS
<1>3. S \in Q
  <2> HIDE DEF Q
  <2> QED
    BY <1>1, <1>2, SubsetInduction
<1> QED
  BY <1>3 DEF Max

----------------------------------------------------------------------------
(* The sum of the sizes of a finite set of open trades.                    *)

PickOne(s) == CHOOSE l \in s : TRUE
SumOf(g, s) == IF s = {} THEN 0 ELSE PickOne(s).size + g[s \ {PickOne(s)}]
IsSum(g, S) == g = [s \in SUBSET S |-> SumOf(g, s)]

LEMMA SumExists ==
  ASSUME NEW S, IsFiniteSet(S)
  PROVE  \E g : IsSum(g, S)
<1> DEFINE Upto(g, n) ==
             /\ g = [s \in SUBSET S |-> g[s]]
             /\ \A s \in SUBSET S : Cardinality(s) <= n => g[s] = SumOf(g, s)
           Bad == {n \in Nat : ~\E g : Upto(g, n)}
<1>1. \A s \in SUBSET S : IsFiniteSet(s) /\ Cardinality(s) \in Nat
  BY FS_Subset, FS_CardinalityType
<1>2. ASSUME Bad # {} PROVE FALSE
  <2>1. PICK m \in Bad : \A n \in Bad : m <= n
    <3>1. Bad \in SUBSET Nat
      OBVIOUS
    <3> HIDE DEF Bad
    <3> QED
      BY <1>2, <3>1, LeastNumber
  <2>2. CASE m = 0
    <3> DEFINE g == [s \in SUBSET S |-> 0]
    <3>1. \A s \in SUBSET S : Cardinality(s) <= 0 => s = {}
      BY <1>1, FS_EmptySet
    <3>2. Upto(g, 0)
      BY <3>1 DEF SumOf
    <3> QED
      BY <2>1, <2>2, <3>2
  <2>3. CASE m # 0
    <3>1. m \in Nat /\ m - 1 \in Nat /\ ~(m <= m - 1)
      BY <2>1, <2>3
    <3>2. m - 1 \notin Bad
      BY <2>1, <3>1
    <3>3. PICK g : Upto(g, m - 1)
      BY <3>1, <3>2
    <3> DEFINE h == [s \in SUBSET S |->
                       IF Cardinality(s) <= m - 1 THEN g[s] ELSE SumOf(g, s)]
    <3>4. ASSUME NEW s \in SUBSET S, Cardinality(s) <= m
          PROVE  SumOf(h, s) = SumOf(g, s) /\ h[s] = SumOf(g, s)
      <4>1. h[s] = SumOf(g, s)
        BY <3>3
      <4>2. CASE s = {}
        BY <4>1, <4>2 DEF SumOf
      <4>3. CASE s # {}
        <5> DEFINE t == s \ {PickOne(s)}
        <5>1. PickOne(s) \in s
          BY <4>3 DEF PickOne
        <5>2. Cardinality(t) = Cardinality(s) - 1 /\ t \in SUBSET S
          BY <1>1, <5>1, FS_RemoveElement
        <5>3. Cardinality(t) <= m - 1
          BY <1>1, <3>1, <3>4, <5>2
        <5> HIDE DEF t
        <5>4. h[t] = g[t]
          BY <5>2, <5>3
        <5> QED
          BY <4>1, <4>3, <5>4 DEF SumOf, t
      <4> QED
        BY <4>2, <4>3
    <3>5. Upto(h, m)
      <4>1. h = [s \in SUBSET S |-> h[s]]
        OBVIOUS
      <4> HIDE DEF h
      <4> QED
        BY <3>4, <4>1
    <3> QED
      BY <2>1, <3>5
  <2> QED
    BY <2>2, <2>3
<1>3. Cardinality(S) \in Nat
  BY FS_CardinalityType
<1>4. PICK g : Upto(g, Cardinality(S))
  BY <1>2, <1>3
<1>5. \A s \in SUBSET S : Cardinality(s) <= Cardinality(S)
  BY FS_Subset
<1>6. IsSum(g, S)
  BY <1>4, <1>5 DEF IsSum
<1> QED
  BY <1>6

LEMMA SizesIsSum ==
  ASSUME NEW S, IsFiniteSet(S)
  PROVE  \E g : IsSum(g, S) /\ Sizes(S) = g[S]
<1>1. PICK h : IsSum(h, S)
  BY SumExists
<1> QED
  BY <1>1 DEF Sizes, MapThenSumSet, MapThenFoldSet, IsSum, SumOf, PickOne


(* Open trades, of which there are finitely many, each of some size.       *)
Sized(S) == IsFiniteSet(S) /\ \A l \in S : l.size \in Nat

LEMMA SumIsNat ==
  ASSUME NEW S, Sized(S), NEW h, IsSum(h, S)
  PROVE  \A s \in SUBSET S : h[s] \in Nat
<1> DEFINE Q == {s \in SUBSET S : h[s] \in Nat}
<1>1. {} \in Q
  BY DEF IsSum, SumOf
<1>2. ASSUME NEW s \in SUBSET S, s # {}, \A x \in s : s \ {x} \in Q
      PROVE  s \in Q
  <2> DEFINE c == PickOne(s)
  <2>1. c \in s
    BY <1>2 DEF PickOne
  <2>2. c.size \in Nat
    <3> HIDE DEF c
    <3> QED
      BY <2>1 DEF Sized
  <2>3. h[s \ {c}] \in Nat
    BY <1>2, <2>1
  <2>4. h[s] = c.size + h[s \ {c}]
    BY <1>2 DEF IsSum, SumOf
  <2> HIDE DEF c
  <2> QED
    BY <2>2, <2>3, <2>4
<1>3. \A s \in SUBSET S : s \in Q
  <2> HIDE DEF Q
  <2> QED
    BY <1>1, <1>2, SubsetInduction DEF Sized
<1> QED
  BY <1>3

(* The sum does not depend on which element is taken first.                *)
LEMMA SumTakesAny ==
  ASSUME NEW S, Sized(S), NEW h, IsSum(h, S)
  PROVE  \A s \in SUBSET S : \A x \in s : h[s] = x.size + h[s \ {x}]
<1> DEFINE Q == {s \in SUBSET S : \A x \in s : h[s] = x.size + h[s \ {x}]}
<1>1. \A s \in SUBSET S : h[s] \in Nat
  BY SumIsNat
<1>2. ASSUME NEW s \in SUBSET S, s # {}, \A x \in s : s \ {x} \in Q
      PROVE  s \in Q
  <2> DEFINE c == PickOne(s)
  <2>1. c \in s
    BY <1>2 DEF PickOne
  <2>2. h[s] = c.size + h[s \ {c}]
    BY <1>2 DEF IsSum, SumOf
  <2> HIDE DEF c
  <2>3. ASSUME NEW x \in s, x # c
        PROVE  h[s] = x.size + h[s \ {x}]
    <3>1. h[s \ {c}] = x.size + h[(s \ {c}) \ {x}]
      BY <1>2, <2>1, <2>3
    <3>2. h[s \ {x}] = c.size + h[(s \ {x}) \ {c}]
      BY <1>2, <2>1, <2>3
    <3>3. (s \ {c}) \ {x} = (s \ {x}) \ {c}
      OBVIOUS
    <3> DEFINE rest == h[(s \ {x}) \ {c}]
               hc == h[s \ {c}]
               hx == h[s \ {x}]
    <3>4. x.size \in Nat /\ c.size \in Nat /\ rest \in Nat
      BY <1>1, <2>1 DEF Sized
    <3>5. hc = x.size + rest /\ hx = c.size + rest
      BY <3>1, <3>2, <3>3
    <3>6. h[s] = c.size + hc
      BY <2>2
    <3> HIDE DEF rest, hc, hx
    <3>7. h[s] = x.size + hx
      BY <3>4, <3>5, <3>6
    <3> QED
      BY <3>7 DEF hx
  <2> QED
    BY <2>2, <2>3
<1>3. \A s \in SUBSET S : s \in Q
  <2>1. {} \in Q
    OBVIOUS
  <2> HIDE DEF Q
  <2> QED
    BY <1>2, <2>1, SubsetInduction DEF Sized
<1> QED
  BY <1>3

LEMMA SumsAgree ==
  ASSUME NEW S, Sized(S), NEW h, IsSum(h, S),
         NEW T \in SUBSET S, NEW g, IsSum(g, T)
  PROVE  \A s \in SUBSET T : g[s] = h[s]
<1> DEFINE Q == {s \in SUBSET T : g[s] = h[s]}
<1>1. IsFiniteSet(T)
  BY FS_Subset DEF Sized
<1>2. {} \in Q
  BY DEF IsSum, SumOf
<1>3. ASSUME NEW s \in SUBSET T, s # {}, \A x \in s : s \ {x} \in Q
      PROVE  s \in Q
  <2> DEFINE c == PickOne(s)
  <2>1. c \in s
    BY <1>3 DEF PickOne
  <2>2. g[s \ {c}] = h[s \ {c}]
    BY <1>3, <2>1
  <2>3. g[s] = c.size + g[s \ {c}] /\ h[s] = c.size + h[s \ {c}]
    BY <1>3 DEF IsSum, SumOf
  <2> QED
    BY <2>2, <2>3
<1>4. \A s \in SUBSET T : s \in Q
  <2> HIDE DEF Q
  <2> QED
    BY <1>1, <1>2, <1>3, SubsetInduction
<1> QED
  BY <1>4

(* What the sum of the sizes is, without how it is computed.               *)
LEMMA SizesFacts ==
  ASSUME NEW S, Sized(S)
  PROVE  /\ Sizes({}) = 0
         /\ Sizes(S) \in Nat
         /\ \A s \in SUBSET S :
              /\ Sizes(s) \in Nat
              /\ \A x \in s : Sizes(s) = x.size + Sizes(s \ {x})
<1>1. PICK h : IsSum(h, S)
  BY SumExists DEF Sized
<1>2. ASSUME NEW s \in SUBSET S
      PROVE  Sizes(s) = h[s]
  <2>1. IsFiniteSet(s)
    BY FS_Subset DEF Sized
  <2>2. PICK g : IsSum(g, s) /\ Sizes(s) = g[s]
    BY <2>1, SizesIsSum
  <2>3. g[s] = h[s]
    BY <1>1, <2>2, SumsAgree
  <2> QED
    BY <2>2, <2>3
<1>3. h[{}] = 0
  BY <1>1 DEF IsSum, SumOf
<1>4. \A s \in SUBSET S : h[s] \in Nat
  BY <1>1, SumIsNat
<1>5. ASSUME NEW s \in SUBSET S, NEW x \in s
      PROVE  h[s] = x.size + h[s \ {x}]
  BY <1>1, SumTakesAny
<1>6. Sizes({}) = 0
  BY <1>2, <1>3, {} \in SUBSET S
<1>7. \A s \in SUBSET S : Sizes(s) \in Nat
  BY <1>2, <1>4
<1>8. ASSUME NEW s \in SUBSET S, NEW x \in s
      PROVE  Sizes(s) = x.size + Sizes(s \ {x})
  BY <1>2, <1>5, s \ {x} \in SUBSET S
<1> QED
  BY <1>6, <1>7, <1>8, S \in SUBSET S

LEMMA SizesOfNone == Sizes({}) = 0
<1>1. Sized({})
  BY FS_EmptySet DEF Sized
<1> QED
  BY <1>1, SizesFacts

LEMMA SizesOfOne ==
  ASSUME NEW l, l.size \in Nat
  PROVE  Sizes({l}) = l.size
<1>1. Sized({l})
  BY FS_Singleton DEF Sized
<1>2. Sizes({l}) = l.size + Sizes({l} \ {l})
  BY <1>1, SizesFacts
<1>3. {l} \ {l} = {}
  OBVIOUS
<1> QED
  BY <1>2, <1>3, SizesOfNone

LEMMA SizesOfOneMore ==
  ASSUME NEW S, Sized(S), NEW l, l.size \in Nat
  PROVE  /\ Sized(S \union {l})
         /\ l \notin S => Sizes(S \union {l}) = Sizes(S) + l.size
         /\ Sizes(S \union {l}) <= Sizes(S) + l.size
<1>1. Sized(S \union {l})
  BY FS_AddElement DEF Sized
<1>2. CASE l \in S
  <2>1. S \union {l} = S
    BY <1>2
  <2>2. Sizes(S) \in Nat
    BY SizesFacts
  <2>3. Sizes(S) <= Sizes(S) + l.size
    BY <2>2
  <2> QED
    BY <1>1, <1>2, <2>1, <2>3
<1>3. CASE l \notin S
  <2>1. (S \union {l}) \ {l} = S
    BY <1>3
  <2>2. Sizes(S \union {l}) = l.size + Sizes((S \union {l}) \ {l})
    BY <1>1, SizesFacts
  <2>3. Sizes(S) \in Nat
    BY SizesFacts
  <2> QED
    BY <1>1, <2>1, <2>2, <2>3
<1> QED
  BY <1>2, <1>3

(* A part sums to no more than the whole, and shrinking does not add.      *)
LEMMA SizesOfPart ==
  ASSUME NEW S, Sized(S), NEW T \in SUBSET S
  PROVE  Sized(T) /\ Sizes(T) <= Sizes(S)
<1> DEFINE Q == {s \in SUBSET S : Sizes(T \intersect s) <= Sizes(s)}
<1>1. Sized(T)
  BY FS_Subset DEF Sized
<1>2. {} \in Q
  BY SizesOfNone, T \intersect {} = {}
<1>3. ASSUME NEW s \in SUBSET S, s # {}, \A x \in s : s \ {x} \in Q
      PROVE  s \in Q
  <2>1. PICK x \in s : TRUE
    BY <1>3
  <2> DEFINE a == Sizes(T \intersect s)
             b == Sizes(T \intersect (s \ {x}))
             c == Sizes(s \ {x})
  <2>2. b <= c
    BY <1>3
  <2>3. x.size \in Nat /\ a \in Nat /\ b \in Nat /\ c \in Nat
    BY SizesFacts, T \intersect s \in SUBSET S, T \intersect (s \ {x}) \in SUBSET S,
       s \ {x} \in SUBSET S DEF Sized
  <2>4. Sizes(s) = x.size + c
    BY SizesFacts
  <2>5. a = b \/ a = x.size + b
    <3>1. CASE x \in T
      <4>1. (T \intersect s) \ {x} = T \intersect (s \ {x}) /\ x \in T \intersect s
        BY <3>1
      <4>2. a = x.size + Sizes((T \intersect s) \ {x})
        BY SizesFacts, T \intersect s \in SUBSET S, <4>1
      <4> QED
        BY <4>1, <4>2
    <3>2. CASE x \notin T
      <4>1. T \intersect s = T \intersect (s \ {x})
        BY <3>2
      <4> QED
        BY <4>1
    <3> QED
      BY <3>1, <3>2
  <2>6. a <= Sizes(s)
    <3> HIDE DEF a, b, c
    <3> QED
      BY <2>2, <2>3, <2>4, <2>5
  <2> QED
    BY <2>6
<1>4. S \in Q
  <2> HIDE DEF Q
  <2> QED
    BY <1>2, <1>3, SubsetInduction DEF Sized
<1>5. T \intersect S = T
  OBVIOUS
<1> QED
  BY <1>1, <1>4, <1>5

LEMMA SizesOfShrunk ==
  ASSUME NEW S, Sized(S), NEW f, \A l \in S : f[l].size \in Nat /\ f[l].size <= l.size
  PROVE  /\ Sized({f[l] : l \in S})
         /\ Sizes({f[l] : l \in S}) <= Sizes(S)
<1> DEFINE Img(s) == {f[l] : l \in s}
           Q == {s \in SUBSET S : Sizes(Img(s)) <= Sizes(s)}
<1>1. ASSUME NEW s \in SUBSET S
      PROVE  Sized(Img(s)) /\ Sized(s)
  <2>1. IsFiniteSet(s)
    BY FS_Subset DEF Sized
  <2>2. IsFiniteSet(Img(s))
    BY <2>1, ImageFinite
  <2> QED
    BY <2>1, <2>2 DEF Sized
<1>2. {} \in Q
  BY SizesOfNone, Img({}) = {}
<1>3. ASSUME NEW s \in SUBSET S, s # {}, \A x \in s : s \ {x} \in Q
      PROVE  s \in Q
  <2>1. PICK x \in s : TRUE
    BY <1>3
  <2> DEFINE y == f[x]
             a == Sizes(Img(s))
             b == Sizes(Img(s \ {x}))
             c == Sizes(s \ {x})
  <2>2. b <= c
    BY <1>3
  <2>3. Sized(Img(s \ {x})) /\ Sized(Img(s)) /\ Sized(s \ {x})
    BY <1>1
  <2>4. x.size \in Nat /\ y.size \in Nat /\ y.size <= x.size
    BY DEF Sized
  <2>5. Img(s) = Img(s \ {x}) \union {y}
    OBVIOUS
  <2> HIDE DEF Img
  <2>6. a <= b + y.size
    <3> HIDE DEF y
    <3> QED
      BY <2>3, <2>4, <2>5, SizesOfOneMore
  <2>7. a \in Nat /\ b \in Nat /\ c \in Nat
    BY <2>3, SizesFacts
  <2>8. Sizes(s) = x.size + c
    BY SizesFacts
  <2>9. a <= Sizes(s)
    <3> HIDE DEF a, b, c, y
    <3> QED
      BY <2>2, <2>4, <2>6, <2>7, <2>8
  <2> QED
    BY <2>9
<1>4. S \in Q
  <2> HIDE DEF Q
  <2> QED
    BY <1>2, <1>3, SubsetInduction DEF Sized
<1> QED
  BY <1>1, <1>4


----------------------------------------------------------------------------
(* The position.                                                           *)

PositionOK(p) ==
  /\ p.side \in Sides \union {Flat}
  /\ p.legs \subseteq Leg /\ IsFiniteSet(p.legs)
  /\ p.size = Sizes(p.legs)
  /\ p.side = Flat <=> p.legs = {}

LEMMA LegsSized ==
  ASSUME NEW ls, ls \subseteq Leg, IsFiniteSet(ls)
  PROVE  Sized(ls) /\ Sizes(ls) \in Nat
<1>1. Sized(ls)
  BY DEF Sized, Leg
<1> QED
  BY <1>1, SizesFacts

LEMMA OpenSizeOf ==
  ASSUME NEW ls, ls \subseteq Leg, IsFiniteSet(ls), NEW from
  PROVE  /\ Sizes(LegsOf(from, ls)) \in Nat
         /\ Sizes(LegsOf(from, ls)) <= Sizes(ls)
<1>1. LegsOf(from, ls) \in SUBSET ls
  BY DEF LegsOf
<1>2. Sized(ls)
  BY LegsSized
<1>3. Sized(LegsOf(from, ls)) /\ Sizes(LegsOf(from, ls)) <= Sizes(ls)
  BY <1>1, <1>2, SizesOfPart
<1> QED
  BY <1>3, SizesFacts

(* Of an open trade no more is closed than there is, and a close of the    *)
(* size of the position closes all of it.                                  *)
LEMMA CoveredPart ==
  ASSUME NEW ls, ls \subseteq Leg, IsFiniteSet(ls), NEW l \in ls, NEW from, NEW q \in Nat
  PROVE  /\ Covered(l, from, q, ls) \in Nat
         /\ Covered(l, from, q, ls) <= l.size
         /\ from = None /\ Sizes(ls) <= q => Covered(l, from, q, ls) = l.size
<1> DEFINE Before == {m \in LegsOf(from, ls) : m.no < l.no}
           older == Sizes(Before)
           rest == Sizes(ls \ {l})
           most == l.size
<1>1. Sized(ls)
  BY LegsSized
<1>2. Before \in SUBSET (ls \ {l}) /\ most \in Nat
  <2>1. l.no \in Nat /\ l.size \in Nat
    BY DEF Leg
  <2>2. ~(l.no < l.no)
    BY <2>1
  <2> QED
    BY <2>1, <2>2 DEF LegsOf
<1>3. older \in Nat /\ older <= rest /\ rest \in Nat /\ Sizes(ls) = most + rest
  <2> HIDE DEF Before
  <2>1. ls \ {l} \in SUBSET ls
    OBVIOUS
  <2>2. Sized(ls \ {l})
    BY <1>1, <2>1, SizesOfPart
  <2>3. Sized(Before) /\ older <= rest
    BY <1>2, <2>2, SizesOfPart
  <2>4. older \in Nat /\ rest \in Nat
    BY <2>2, <2>3, SizesFacts
  <2>5. Sizes(ls) = most + rest
    BY <1>1, ls \in SUBSET ls, SizesFacts
  <2> QED
    BY <2>3, <2>4, <2>5
<1>4. Covered(l, from, q, ls) =
        IF l \notin LegsOf(from, ls) \/ older >= q THEN 0 ELSE Least(most, q - older)
  BY DEF Covered
<1>5. /\ Covered(l, from, q, ls) \in Nat
      /\ Covered(l, from, q, ls) <= most
  <2> HIDE DEF older, most
  <2> QED
    BY <1>2, <1>3, <1>4 DEF Least
<1>6. ASSUME from = None, Sizes(ls) <= q
      PROVE  Covered(l, from, q, ls) = most
  <2>1. l \in LegsOf(from, ls)
    BY <1>6 DEF LegsOf
  <2> HIDE DEF older, most, rest
  <2>2. most + older <= q
    BY <1>2, <1>3, <1>6
  <2>3. CASE older >= q
    BY <1>2, <1>3, <1>4, <2>1, <2>2, <2>3
  <2>4. CASE ~(older >= q)
    <3>1. Covered(l, from, q, ls) = Least(most, q - older)
      BY <1>4, <2>1, <2>4
    <3> QED
      BY <1>2, <1>3, <2>2, <3>1 DEF Least
  <2> QED
    BY <2>3, <2>4
<1> QED
  BY <1>5, <1>6

LEMMA ShrunkLeg ==
  ASSUME NEW l \in Leg, NEW q \in Nat, q <= l.size
  PROVE  Shrink(l, q) \in Leg /\ Shrink(l, q).size = l.size - q
BY DEF Shrink, Leg

(* A close leaves a position in order, that is no larger.                  *)
LEMMA ClosedOK ==
  ASSUME NEW p, PositionOK(p), NEW from, NEW q \in Nat
  PROVE  /\ PositionOK(Closed(p, from, q))
         /\ Closed(p, from, q).size \in Nat
         /\ Closed(p, from, q).size <= p.size
         /\ Closed(p, from, q).side \in {p.side, Flat}
         /\ from = None /\ p.size <= q => Closed(p, from, q).side = Flat
<1> DEFINE Taken(l) == Covered(l, from, q, p.legs)
           kept == {m \in p.legs : Taken(m) < m.size}
           f == [l \in kept |-> Shrink(l, Taken(l))]
           left == {Shrink(l, Taken(l)) : l \in kept}
<1>1. p.legs \subseteq Leg /\ IsFiniteSet(p.legs) /\ p.size = Sizes(p.legs)
  BY DEF PositionOK
<1>2. ASSUME NEW l \in p.legs
      PROVE  /\ Taken(l) \in Nat /\ Taken(l) <= l.size
             /\ from = None /\ p.size <= q => Taken(l) = l.size
  BY <1>1, CoveredPart
<1>3. Closed(p, from, q) =
        [side |-> IF left = {} THEN Flat ELSE p.side, size |-> Sizes(left), legs |-> left]
  BY DEF Closed
<1>4. kept \in SUBSET p.legs
  OBVIOUS
<1> HIDE DEF Taken
<1>5. ASSUME NEW l \in kept
      PROVE  f[l] \in Leg /\ f[l].size \in Nat /\ f[l].size <= l.size
  <2>1. l \in p.legs /\ l \in Leg
    BY <1>1, <1>4
  <2>2. Taken(l) \in Nat /\ Taken(l) <= l.size /\ l.size \in Nat
    BY <1>2, <2>1 DEF Leg
  <2>3. Shrink(l, Taken(l)) \in Leg /\ Shrink(l, Taken(l)).size = l.size - Taken(l)
    BY <2>1, <2>2, ShrunkLeg
  <2>4. f[l] = Shrink(l, Taken(l))
    OBVIOUS
  <2> HIDE DEF f
  <2> QED
    BY <2>2, <2>3, <2>4
<1>6. left = {f[l] : l \in kept}
  OBVIOUS
<1>7. from = None /\ p.size <= q => left = {}
  <2> SUFFICES ASSUME from = None, p.size <= q, NEW l \in kept PROVE FALSE
    OBVIOUS
  <2>1. Taken(l) = l.size /\ Taken(l) < l.size /\ l \in Leg
    BY <1>1, <1>2
  <2> QED
    BY <2>1 DEF Leg
<1> HIDE DEF f, kept, left
<1>8. Sized(kept) /\ Sizes(kept) <= Sizes(p.legs) /\ Sizes(kept) \in Nat
  <2>1. Sized(p.legs)
    BY <1>1, LegsSized
  <2>2. Sized(kept) /\ Sizes(kept) <= Sizes(p.legs)
    BY <1>4, <2>1, SizesOfPart
  <2> QED
    BY <2>2, SizesFacts
<1>9. Sized(left) /\ Sizes(left) <= Sizes(kept)
  BY <1>5, <1>6, <1>8, SizesOfShrunk
<1>10. left \subseteq Leg /\ IsFiniteSet(left)
  BY <1>5, <1>6, <1>9 DEF Sized
<1>11. Sizes(left) \in Nat /\ p.size \in Nat
  BY <1>1, <1>10, LegsSized
<1>12. Sizes(left) <= p.size
  BY <1>1, <1>8, <1>9, <1>11
<1>13. p.side \in Sides \union {Flat} /\ (p.side = Flat => p.legs = {})
  BY DEF PositionOK
<1>14. p.legs = {} => left = {}
  BY <1>4, <1>6
<1>15. PositionOK([side |-> IF left = {} THEN Flat ELSE p.side,
                   size |-> Sizes(left), legs |-> left])
  BY <1>10, <1>13, <1>14 DEF PositionOK
<1> QED
  BY <1>3, <1>7, <1>11, <1>12, <1>15


(* The number of a new open trade is above those of the others.            *)
LEMMA AboveAll ==
  ASSUME NEW S, S \subseteq Nat, IsFiniteSet(S)
  PROVE  /\ Max({0} \union S) \in Nat
         /\ \A n \in S : n <= Max({0} \union S)
<1>1. IsFiniteSet({0} \union S) /\ {0} \union S \in SUBSET Nat /\ {0} \union S # {}
  BY FS_AddElement, {0} \union S = S \union {0}
<1>2. /\ Max({0} \union S) \in {0} \union S
      /\ \A y \in {0} \union S : Max({0} \union S) >= y
  BY <1>1, GreatestNumber
<1>3. Max({0} \union S) \in Nat
  BY <1>1, <1>2
<1> QED
  BY <1>2, <1>3

LEMMA NewLegIsNew ==
  ASSUME NEW ls, ls \subseteq Leg, IsFiniteSet(ls), NEW id \in Keys, NEW q \in Nat
  PROVE  /\ NewLeg(id, q, ls) \in Leg
         /\ NewLeg(id, q, ls).size = q
         /\ NewLeg(id, q, ls) \notin ls
<1> DEFINE f == [l \in ls |-> l.no]
           Nos == {l.no : l \in ls}
           top == Max({0} \union Nos)
<1>1. IsFiniteSet(Nos)
  <2>1. IsFiniteSet({f[l] : l \in ls})
    <3> HIDE DEF f
    <3> QED
      BY ImageFinite
  <2>2. Nos = {f[l] : l \in ls}
    OBVIOUS
  <2> QED
    BY <2>1, <2>2
<1>2. Nos \subseteq Nat
  BY DEF Leg
<1>3. top \in Nat /\ \A n \in Nos : n <= top
  <2> HIDE DEF Nos
  <2> QED
    BY <1>1, <1>2, AboveAll
<1>4. NewLeg(id, q, ls) = [no |-> 1 + top, id |-> id, size |-> q]
  BY DEF NewLeg
<1>5. 1 + top \in Nat /\ 1 + top \notin Nos
  <2> HIDE DEF top, Nos
  <2> QED
    BY <1>2, <1>3
<1> HIDE DEF top
<1> QED
  BY <1>4, <1>5 DEF Leg

LEMMA OldestLeg ==
  ASSUME NEW ls, ls \subseteq Leg, ls # {}
  PROVE  Oldest(ls) \in ls
<1> DEFINE Nos == {l.no : l \in ls}
<1>1. Nos \in SUBSET Nat /\ Nos # {}
  BY DEF Leg
<1>2. PICK m \in Nos : \A n \in Nos : m <= n
  <2> HIDE DEF Nos
  <2> QED
    BY <1>1, LeastNumber
<1>3. PICK l \in ls : l.no = m
  OBVIOUS
<1>4. \A x \in ls : l.no <= x.no
  BY <1>2, <1>3
<1> QED
  BY <1>4 DEF Oldest

(* An entry leaves a position in order, whose size is that of the open     *)
(* trades and grows by what is entered, if anything is.                    *)
LEMMA OpenedOK ==
  ASSUME NEW p, PositionOK(p), NEW d \in Sides, NEW id \in Keys, NEW q \in Nat
  PROVE  /\ PositionOK(Opened(p, d, id, q))
         /\ p.side # d => Opened(p, d, id, q).size = q
         /\ p.side = d => \/ Opened(p, d, id, q) = p
                          \/ Opened(p, d, id, q).size = p.size + q
<1>1. p.legs \subseteq Leg /\ IsFiniteSet(p.legs) /\ p.size = Sizes(p.legs) /\ p.size \in Nat
  BY LegsSized DEF PositionOK
<1>2. d # Flat
  BY SidesAssumption
<1>3. CASE p.side # d
  <2>1. Opened(p, d, id, q) = Begun(d, id, q)
    BY <1>3 DEF Opened
  <2> DEFINE l == NewLeg(id, q, {})
  <2>2. l \in Leg /\ l.size = q
    BY NewLegIsNew, FS_EmptySet
  <2>3. Begun(d, id, q) = [side |-> d, size |-> q, legs |-> {l}]
    BY DEF Begun
  <2> HIDE DEF l
  <2>4. Sizes({l}) = q /\ IsFiniteSet({l})
    BY <2>2, SizesOfOne, FS_Singleton
  <2>5. PositionOK([side |-> d, size |-> q, legs |-> {l}])
    BY <1>2, <2>2, <2>4 DEF PositionOK
  <2> QED
    BY <1>3, <2>1, <2>3, <2>5
<1>4. CASE p.side = d /\ Pyramiding = 0
  <2>1. Opened(p, d, id, q) = Merged(p, q)
    BY <1>4 DEF Opened
  <2> DEFINE old == Oldest(p.legs)
             l == [old EXCEPT !.size = p.size + q]
  <2>2. old \in Leg
    BY <1>1, <1>2, <1>4, OldestLeg DEF PositionOK
  <2>3. Merged(p, q) = [side |-> p.side, size |-> p.size + q, legs |-> {l}]
    BY DEF Merged
  <2> HIDE DEF old
  <2>4. p.size + q \in Nat
    BY <1>1
  <2>5. l \in Leg /\ l.size = p.size + q
    BY <2>2, <2>4 DEF Leg
  <2> HIDE DEF l
  <2>6. Sizes({l}) = p.size + q /\ IsFiniteSet({l})
    BY <2>4, <2>5, SizesOfOne, FS_Singleton
  <2>7. PositionOK([side |-> p.side, size |-> p.size + q, legs |-> {l}])
    BY <1>2, <1>4, <2>5, <2>6 DEF PositionOK
  <2> QED
    BY <1>4, <2>1, <2>3, <2>7
<1>5. CASE p.side = d /\ Pyramiding > 0 /\ HasRoom(p.legs)
  <2>1. Opened(p, d, id, q) = Appended(p, id, q)
    BY <1>5 DEF Opened
  <2> DEFINE l == NewLeg(id, q, p.legs)
             ls == p.legs \union {l}
  <2>2. l \in Leg /\ l.size = q /\ l \notin p.legs
    BY <1>1, NewLegIsNew
  <2>3. Appended(p, id, q) = [side |-> p.side, size |-> p.size + q, legs |-> ls]
    BY DEF Appended
  <2> HIDE DEF l
  <2>4. Sized(p.legs)
    BY <1>1, LegsSized
  <2>5. Sized(ls) /\ Sizes(ls) = p.size + q
    BY <1>1, <2>2, <2>4, SizesOfOneMore
  <2>6. ls \subseteq Leg /\ IsFiniteSet(ls) /\ ls # {}
    BY <1>1, <2>2, <2>5 DEF Sized
  <2> HIDE DEF ls
  <2>7. PositionOK([side |-> p.side, size |-> p.size + q, legs |-> ls])
    BY <1>2, <1>5, <2>5, <2>6 DEF PositionOK
  <2> QED
    BY <1>5, <2>1, <2>3, <2>7
<1>6. CASE /\ p.side = d /\ ~(Pyramiding = 0)
           /\ ~(Pyramiding > 0 /\ HasRoom(p.legs))
  <2>1. Opened(p, d, id, q) = p
    BY <1>6 DEF Opened
  <2> QED
    BY <1>6, <2>1
<1> QED
  BY <1>3, <1>4, <1>5, <1>6


----------------------------------------------------------------------------
(* The pending orders.                                                     *)

TypedBook(b) ==
  /\ b \in [Keys -> Order \union {None}]
  /\ IsFiniteSet({k \in Keys : b[k] # None})
  /\ \A k \in Keys : b[k] # None /\ b[k].entry => b[k].from = None

(* An entry is for no other entry.                                         *)
GoodOrder(o) == o \in Order /\ (o.entry => o.from = None)

LEMMA LiveOrder ==
  ASSUME NEW b, TypedBook(b), NEW k \in Keys, b[k] # None
  PROVE  GoodOrder(b[k])
BY DEF TypedBook, GoodOrder

(* Of a book come books with fewer orders, or some more.                   *)
LEMMA BookFrom ==
  ASSUME NEW b, TypedBook(b), NEW more, IsFiniteSet(more),
         NEW c, c = [k \in Keys |-> c[k]],
         \A k \in Keys : c[k] = None \/ (GoodOrder(c[k]) /\ (b[k] # None \/ k \in more))
  PROVE  TypedBook(c)
<1> DEFINE old == {k \in Keys : b[k] # None}
           new == {k \in Keys : c[k] # None}
<1>1. IsFiniteSet(old \union more)
  <2> HIDE DEF old
  <2>1. IsFiniteSet(old)
    BY DEF TypedBook, old
  <2> QED
    BY <2>1, FS_Union
<1>2. new \in SUBSET (old \union more)
  OBVIOUS
<1>3. IsFiniteSet(new)
  <2> HIDE DEF old, new
  <2> QED
    BY <1>1, <1>2, FS_Subset
<1>4. c \in [Keys -> Order \union {None}]
  BY DEF GoodOrder
<1> QED
  BY <1>3, <1>4 DEF TypedBook, GoodOrder

LEMMA RemovedBook ==
  ASSUME NEW b, TypedBook(b), NEW k
  PROVE  TypedBook([b EXCEPT ![k] = None])
<1> DEFINE c == [b EXCEPT ![k] = None]
<1>1. c = [j \in Keys |-> c[j]]
  BY DEF TypedBook
<1>2. \A j \in Keys : c[j] = None \/ (GoodOrder(c[j]) /\ (b[j] # None \/ j \in {}))
  BY LiveOrder DEF TypedBook
<1> HIDE DEF c
<1>3. TypedBook(c)
  BY <1>1, <1>2, FS_EmptySet, BookFrom
<1> QED
  BY <1>3 DEF c

LEMMA PlacedBook ==
  ASSUME NEW b, TypedBook(b), NEW k \in Keys, NEW o, GoodOrder(o)
  PROVE  TypedBook([b EXCEPT ![k] = o])
<1> DEFINE c == [b EXCEPT ![k] = o]
<1>1. c = [j \in Keys |-> c[j]]
  BY DEF TypedBook
<1>2. \A j \in Keys : c[j] = None \/ (GoodOrder(c[j]) /\ (b[j] # None \/ j \in {k}))
  BY LiveOrder DEF TypedBook
<1>3. IsFiniteSet({k})
  BY FS_Singleton
<1> HIDE DEF c
<1>4. TypedBook(c)
  BY <1>1, <1>2, <1>3, BookFrom
<1> QED
  BY <1>4 DEF c

LEMMA NumberedOrder ==
  ASSUME NEW o, GoodOrder(o), NEW n \in Nat
  PROVE  GoodOrder([o EXCEPT !.no = n])
BY DEF GoodOrder, Order

LEMMA NextNoIsNumber ==
  ASSUME NEW b, TypedBook(b)
  PROVE  NextNo(b) \in Nat
<1> DEFINE live == {j \in Keys : b[j] # None}
           f == [k \in live |-> b[k].no]
           Nos == {b[k].no : k \in live}
<1>1. IsFiniteSet(Nos)
  <2>1. IsFiniteSet({f[k] : k \in live})
    <3>1. IsFiniteSet(live)
      BY DEF TypedBook
    <3> HIDE DEF f, live
    <3> QED
      BY <3>1, ImageFinite
  <2>2. Nos = {f[k] : k \in live}
    OBVIOUS
  <2> QED
    BY <2>1, <2>2
<1>2. Nos \subseteq Nat
  BY LiveOrder DEF GoodOrder, Order
<1>3. Max({0} \union Nos) \in Nat
  <2> HIDE DEF Nos
  <2> QED
    BY <1>1, <1>2, AboveAll
<1> QED
  BY <1>3 DEF NextNo

(* An order under a key gets a number and takes its place.                 *)
LEMMA PlaceBook ==
  ASSUME TypedBook(pending), NEW k \in Keys, NEW o, GoodOrder(o), Place(k, o)
  PROVE  TypedBook(pending')
<1> DEFINE n == IF Live(k) THEN pending[k].no ELSE NextNo(pending)
<1>1. n \in Nat
  <2>1. NextNo(pending) \in Nat
    BY NextNoIsNumber
  <2>2. Live(k) => pending[k].no \in Nat
    BY LiveOrder DEF Live, GoodOrder, Order
  <2> QED
    BY <2>1, <2>2
<1>2. pending' = [pending EXCEPT ![k] = [o EXCEPT !.no = n]]
  BY DEF Place
<1> HIDE DEF n
<1>3. GoodOrder([o EXCEPT !.no = n])
  BY <1>1, NumberedOrder
<1> QED
  BY <1>2, <1>3, PlacedBook

LEMMA NewOrderGood ==
  ASSUME bar \in Nat, NEW key \in Keys, NEW market \in BOOLEAN, NEW d \in Sides, NEW q \in Nat
  PROVE  NewOrder(key, market, d, q) \in Order /\ ~NewOrder(key, market, d, q).entry
BY DEF NewOrder, Order

LEMMA OtherSide ==
  ASSUME NEW d \in Sides
  PROVE  Opposite(d) \in Sides /\ Opposite(d) # d
BY SidesAssumption DEF Opposite, Sides

LEMMA OthersAreBook ==
  ASSUME TypedBook(pending), NEW id
  PROVE  TypedBook(Others(id))
<1> DEFINE c == Others(id)
<1>1. c = [j \in Keys |-> c[j]]
  BY DEF Others
<1>2. \A j \in Keys : c[j] = None \/ (GoodOrder(c[j]) /\ (pending[j] # None \/ j \in {}))
  BY LiveOrder DEF Others
<1> HIDE DEF c
<1>3. TypedBook(c)
  BY <1>1, <1>2, FS_EmptySet, BookFrom
<1> QED
  BY <1>3 DEF c

(* A fill takes no more from an order than is left of it.                  *)
LEMMA FillQtyPart ==
  ASSUME NEW o \in Order
  PROVE  FillQty(o) \in Nat /\ FillQty(o) <= o.left
BY DEF FillQty, Least, Order

LEMMA ShrunkOrder ==
  ASSUME NEW o, GoodOrder(o), NEW q \in Nat, q <= o.left
  PROVE  GoodOrder([o EXCEPT !.left = o.left - q])
BY DEF GoodOrder, Order

LEMMA AfterFillBook ==
  ASSUME TypedBook(pending), NEW k \in Keys, Live(k), NEW q \in Nat, q <= pending[k].left
  PROVE  TypedBook(AfterFill(k, q))
<1> DEFINE c == AfterFill(k, q)
<1>1. c = [j \in Keys |-> c[j]]
  BY DEF AfterFill
<1>2. ASSUME NEW j \in Keys, c[j] # None
      PROVE  GoodOrder(c[j]) /\ pending[j] # None
  <2>1. CASE j = k
    <3>1. c[j] = [pending[k] EXCEPT !.left = pending[k].left - q]
      BY <1>2, <2>1 DEF AfterFill
    <3>2. GoodOrder(pending[k])
      BY LiveOrder DEF Live
    <3> QED
      BY <2>1, <3>1, <3>2, ShrunkOrder DEF Live
  <2>2. CASE j # k /\ c[j] = pending[j]
    BY <1>2, <2>2, LiveOrder
  <2>3. CASE j # k /\ c[j] # pending[j]
    <3>1. /\ c[j] = AfterOca(pending[j], pending[k].oca.type, q)
          /\ Live(j)
      BY <1>2, <2>3 DEF AfterFill
    <3>2. GoodOrder(pending[j])
      BY <3>1, LiveOrder DEF Live
    <3>3. /\ c[j] = [pending[j] EXCEPT !.left = pending[j].left - q]
          /\ ~(pending[j].left <= q)
      BY <1>2, <3>1 DEF AfterOca
    <3>4. q <= pending[j].left
      BY <3>2, <3>3 DEF GoodOrder, Order
    <3> QED
      BY <3>1, <3>2, <3>3, <3>4, ShrunkOrder DEF Live
  <2> QED
    BY <2>1, <2>2, <2>3
<1> HIDE DEF c
<1>3. TypedBook(c)
  BY <1>1, <1>2, FS_EmptySet, BookFrom
<1> QED
  BY <1>3 DEF c


----------------------------------------------------------------------------
(* The invariant: the book, the position and what was entered and exited.  *)

AccountsOK(a, p) ==
  /\ a[1] \in Nat /\ a[2] \in Nat /\ a[3] \in BOOLEAN
  /\ a[3] \/ a[1] - a[2] = p.size

FlowOK ==
  /\ blocked \in BOOLEAN /\ visiting \in BOOLEAN
  /\ bar \in 0..MaxBars /\ calls \in 0..MaxCalls /\ halts \in 0..MaxHalts
  /\ touched \subseteq Keys
  /\ fills \in [Ids -> Nat]

BrokerOK ==
  /\ TypedBook(pending)
  /\ PositionOK(Position)
  /\ AccountsOK(account, Position)
  /\ QueueOK
  /\ FlowOK

LEMMA PositionFacts ==
  ASSUME PositionOK(Position)
  PROVE  /\ side \in Sides \union {Flat} /\ size \in Nat
         /\ legs \subseteq Leg /\ IsFiniteSet(legs)
         /\ size = Sizes(legs)
         /\ side = Flat <=> legs = {}
         /\ \A from : OpenSize(from) \in Nat /\ OpenSize(from) <= size
<1>1. /\ side \in Sides \union {Flat} /\ legs \subseteq Leg /\ IsFiniteSet(legs)
      /\ size = Sizes(legs) /\ (side = Flat <=> legs = {})
  BY DEF PositionOK, Position
<1>2. size \in Nat
  BY <1>1, LegsSized
<1>3. ASSUME NEW from
      PROVE  OpenSize(from) \in Nat /\ OpenSize(from) <= size
  BY <1>1, OpenSizeOf DEF OpenSize
<1> QED
  BY <1>1, <1>2, <1>3

(* A call that places or removes orders touches nothing else.              *)
LEMMA PlacingKeeps ==
  ASSUME BrokerOK, Call, OnlyPlaces, TypedBook(pending')
  PROVE  BrokerOK'
<1>1. /\ side' = side /\ size' = size /\ legs' = legs /\ blocked' = blocked
      /\ bar' = bar /\ queue' = queue /\ visiting' = visiting /\ touched' = touched
      /\ account' = account /\ fills' = fills /\ halts' = halts
  BY DEF OnlyPlaces, position, account
<1>2. visiting /\ queue = {}
  BY DEF BrokerOK, QueueOK, Call
<1>3. calls' \in 0..MaxCalls
  BY BoundsAssumption DEF Call, BrokerOK, FlowOK
<1>4. FlowOK'
  BY <1>1, <1>3 DEF BrokerOK, FlowOK
<1>5. QueueOK'
  BY <1>1, <1>2 DEF QueueOK
<1>6. Position' = Position
  BY <1>1 DEF Position
<1>7. PositionOK(Position)' /\ AccountsOK(account, Position)'
  BY <1>1, <1>6 DEF BrokerOK
<1> QED
  BY <1>4, <1>5, <1>7 DEF BrokerOK

LEMMA PlacingOrderKeeps ==
  ASSUME BrokerOK, Call, OnlyPlaces, NEW k \in Keys, NEW o, GoodOrder(o), Place(k, o)
  PROVE  BrokerOK'
<1>1. TypedBook(pending')
  BY PlaceBook DEF BrokerOK
<1> QED
  BY <1>1, PlacingKeeps

(* One that processes the pending orders queues those there are.           *)
LEMMA ProcessingKeeps ==
  ASSUME BrokerOK, Call, Process, TypedBook(pending'), fills' \in [Ids -> Nat],
         UNCHANGED << position, blocked, bar, touched, account, halts >>
  PROVE  BrokerOK'
<1>1. /\ side' = side /\ size' = size /\ legs' = legs /\ blocked' = blocked
      /\ bar' = bar /\ touched' = touched /\ account' = account /\ halts' = halts
      /\ visiting' = FALSE
  BY DEF position, Process
<1>2. calls' \in 0..MaxCalls
  BY BoundsAssumption DEF Call, BrokerOK, FlowOK
<1>3. FlowOK'
  BY <1>1, <1>2 DEF BrokerOK, FlowOK
<1>4. QueueOK'
  BY <1>1 DEF QueueOK, Process, Live
<1>5. Position' = Position
  BY <1>1 DEF Position
<1>6. PositionOK(Position)' /\ AccountsOK(account, Position)'
  BY <1>1, <1>5 DEF BrokerOK
<1> QED
  BY <1>3, <1>4, <1>6 DEF BrokerOK

LEMMA BrokerBar == BrokerOK => bar \in Nat
BY BoundsAssumption DEF BrokerOK, FlowOK

LEMMA KeyOfCall ==
  ASSUME NEW id \in Ids \union {CloseAll}, NEW part \in Parts
  PROVE  << id, part >> \in Keys
BY DEF Keys

LEMMA OwnKey ==
  ASSUME NEW id \in Ids \union {CloseAll}
  PROVE  Own(id) \in Keys
BY DEF Own, Keys, Parts

LEMMA EntryKeeps ==
  ASSUME BrokerOK, NEW id \in Ids, NEW market \in BOOLEAN, NEW d \in Sides,
         NEW q \in Qtys, NEW cap \in Caps, Entry(id, market, d, q, cap)
  PROVE  BrokerOK'
<1> DEFINE o == [NewOrder(Own(id), market, d, q) EXCEPT !.cap = cap, !.entry = market]
<1>1. Own(id) \in Keys /\ q \in Nat /\ cap \in Nat
  BY OwnKey, QtysAssumption
<1>2. GoodOrder(o)
  BY <1>1, BrokerBar DEF GoodOrder, NewOrder, Order
<1>3. Call /\ OnlyPlaces /\ Place(Own(id), o)
  BY DEF Entry
<1> HIDE DEF o
<1> QED
  BY <1>1, <1>2, <1>3, PlacingOrderKeeps

LEMMA PlaceOrderKeeps ==
  ASSUME BrokerOK, NEW id \in Ids, NEW market \in BOOLEAN, NEW d \in Sides,
         NEW q \in Qtys, NEW cap \in Caps, NEW oca \in Groups \union {None},
         PlaceOrder(id, market, d, q, cap, oca)
  PROVE  BrokerOK'
<1> DEFINE o == [NewOrder(Own(id), market, d, q) EXCEPT !.cap = cap, !.oca = oca]
<1>1. Own(id) \in Keys /\ q \in Nat /\ cap \in Nat
  BY OwnKey, QtysAssumption
<1>2. oca \in [name: OcaNames, type: OcaTypes] \union {None}
  BY GroupsAssumption
<1>3. GoodOrder(o)
  BY <1>1, <1>2, BrokerBar DEF GoodOrder, NewOrder, Order
<1>4. Call /\ OnlyPlaces /\ Place(Own(id), o)
  BY DEF PlaceOrder
<1> HIDE DEF o
<1> QED
  BY <1>1, <1>3, <1>4, PlacingOrderKeeps

(* What the exits ask for is a number, and they face a position.           *)
LEMMA ExitFacts ==
  ASSUME BrokerOK, side # Flat, NEW from, NEW q \in ExitQtys(from)
  PROVE  q \in Nat /\ Opposite(side) \in Sides
<1>1. OpenSize(from) \in Nat /\ side \in Sides
  BY PositionFacts DEF BrokerOK
<1>2. q \in Nat
  BY <1>1, QtysAssumption DEF ExitQtys, Least
<1> QED
  BY <1>1, <1>2, OtherSide

LEMMA ExitAtMarketKeeps ==
  ASSUME BrokerOK, NEW id \in Ids, NEW from \in Ids \union {None}, NEW q \in ExitQtys(from),
         ExitAtMarket(id, from, q)
  PROVE  BrokerOK'
<1> DEFINE o == [NewOrder(Own(id), TRUE, Opposite(side), q) EXCEPT !.from = from]
<1>1. Own(id) \in Keys /\ << id, "close" >> \in Keys
  BY OwnKey, KeyOfCall DEF Parts
<1>2. q \in Nat /\ Opposite(side) \in Sides
  BY ExitFacts DEF ExitAtMarket
<1>3. GoodOrder(o)
  BY <1>1, <1>2, BrokerBar DEF GoodOrder, NewOrder, Order
<1>4. Call /\ OnlyPlaces /\ Place(<< id, "close" >>, o)
  BY DEF ExitAtMarket
<1> HIDE DEF o
<1> QED
  BY <1>1, <1>3, <1>4, PlacingOrderKeeps

LEMMA BracketLegGood ==
  ASSUME bar \in Nat, Opposite(side) \in Sides, NEW k \in Keys, NEW id \in Ids,
         NEW from \in Ids \union {None}, NEW q \in Nat, NEW n \in Nat
  PROVE  GoodOrder(BracketLeg(k, id, from, q, n))
<1>1. [name |-> id, type |-> "cancel"] \in [name: OcaNames, type: OcaTypes]
  BY GroupsAssumption DEF OcaTypes
<1>2. /\ NewOrder(k, FALSE, Opposite(side), q) \in Order
      /\ ~NewOrder(k, FALSE, Opposite(side), q).entry
  BY NewOrderGood
<1> DEFINE new == NewOrder(k, FALSE, Opposite(side), q)
           group == [name |-> id, type |-> "cancel"]
           o == [new EXCEPT !.oca = group, !.from = from, !.no = n]
<1>3. BracketLeg(k, id, from, q, n) = o
  BY DEF BracketLeg
<1>4. new \in Order /\ ~new.entry /\ group \in [name: OcaNames, type: OcaTypes]
  BY <1>1, <1>2
<1> HIDE DEF new, group
<1>5. o \in Order /\ o.entry = new.entry
  BY <1>4 DEF Order
<1> QED
  BY <1>3, <1>4, <1>5 DEF GoodOrder

LEMMA BracketKeeps ==
  ASSUME BrokerOK, NEW id \in Ids, NEW from \in Ids \union {None}, NEW q \in ExitQtys(from),
         Bracket(id, from, q)
  PROVE  BrokerOK'
<1> DEFINE n == NextNo(Others(id))
           l == << id, "limit" >>
           s == << id, "stop" >>
           ol == BracketLeg(l, id, from, q, n)
           os == BracketLeg(s, id, from, q, n + 1)
           c == [Others(id) EXCEPT ![l] = ol]
<1>1. l \in Keys /\ s \in Keys
  BY KeyOfCall DEF Parts
<1>2. q \in Nat /\ Opposite(side) \in Sides
  BY ExitFacts DEF Bracket
<1>3. TypedBook(Others(id))
  BY OthersAreBook DEF BrokerOK
<1>4. n \in Nat
  BY <1>3, NextNoIsNumber
<1> HIDE DEF n, l, s
<1>6. GoodOrder(ol) /\ GoodOrder(os)
  <2>1. bar \in Nat /\ n + 1 \in Nat
    BY <1>4, BrokerBar
  <2> QED
    BY <1>1, <1>2, <1>4, <2>1, BracketLegGood
<1>7. pending' = [c EXCEPT ![s] = os]
  BY DEF Bracket, n, l, s
<1> HIDE DEF ol, os
<1>8. TypedBook(c)
  BY <1>1, <1>3, <1>6, PlacedBook
<1> HIDE DEF c
<1>9. TypedBook(pending')
  BY <1>1, <1>6, <1>7, <1>8, PlacedBook
<1>10. fills' \in [Ids -> Nat]
  BY DEF Bracket, BrokerOK, FlowOK
<1>11. /\ Call /\ Process
       /\ UNCHANGED << position, blocked, bar, touched, account, halts >>
  BY DEF Bracket
<1> QED
  BY <1>9, <1>10, <1>11, ProcessingKeeps

LEMMA ExitAtPriceKeeps ==
  ASSUME BrokerOK, NEW id \in Ids, NEW from \in Ids \union {None}, NEW q \in ExitQtys(from),
         ExitAtPrice(id, from, q)
  PROVE  BrokerOK'
<1> DEFINE n == NextNo(Others(id))
           o == [NewOrder(Own(id), FALSE, Opposite(side), q) EXCEPT !.from = from, !.no = n]
<1>1. Own(id) \in Keys
  BY OwnKey
<1>2. q \in Nat /\ Opposite(side) \in Sides
  BY ExitFacts DEF ExitAtPrice
<1>3. TypedBook(Others(id))
  BY OthersAreBook DEF BrokerOK
<1>4. n \in Nat
  BY <1>3, NextNoIsNumber
<1>5. pending' = [Others(id) EXCEPT ![Own(id)] = o]
  BY DEF ExitAtPrice
<1> HIDE DEF n
<1>6. GoodOrder(o)
  BY <1>1, <1>2, <1>4, BrokerBar DEF GoodOrder, NewOrder, Order
<1> HIDE DEF o
<1>7. TypedBook(pending')
  BY <1>1, <1>3, <1>5, <1>6, PlacedBook
<1>8. fills' \in [Ids -> Nat]
  BY DEF ExitAtPrice, BrokerOK, FlowOK
<1>9. /\ Call /\ Process
      /\ UNCHANGED << position, blocked, bar, touched, account, halts >>
  BY DEF ExitAtPrice
<1> QED
  BY <1>7, <1>8, <1>9, ProcessingKeeps

LEMMA CloseKeeps ==
  ASSUME BrokerOK, NEW id \in Ids, NEW q \in Qtys \union {size}, Close(id, q)
  PROVE  BrokerOK'
<1> DEFINE o == NewOrder(Own(id), TRUE, Opposite(side), q)
<1>1. Own(id) \in Keys /\ << id, "close" >> \in Keys
  BY OwnKey, KeyOfCall DEF Parts
<1>2. q \in Nat /\ Opposite(side) \in Sides
  BY PositionFacts, OtherSide, QtysAssumption DEF Close, BrokerOK
<1>3. GoodOrder(o)
  BY <1>1, <1>2, BrokerBar, NewOrderGood DEF GoodOrder
<1>4. Call /\ OnlyPlaces /\ Place(<< id, "close" >>, o)
  BY DEF Close
<1> HIDE DEF o
<1> QED
  BY <1>1, <1>3, <1>4, PlacingOrderKeeps

LEMMA PlaceCloseAllKeeps ==
  ASSUME BrokerOK, PlaceCloseAll
  PROVE  BrokerOK'
<1> DEFINE o == NewOrder(Own(CloseAll), TRUE, Opposite(side), size)
<1>1. Own(CloseAll) \in Keys
  BY OwnKey
<1>2. size \in Nat /\ Opposite(side) \in Sides
  BY PositionFacts, OtherSide DEF PlaceCloseAll, BrokerOK
<1>3. GoodOrder(o)
  BY <1>1, <1>2, BrokerBar, NewOrderGood DEF GoodOrder
<1>4. Call /\ OnlyPlaces /\ Place(Own(CloseAll), o)
  BY DEF PlaceCloseAll
<1> HIDE DEF o
<1> QED
  BY <1>1, <1>3, <1>4, PlacingOrderKeeps

LEMMA CancelKeeps ==
  ASSUME BrokerOK, CancelAll \/ \E id \in Ids : Cancel(id)
  PROVE  BrokerOK'
<1>1. CASE CancelAll
  <2>1. pending' = Empty /\ Call /\ OnlyPlaces
    BY <1>1 DEF CancelAll
  <2>2. TypedBook(Empty)
    <3>1. Empty = [k \in Keys |-> Empty[k]] /\ \A k \in Keys : Empty[k] = None
      BY DEF Empty
    <3>2. TypedBook(pending)
      BY DEF BrokerOK
    <3> QED
      BY <3>1, <3>2, BookFrom, FS_EmptySet
  <2> QED
    BY <2>1, <2>2, PlacingKeeps
<1>2. ASSUME NEW id \in Ids, Cancel(id)
      PROVE  BrokerOK'
  <2>1. pending' = [pending EXCEPT ![Own(id)] = None] /\ Call /\ OnlyPlaces
    BY <1>2 DEF Cancel
  <2>2. TypedBook(pending')
    BY <2>1, RemovedBook DEF BrokerOK
  <2> QED
    BY <2>1, <2>2, PlacingKeeps
<1> QED
  BY <1>1, <1>2

LEMMA CallKeepsBroker ==
  ASSUME BrokerOK, ScriptCalls
  PROVE  BrokerOK'
<1>1. ASSUME NEW id \in Ids, NEW market \in BOOLEAN, NEW d \in Sides, NEW q \in Qtys,
             NEW cap \in Caps, Entry(id, market, d, q, cap)
      PROVE  BrokerOK'
  BY <1>1, EntryKeeps
<1>2. ASSUME NEW id \in Ids, NEW market \in BOOLEAN, NEW d \in Sides, NEW q \in Qtys,
             NEW cap \in Caps, NEW oca \in Groups \union {None},
             PlaceOrder(id, market, d, q, cap, oca)
      PROVE  BrokerOK'
  BY <1>2, PlaceOrderKeeps
<1>3. ASSUME NEW id \in Ids, NEW from \in Ids \union {None}, NEW q \in ExitQtys(from),
             ExitAtMarket(id, from, q) \/ Bracket(id, from, q) \/ ExitAtPrice(id, from, q)
      PROVE  BrokerOK'
  BY <1>3, ExitAtMarketKeeps, BracketKeeps, ExitAtPriceKeeps
<1>4. ASSUME NEW id \in Ids, NEW q \in Qtys \union {size}, Close(id, q)
      PROVE  BrokerOK'
  BY <1>4, CloseKeeps
<1>5. ASSUME PlaceCloseAll \/ CancelAll \/ \E id \in Ids : Cancel(id)
      PROVE  BrokerOK'
  BY <1>5, PlaceCloseAllKeeps, CancelKeeps
<1> QED
  BY <1>1, <1>2, <1>3, <1>4, <1>5 DEF ScriptCalls


----------------------------------------------------------------------------
(* Processing of the pending orders.                                       *)

LEMMA DueKey ==
  ASSUME BrokerOK, NEW k \in Keys, IsNext(k)
  PROVE  Live(k) /\ GoodOrder(pending[k]) /\ ~visiting
<1>1. Live(k) /\ ~visiting
  BY DEF BrokerOK, QueueOK, IsNext
<1> QED
  BY <1>1, LiveOrder DEF BrokerOK, Live

(* What looking at a key leaves behind.                                    *)
LEMMA GoingKeeps ==
  ASSUME BrokerOK, NEW k, NEW book, TypedBook(book), Goes(k, book), ~visiting,
         visiting' = visiting
  PROVE  TypedBook(pending') /\ QueueOK'
<1>1. pending' = book /\ queue' = {j \in queue \ {k} : pending'[j] # None}
  BY DEF Goes
<1>2. QueueOK'
  BY <1>1 DEF BrokerOK, QueueOK, Live
<1> QED
  BY <1>1, <1>2

LEMMA PassKeepsBroker ==
  ASSUME BrokerOK, NEW k \in Keys, Drop(k) \/ Keep(k) \/ Reject(k)
  PROVE  BrokerOK'
<1>1. /\ IsNext(k)
      /\ UNCHANGED << position, blocked, bar, visiting, touched, account, fills, calls,
                      halts >>
  BY DEF Drop, Keep, Reject, IsDue
<1>2. ~visiting
  BY <1>1, DueKey
<1>3. TypedBook(pending)
  BY DEF BrokerOK
<1>4. PICK book : TypedBook(book) /\ Goes(k, book)
  BY <1>3, RemovedBook DEF Drop, Keep, Reject
<1>5. TypedBook(pending') /\ QueueOK'
  BY <1>1, <1>2, <1>4, GoingKeeps
<1>6. Position' = Position /\ account' = account
  BY <1>1 DEF position, Position
<1>7. PositionOK(Position)' /\ AccountsOK(account, Position)'
  BY <1>6 DEF BrokerOK
<1>8. FlowOK'
  BY <1>1 DEF BrokerOK, FlowOK
<1> QED
  BY <1>5, <1>7, <1>8 DEF BrokerOK

LEMMA CountKeeps ==
  ASSUME BrokerOK, NEW k \in Keys, CountFill(k)
  PROVE  fills' \in [Ids -> Nat]
BY DEF CountFill, BrokerOK, FlowOK

(* The book, the queue and the rest, for every fill.                       *)
LEMMA FillKeepsBook ==
  ASSUME BrokerOK, NEW k \in Keys, Fill(k)
  PROVE  TypedBook(pending') /\ QueueOK' /\ FlowOK'
<1> DEFINE q == FillQty(pending[k])
           book == AfterFill(k, q)
<1>1. /\ IsNext(k) /\ Goes(k, book) /\ CountFill(k)
      /\ bar' = bar /\ visiting' = visiting /\ touched' = touched /\ calls' = calls
  BY DEF Fill, FillOpens, FillCovers, IsDue
<1>2. Live(k) /\ GoodOrder(pending[k]) /\ ~visiting
  BY <1>1, DueKey
<1>3. q \in Nat /\ q <= pending[k].left
  BY <1>2, FillQtyPart DEF GoodOrder
<1> HIDE DEF q
<1>4. TypedBook(book)
  BY <1>2, <1>3, AfterFillBook DEF BrokerOK
<1> HIDE DEF book
<1>5. TypedBook(pending') /\ QueueOK'
  BY <1>1, <1>2, <1>4, GoingKeeps
<1>6. blocked' \in BOOLEAN /\ halts' \in 0..MaxHalts
  <2>1. CASE FillOpens(k)
    BY <2>1 DEF FillOpens, BrokerOK, FlowOK
  <2>2. CASE FillCovers(k)
    <3>1. MayHalt
      BY <2>2 DEF FillCovers
    <3>2. blocked \in BOOLEAN /\ halts \in 0..MaxHalts
      BY DEF BrokerOK, FlowOK
    <3>3. CASE UNCHANGED << blocked, halts >>
      BY <3>2, <3>3
    <3>4. CASE Halts
      <4>1. blocked' = TRUE /\ halts < MaxHalts /\ halts' = halts + 1
        BY <3>4 DEF Halts
      <4>2. halts' \in 0..MaxHalts
        BY <3>2, <4>1, BoundsAssumption
      <4> QED
        BY <4>1, <4>2
    <3> QED
      BY <3>1, <3>3, <3>4 DEF MayHalt
  <2> QED
    BY <2>1, <2>2 DEF Fill
<1>7. fills' \in [Ids -> Nat]
  BY <1>1, CountKeeps
<1>8. FlowOK'
  BY <1>1, <1>6, <1>7 DEF BrokerOK, FlowOK
<1> QED
  BY <1>5, <1>8

LEMMA BecomesOK ==
  ASSUME NEW p, PositionOK(p), Becomes(p)
  PROVE  PositionOK(Position)' /\ size' = p.size
BY DEF Becomes, PositionOK, Position

(* Contracts that are entered are in the position.                         *)
LEMMA OpeningKeepsAccounts ==
  ASSUME BrokerOK, NEW k \in Keys, FillOpens(k)
  PROVE  PositionOK(Position)' /\ AccountsOK(account, Position)'
<1> DEFINE o == pending[k]
           q == FillQty(o)
           p == Opened(Position, o.side, o.order, q)
<1>1. IsNext(k)
  BY DEF FillOpens, IsDue
<1>2. o \in Order
  BY <1>1, DueKey DEF GoodOrder
<1>3. q \in Nat
  BY <1>2, FillQtyPart
<1>4. /\ Becomes(p) /\ exited' = exited /\ overrun' = overrun
      /\ entered' = IF p = Position THEN entered ELSE entered + q
      /\ side # Opposite(o.side)
  BY DEF FillOpens
<1>5. o.side \in Sides /\ o.order \in Keys
  BY <1>2 DEF Order
<1> HIDE DEF q
<1>6. /\ PositionOK(p)
      /\ Position.side # o.side => p.size = q
      /\ Position.side = o.side => p = Position \/ p.size = Position.size + q
  BY <1>3, <1>5, OpenedOK DEF BrokerOK
<1> HIDE DEF p, o
<1>7. PositionOK(Position)' /\ size' = p.size
  BY <1>4, <1>6, BecomesOK
<1>8. side # o.side => size = 0
  <2>1. side \in Sides \union {Flat} /\ (side = Flat => legs = {}) /\ size = Sizes(legs)
    BY PositionFacts DEF BrokerOK
  <2>2. side # o.side => side = Flat
    BY <1>4, <1>5, <2>1 DEF Opposite, Sides
  <2> QED
    BY <2>1, <2>2, SizesOfNone
<1>9. Position.side = side /\ Position.size = size
  BY DEF Position
<1>10. p = Position => p.size = size
  BY <1>9
<1>11. size \in Nat
  BY PositionFacts DEF BrokerOK
<1>12. \/ entered' = entered /\ size' = size
       \/ entered' = entered + q /\ size' = size + q
  BY <1>3, <1>4, <1>6, <1>7, <1>8, <1>9, <1>10, <1>11
<1>13. /\ entered \in Nat /\ exited \in Nat /\ overrun \in BOOLEAN
       /\ overrun \/ entered - exited = size
  BY <1>9 DEF BrokerOK, AccountsOK, account
<1>14. /\ entered' \in Nat
       /\ overrun \/ entered' - exited = size'
  BY <1>3, <1>11, <1>12, <1>13
<1>15. AccountsOK(account, Position)'
  BY <1>4, <1>13, <1>14 DEF AccountsOK, account, Position
<1> QED
  BY <1>7, <1>15

(* Contracts that are covered are exited, and what is left of the fill is  *)
(* entered; the accounts are lost track of only when an exit of one entry  *)
(* runs over the others.                                                   *)
LEMMA CoveringKeepsAccounts ==
  ASSUME BrokerOK, NEW k \in Keys, FillCovers(k)
  PROVE  PositionOK(Position)' /\ AccountsOK(account, Position)'
<1> DEFINE o == pending[k]
           q == FillQty(o)
           c == CoverQty(o, q)
           rest == IF o.entry THEN q ELSE q - c
           p == Closed(Position, o.from, c)
           r == Opened(p, o.side, o.order, rest)
<1>1. IsNext(k)
  BY DEF FillCovers, IsDue
<1>2. o \in Order /\ (o.entry => o.from = None)
  BY <1>1, DueKey DEF GoodOrder
<1>3. q \in Nat
  BY <1>2, FillQtyPart
<1>4. /\ exited' = exited + (size - p.size)
      /\ \/ /\ rest > 0 /\ Becomes(r)
            /\ entered' = entered + rest
            /\ overrun' = (overrun \/ (o.from # None /\ p.side # Flat))
         \/ Becomes(p) /\ entered' = entered /\ overrun' = overrun
      /\ side = Opposite(o.side)
  BY DEF FillCovers, RestOpens
<1>5. o.side \in Sides /\ o.order \in Keys
  BY <1>2 DEF Order
<1>6. side \in Sides /\ side # o.side /\ size \in Nat
  BY <1>4, <1>5, OtherSide, PositionFacts DEF BrokerOK
<1>7. OpenSize(o.from) \in Nat /\ (o.from = None => OpenSize(o.from) = size)
  <2>1. OpenSize(o.from) \in Nat /\ size = Sizes(legs)
    BY PositionFacts DEF BrokerOK
  <2> QED
    BY <2>1 DEF OpenSize, LegsOf
<1> HIDE DEF q
<1>8. /\ c \in Nat /\ rest \in Nat
      /\ rest > 0 /\ o.from = None => size <= c
  BY <1>2, <1>3, <1>6, <1>7 DEF CoverQty, Least
<1> HIDE DEF c, rest
<1>9. /\ PositionOK(p) /\ p.size \in Nat /\ p.size <= size
      /\ p.side \in {side, Flat}
      /\ o.from = None /\ size <= c => p.side = Flat
  <2>1. Position.size = size /\ Position.side = side
    BY DEF Position
  <2>2. PositionOK(Position)
    BY DEF BrokerOK
  <2>3. /\ PositionOK(p) /\ p.size \in Nat /\ p.size <= Position.size
        /\ p.side \in {Position.side, Flat}
        /\ o.from = None /\ Position.size <= c => p.side = Flat
    BY <1>8, <2>2, ClosedOK
  <2> QED
    BY <2>1, <2>3
<1> HIDE DEF p, o
<1>10. p.side = Flat => p.size = 0
  BY <1>9, SizesOfNone DEF PositionOK
<1>11. /\ entered \in Nat /\ exited \in Nat /\ overrun \in BOOLEAN
       /\ overrun \/ entered - exited = size
  BY DEF BrokerOK, AccountsOK, account, Position
<1>12. exited' \in Nat
  BY <1>4, <1>6, <1>9, <1>11
<1>13. CASE Becomes(p) /\ entered' = entered /\ overrun' = overrun
  <2>1. PositionOK(Position)' /\ size' = p.size
    BY <1>9, <1>13, BecomesOK
  <2>2. overrun \/ entered - exited' = p.size
    BY <1>4, <1>6, <1>9, <1>11
  <2>3. AccountsOK(account, Position)'
    BY <1>11, <1>12, <1>13, <2>1, <2>2 DEF AccountsOK, account, Position
  <2> QED
    BY <2>1, <2>3
<1>14. CASE /\ rest > 0 /\ Becomes(r)
            /\ entered' = entered + rest
            /\ overrun' = (overrun \/ (o.from # None /\ p.side # Flat))
  <2>1. p.side # o.side
    BY <1>5, <1>6, <1>9, SidesAssumption
  <2>2. PositionOK(r) /\ r.size = rest
    BY <1>5, <1>8, <1>9, <2>1, OpenedOK
  <2> HIDE DEF r
  <2>3. PositionOK(Position)' /\ size' = rest
    BY <1>14, <2>2, BecomesOK
  <2>4. overrun' \in BOOLEAN /\ (~overrun' => ~overrun /\ p.side = Flat)
    BY <1>8, <1>9, <1>11, <1>14
  <2>5. ~overrun' => entered' - exited' = rest
    BY <1>4, <1>6, <1>8, <1>10, <1>11, <1>14, <2>4
  <2>6. entered' \in Nat
    BY <1>8, <1>11, <1>14
  <2>7. AccountsOK(account, Position)'
    BY <1>12, <2>3, <2>4, <2>5, <2>6 DEF AccountsOK, account, Position
  <2> QED
    BY <2>3, <2>7
<1> QED
  BY <1>4, <1>13, <1>14

LEMMA FillKeepsBroker ==
  ASSUME BrokerOK, NEW k \in Keys, Fill(k)
  PROVE  BrokerOK'
<1>1. TypedBook(pending') /\ QueueOK' /\ FlowOK'
  BY FillKeepsBook
<1>2. PositionOK(Position)' /\ AccountsOK(account, Position)'
  BY OpeningKeepsAccounts, CoveringKeepsAccounts DEF Fill
<1> QED
  BY <1>1, <1>2 DEF BrokerOK

(* The bar loop and the risk rules.                                        *)
LEMMA LoopKeepsBroker ==
  ASSUME BrokerOK, Visit \/ NextBar \/ Halt \/ UNCHANGED vars
  PROVE  BrokerOK'
<1>1. pending' = pending /\ account' = account /\ fills' = fills /\ Position' = Position
  BY DEF Visit, NextBar, Halt, vars, position, Position
<1>2. TypedBook(pending)' /\ PositionOK(Position)' /\ AccountsOK(account, Position)'
  BY <1>1 DEF BrokerOK
<1>3. CASE Visit
  <2>1. FlowOK' /\ QueueOK'
    BY <1>1, <1>3 DEF Visit, BrokerOK, FlowOK, QueueOK
  <2> QED
    BY <1>2, <2>1 DEF BrokerOK
<1>4. CASE NextBar
  <2>1. FlowOK'
    <3>1. FlowOK
      BY DEF BrokerOK
    <3>2. bar' \in 0..MaxBars
      BY <1>4, <3>1, BoundsAssumption DEF NextBar, FlowOK
    <3>3. blocked' \in BOOLEAN /\ visiting' \in BOOLEAN /\ touched' \subseteq Keys
      BY <1>4, <3>1 DEF NextBar, FlowOK
    <3>4. calls' = calls /\ halts' = halts /\ fills' = fills
      BY <1>4 DEF NextBar
    <3> QED
      BY <3>1, <3>2, <3>3, <3>4 DEF FlowOK
  <2>2. QueueOK'
    BY <1>1, <1>4 DEF NextBar, QueueOK, Live
  <2> QED
    BY <1>2, <2>1, <2>2 DEF BrokerOK
<1>5. CASE Halt
  <2>1. FlowOK'
    BY <1>1, <1>5, BoundsAssumption DEF Halt, Halts, BrokerOK, FlowOK
  <2>2. QueueOK'
    BY <1>1, <1>5 DEF Halt, BrokerOK, QueueOK, Live
  <2> QED
    BY <1>2, <2>1, <2>2 DEF BrokerOK
<1>6. CASE UNCHANGED vars
  <2>1. FlowOK' /\ QueueOK'
    BY <1>1, <1>6 DEF vars, BrokerOK, FlowOK, QueueOK, Live
  <2> QED
    BY <1>2, <2>1 DEF BrokerOK
<1> QED
  BY <1>3, <1>4, <1>5, <1>6

LEMMA NextKeepsBroker ==
  ASSUME BrokerOK, [Next]_vars
  PROVE  BrokerOK'
<1>1. CASE ScriptCalls
  BY <1>1, CallKeepsBroker
<1>2. ASSUME NEW k \in Keys, Drop(k) \/ Keep(k) \/ Reject(k) \/ FillOpens(k) \/ FillCovers(k)
      PROVE  BrokerOK'
  BY <1>2, PassKeepsBroker, FillKeepsBroker DEF Fill
<1>3. CASE Visit \/ NextBar \/ Halt \/ UNCHANGED vars
  BY <1>3, LoopKeepsBroker
<1> QED
  BY <1>1, <1>2, <1>3 DEF Next, Processing

LEMMA InitBroker == Init => BrokerOK
<1> SUFFICES ASSUME Init
             PROVE  BrokerOK
  OBVIOUS
<1>1. TypedBook(pending)
  <2>1. pending = [k \in Keys |-> None]
    BY DEF Init, Empty
  <2>2. {k \in Keys : pending[k] # None} = {}
    BY <2>1
  <2> QED
    BY <2>1, <2>2, FS_EmptySet DEF TypedBook
<1>2. PositionOK(Position)
  BY FS_EmptySet, SizesOfNone DEF Init, PositionOK, Position
<1>3. AccountsOK(account, Position)
  <2>1. entered = 0 /\ exited = 0 /\ overrun = FALSE /\ Position.size = 0
    BY DEF Init, Position
  <2>2. account[1] = 0 /\ account[2] = 0 /\ account[3] = FALSE
    BY <2>1 DEF account
  <2>3. account[1] \in Nat /\ account[2] \in Nat /\ account[1] - account[2] = Position.size
    BY <2>1, <2>2
  <2>4. account[3] \in BOOLEAN
    BY <2>2
  <2> QED
    BY <2>3, <2>4 DEF AccountsOK
<1>4. QueueOK
  BY DEF Init, QueueOK
<1>5. FlowOK
  <2>1. blocked = FALSE /\ visiting = TRUE /\ touched = {}
    BY DEF Init
  <2>2. bar \in 0..MaxBars /\ calls \in 0..MaxCalls /\ halts \in 0..MaxHalts
    BY BoundsAssumption DEF Init
  <2>3. fills \in [Ids -> Nat]
    BY DEF Init
  <2> QED
    BY <2>1, <2>2, <2>3 DEF FlowOK
<1> QED
  BY <1>1, <1>2, <1>3, <1>4, <1>5 DEF BrokerOK

(* The invariant holds for every script: book, position, accounts and flow *)
(* of the broker are in order after each call, fill and turn of a bar.     *)
THEOREM BrokerInvariant == Spec => []BrokerOK
<1>1. BrokerOK /\ [Next]_vars => BrokerOK'
  BY NextKeepsBroker
<1> QED
  BY InitBroker, <1>1, PTL DEF Spec

----------------------------------------------------------------------------
(* The theorems.                                                           *)

LEMMA BrokerTyped == BrokerOK => TypeOK
<1> SUFFICES ASSUME BrokerOK
             PROVE  TypeOK
  OBVIOUS
<1>1. pending \in [Keys -> Order \union {None}]
  BY DEF BrokerOK, TypedBook
<1>2. side \in Sides \union {Flat} /\ size \in Nat /\ legs \subseteq Leg
  BY PositionFacts DEF BrokerOK
<1>3. queue \subseteq Keys
  BY DEF BrokerOK, QueueOK
<1>4. entered \in Nat /\ exited \in Nat /\ overrun \in BOOLEAN
  BY DEF BrokerOK, AccountsOK, account
<1> QED
  BY <1>1, <1>2, <1>3, <1>4 DEF TypeOK, BrokerOK, FlowOK

(* Every order of the book, every open trade and every quantity is what    *)
(* the engine takes it for: no fill, reduction or close makes a remaining  *)
(* quantity, the size of a trade or that of the position negative.         *)
THEOREM BrokerTypes == Spec => []TypeOK
BY BrokerInvariant, BrokerTyped, PTL

(* The size that the engine keeps of the position is the sum of its open   *)
(* trades, and its direction is flat exactly when there are none, after    *)
(* every partial fill, partial close, pyramiding entry and reversal.       *)
THEOREM PositionMatchesTrades == Spec => []PositionIsLegs
<1>1. BrokerOK => PositionIsLegs
  BY PositionFacts DEF BrokerOK, PositionIsLegs
<1> QED
  BY <1>1, BrokerInvariant, PTL

(* No contract is lost or made up between entries, open trades and closed  *)
(* trades, unless an exit of one entry has run over the others.            *)
THEOREM NoContractLost == Spec => []ContractsAccounted
<1>1. BrokerOK => ContractsAccounted
  BY DEF BrokerOK, AccountsOK, account, Position, ContractsAccounted
<1> QED
  BY <1>1, BrokerInvariant, PTL

=============================================================================
