----------------------------- MODULE RulesProofs -------------------------------
(* What the rules of the program answer, whatever they are asked.  A rule   *)
(* is proved over questions of any size: rows and lists of any length, any  *)
(* times and numbers.  What the runs ask is among those (the last part).    *)
(* A statement about a recursive function is proved by its least            *)
(* counterexample (LeastOf): there is no number at which it first fails.    *)
EXTENDS Rules, Functions, Sequences, FiniteSetTheorems, WellFoundedInduction, TLAPS

-----------------------------------------------------------------------------
(* Numbers, finite sets and sums.                                           *)
(* A set of numbers has a least one: where a statement fails for some       *)
(* number it fails for a first one.                                         *)
LEMMA LeastOf ==
  ASSUME NEW Bad, Bad \subseteq Nat, Bad # {}
  PROVE  \E n \in Bad : \A m \in Bad : n <= m
<1>1. IsWellFoundedOn(OpToRel(<, Nat), Nat)
  BY NatLessThanWellFounded
<1>2. PICK n \in Bad : \A m \in Bad : ~(<<m, n>> \in OpToRel(<, Nat))
  BY <1>1, WFMin
<1>3. \A m \in Bad : ~(m < n)
  BY <1>2 DEF OpToRel
<1> QED
  BY <1>3

(* The numbers up to n are n.                                               *)
LEMMA UpTo == \A n \in Nat : IsFiniteSet(1..n) /\ Cardinality(1..n) = n
<1> TAKE n \in Nat
<1> QED
  BY FS_Interval

(* A finite set of integers has a greatest and a least member.              *)
LEMMA Extremes ==
  ASSUME NEW A \in SUBSET Int, IsFiniteSet(A), A # {}
  PROVE  /\ \E m \in A : \A y \in A : m >= y
         /\ \E m \in A : \A y \in A : m =< y
<1> DEFINE Good(T) == /\ \E m \in T : \A y \in T : m >= y
                      /\ \E m \in T : \A y \in T : m =< y
           Bad == {n \in Nat : \E T \in SUBSET Int : /\ IsFiniteSet(T) /\ T # {}
                                                     /\ Cardinality(T) = n /\ ~Good(T)}
<1>1. ASSUME Bad # {} PROVE FALSE
  <2>1. PICK n \in Bad : \A m \in Bad : n <= m
    <3> Bad \subseteq Nat
      OBVIOUS
    <3> HIDE DEF Bad
    <3> QED
      BY <1>1, LeastOf
  <2>2. PICK T \in SUBSET Int : IsFiniteSet(T) /\ T # {} /\ Cardinality(T) = n /\ ~Good(T)
    OBVIOUS
  <2>3. PICK x \in T : TRUE
    BY <2>2
  <2> DEFINE U == T \ {x}
  <2>4. IsFiniteSet(U) /\ Cardinality(U) = n - 1 /\ U \in SUBSET Int
    BY <2>2, <2>3, FS_RemoveElement
  <2>5. Cardinality(U) \in Nat
    BY <2>4, FS_CardinalityType
  <2>6. U = {} \/ Good(U)
    <3>1. SUFFICES ASSUME U # {}, ~Good(U) PROVE FALSE
      OBVIOUS
    <3>2. n - 1 \in Bad
      BY <3>1, <2>4, <2>5
    <3>3. n \in Nat
      OBVIOUS
    <3> HIDE DEF Bad
    <3> QED
      BY <3>2, <3>3, <2>1
  <2>7. CASE U = {}
    <3>1. T = {x} /\ x \in Int
      BY <2>7, <2>2, <2>3
    <3> QED
      BY <3>1, <2>2
  <2>8. CASE Good(U)
    <3>1. PICK a \in U : \A y \in U : a >= y
      BY <2>8
    <3>2. PICK b \in U : \A y \in U : b =< y
      BY <2>8
    <3>3. x \in Int /\ a \in Int /\ b \in Int /\ T = U \union {x} /\ \A y \in U : y \in Int
      BY <2>2, <2>3
    <3> HIDE DEF U
    <3>4. \E m \in T : \A y \in T : m >= y
      <4>1. CASE a >= x
        BY <4>1, <3>1, <3>3
      <4>2. CASE x >= a
        BY <4>2, <3>1, <3>3
      <4> QED
        BY <3>3, <4>1, <4>2
    <3>5. \E m \in T : \A y \in T : m =< y
      <4>1. CASE b =< x
        BY <4>1, <3>2, <3>3
      <4>2. CASE x =< b
        BY <4>2, <3>2, <3>3
      <4> QED
        BY <3>3, <4>1, <4>2
    <3> QED
      BY <2>2, <3>4, <3>5
  <2> QED
    BY <2>6, <2>7, <2>8
<1>2. Cardinality(A) \in Nat
  BY FS_CardinalityType
<1> QED
  BY <1>1, <1>2

(* The member a sum takes next.                                             *)
Taken(T) == CHOOSE x \in T : TRUE

(* The sum of f over T, as far as it is taken member by member.             *)
SumStep(f, g, T) == IF T = {} THEN 0 ELSE f[Taken(T)] + g[T \ {Taken(T)}]

(* There is a function that sums f over every part of A, and the sum over A *)
(* is its value.                                                            *)
LEMMA SumIsTaken ==
  ASSUME NEW f, NEW A, IsFiniteSet(A)
  PROVE  \E g : /\ \A T \in SUBSET A : g[T] = SumStep(f, g, T)
                /\ SumFunctionOnSet(f, A) = g[A]
<1> DEFINE Sums(g, n) == \A T \in SUBSET A : Cardinality(T) <= n => g[T] = SumStep(f, g, T)
           Bad == {n \in Nat : ~\E g : Sums(g, n)}
<1>0. \A T \in SUBSET A : /\ IsFiniteSet(T) /\ Cardinality(T) \in Nat
                          /\ Cardinality(T) = 0 <=> T = {}
                          /\ T # {} => /\ Taken(T) \in T
                                       /\ Cardinality(T \ {Taken(T)}) = Cardinality(T) - 1
  <2> TAKE T \in SUBSET A
  <2>1. IsFiniteSet(T)
    BY FS_Subset
  <2>2. Cardinality(T) \in Nat /\ (Cardinality(T) = 0 <=> T = {})
    BY <2>1, FS_CardinalityType, FS_EmptySet
  <2>3. T # {} => Taken(T) \in T
    BY DEF Taken
  <2>4. \A x \in T : Cardinality(T \ {x}) = Cardinality(T) - 1
    BY <2>1, FS_RemoveElement
  <2> QED
    BY <2>1, <2>2, <2>3, <2>4
<1>1. ASSUME Bad # {} PROVE FALSE
  <2>1. PICK n \in Bad : \A m \in Bad : n <= m
    <3> Bad \subseteq Nat
      OBVIOUS
    <3> HIDE DEF Bad
    <3> QED
      BY <1>1, LeastOf
  <2>2. n \in Nat /\ ~\E g : Sums(g, n)
    OBVIOUS
  <2>3. CASE n = 0
    <3> DEFINE g == [T \in SUBSET A |-> 0]
    <3>1. ASSUME NEW T \in SUBSET A, Cardinality(T) <= 0 PROVE T = {}
      <4>1. Cardinality(T) \in Nat /\ (Cardinality(T) = 0 <=> T = {})
        BY <1>0
      <4> QED
        BY <3>1, <4>1
    <3>2. Sums(g, 0)
      BY <3>1 DEF SumStep
    <3> QED
      BY <2>2, <2>3, <3>2
  <2>4. CASE n # 0
    <3>1. n - 1 \in Nat /\ n - 1 \notin Bad
      <4> HIDE DEF Bad
      <4> QED
        BY <2>1, <2>2, <2>4
    <3>2. PICK g : Sums(g, n - 1)
      BY <3>1
    <3> DEFINE h == [T \in SUBSET A |-> SumStep(f, g, T)]
    <3>3. ASSUME NEW T \in SUBSET A, Cardinality(T) <= n PROVE h[T] = SumStep(f, h, T)
      <4>1. CASE T = {}
        BY <4>1 DEF SumStep
      <4>2. CASE T # {}
        <5> DEFINE U == T \ {Taken(T)}
        <5>1. U \in SUBSET A /\ Cardinality(U) <= n - 1
          BY <1>0, <2>2, <3>3, <4>2
        <5>2. g[U] = SumStep(f, g, U)
          BY <3>2, <5>1
        <5>3. h[U] = g[U]
          BY <5>1, <5>2
        <5>4. h[T] = f[Taken(T)] + g[U] /\ SumStep(f, h, T) = f[Taken(T)] + h[U]
          BY <4>2 DEF SumStep
        <5> QED
          BY <5>3, <5>4
      <4> QED
        BY <4>1, <4>2
    <3>4. Sums(h, n)
      BY <3>3
    <3> QED
      BY <2>2, <3>4
  <2> QED
    BY <2>3, <2>4
<1>2. PICK g : Sums(g, Cardinality(A))
  BY <1>0, <1>1
<1> DEFINE s == [T \in SUBSET A |-> g[T]]
           iter[T \in SUBSET A] == IF T = {} THEN 0
                                   ELSE LET x == CHOOSE x \in T : TRUE
                                        IN  f[x] + iter[T \ {x}]
<1>3. \A T \in SUBSET A : g[T] = SumStep(f, g, T)
  <2>1. \A T \in SUBSET A : Cardinality(T) <= Cardinality(A)
    BY FS_Subset
  <2> QED
    BY <1>2, <2>1
<1>4. s = [T \in SUBSET A |-> IF T = {} THEN 0 ELSE LET x == CHOOSE x \in T : TRUE
                                                   IN  f[x] + s[T \ {x}]]
  <2>1. \A T \in SUBSET A : s[T] = SumStep(f, s, T)
    BY <1>3 DEF SumStep
  <2>2. \A T \in SUBSET A : SumStep(f, s, T) = IF T = {} THEN 0 ELSE LET x == CHOOSE x \in T : TRUE
                                                   IN  f[x] + s[T \ {x}]
    BY DEF SumStep, Taken
  <2> QED
    BY <2>1, <2>2
<1>5. iter = [T \in SUBSET A |-> IF T = {} THEN 0 ELSE LET x == CHOOSE x \in T : TRUE
                                                      IN  f[x] + iter[T \ {x}]]
  <2> HIDE DEF s
  <2> QED
    BY <1>4
<1>6. SumFunctionOnSet(f, A) = iter[A]
  BY DEF SumFunctionOnSet, FoldFunctionOnSet, MapThenFoldSet
<1>7. \A T \in SUBSET A : iter[T] = SumStep(f, iter, T)
  <2> HIDE DEF iter
  <2> QED
    BY <1>5 DEF SumStep, Taken
<1> HIDE DEF iter
<1> QED
  BY <1>6, <1>7

(* A function that sums f over every part of A.                             *)
SumsUp(f, g, A) == \A T \in SUBSET A : g[T] = SumStep(f, g, T)

(* Whatever member is taken first, the sum is the same.                     *)
LEMMA AnyTakenFirst ==
  ASSUME NEW f, NEW A, IsFiniteSet(A), \A x \in A : f[x] \in Int, NEW g, SumsUp(f, g, A)
  PROVE  \A T \in SUBSET A : /\ g[T] \in Int
                             /\ \A x \in T : g[T] = f[x] + g[T \ {x}]
<1> DEFINE Right(T) == g[T] \in Int /\ \A x \in T : g[T] = f[x] + g[T \ {x}]
           Bad == {n \in Nat : \E T \in SUBSET A : Cardinality(T) = n /\ ~Right(T)}
<1>0. \A T \in SUBSET A : /\ IsFiniteSet(T) /\ Cardinality(T) \in Nat
                          /\ \A x \in T : Cardinality(T \ {x}) = Cardinality(T) - 1
  <2> TAKE T \in SUBSET A
  <2>1. IsFiniteSet(T)
    BY FS_Subset
  <2> QED
    BY <2>1, FS_CardinalityType, FS_RemoveElement
<1>1. ASSUME Bad # {} PROVE FALSE
  <2>1. PICK n \in Bad : \A m \in Bad : n <= m
    <3> Bad \subseteq Nat
      OBVIOUS
    <3> HIDE DEF Bad
    <3> QED
      BY <1>1, LeastOf
  <2>2. PICK T \in SUBSET A : Cardinality(T) = n /\ ~Right(T)
    OBVIOUS
  <2>3. ASSUME NEW U \in SUBSET A, Cardinality(U) < n PROVE Right(U)
    <3>1. Cardinality(U) \notin Bad
      <4>1. Cardinality(U) \in Nat /\ n \in Nat
        BY <1>0
      <4> HIDE DEF Bad
      <4> QED
        BY <2>1, <2>3, <4>1
    <3> QED
      BY <1>0, <3>1
  <2>4. n \in Nat
    OBVIOUS
  <2> HIDE DEF Bad, Right
  <2>5. CASE T = {}
    <3>1. g[T] = 0
      BY <2>5 DEF SumStep, SumsUp
    <3> QED
      BY <2>2, <2>5, <3>1 DEF Right
  <2>6. CASE T # {}
    <3> DEFINE p == Taken(T)
    <3>1. p \in T /\ g[T] = f[p] + g[T \ {p}]
      BY <2>6 DEF SumStep, SumsUp, Taken
    <3> HIDE DEF p
    <3>2. \A x \in T : T \ {x} \in SUBSET A /\ Right(T \ {x})
      <4> TAKE x \in T
      <4>1. T \ {x} \in SUBSET A /\ Cardinality(T \ {x}) < n
        BY <1>0, <2>2, <2>4
      <4> QED
        BY <2>3, <4>1
    <3>3. \A x \in T : f[x] \in Int /\ g[T \ {x}] \in Int
      BY <3>2 DEF Right
    <3>4. ASSUME NEW x \in T, x # p PROVE g[T] = f[x] + g[T \ {x}]
      <4>1. g[T \ {p}] = f[x] + g[(T \ {p}) \ {x}]
        BY <3>1, <3>2, <3>4 DEF Right
      <4>2. g[T \ {x}] = f[p] + g[(T \ {x}) \ {p}]
        BY <3>1, <3>2, <3>4 DEF Right
      <4>3. (T \ {p}) \ {x} = (T \ {x}) \ {p}
        OBVIOUS
      <4>4. (T \ {p}) \ {x} \in SUBSET A /\ Cardinality((T \ {p}) \ {x}) < n
        <5>1. T \ {p} \in SUBSET A /\ Cardinality(T \ {p}) = n - 1
          BY <1>0, <2>2, <3>1
        <5>2. (T \ {p}) \ {x} \in SUBSET A /\ Cardinality((T \ {p}) \ {x}) = (n - 1) - 1
          BY <1>0, <3>1, <3>4, <5>1
        <5> QED
          BY <2>4, <5>2
      <4>5. g[(T \ {p}) \ {x}] \in Int
        BY <2>3, <4>4 DEF Right
      <4> DEFINE c == g[(T \ {p}) \ {x}]
      <4>6. g[T] = f[p] + (f[x] + c) /\ g[T \ {x}] = f[p] + c
        BY <3>1, <4>1, <4>2, <4>3
      <4>7. c \in Int /\ f[p] \in Int /\ f[x] \in Int
        BY <3>1, <3>3, <4>5
      <4> HIDE DEF c
      <4> QED
        BY <4>6, <4>7
    <3>5. g[T] \in Int
      <4>1. f[p] \in Int /\ g[T \ {p}] \in Int
        BY <3>1, <3>3
      <4> QED
        BY <3>1, <4>1
    <3> QED
      BY <2>2, <3>1, <3>4, <3>5 DEF Right
  <2> QED
    BY <2>5, <2>6
<1>2. \A T \in SUBSET A : Right(T)
  BY <1>0, <1>1
<1> QED
  BY <1>2

(* The sum over nothing is 0, and a member adds its own.                    *)
LEMMA Sums ==
  ASSUME NEW f, NEW A, IsFiniteSet(A), \A x \in A : f[x] \in Int
  PROVE  /\ SumFunctionOnSet(f, {}) = 0
         /\ SumFunctionOnSet(f, A) \in Int
         /\ \A x \in A : SumFunctionOnSet(f, A) = f[x] + SumFunctionOnSet(f, A \ {x})
<1>1. SumFunctionOnSet(f, {}) = 0
  <2>1. PICK g : /\ SumsUp(f, g, {})
                 /\ SumFunctionOnSet(f, {}) = g[{}]
    BY FS_EmptySet, SumIsTaken DEF SumsUp
  <2> QED
    BY <2>1 DEF SumStep, SumsUp
<1>2. PICK g : /\ SumsUp(f, g, A)
               /\ SumFunctionOnSet(f, A) = g[A]
  BY SumIsTaken DEF SumsUp
<1>3. \A T \in SUBSET A : g[T] \in Int /\ \A x \in T : g[T] = f[x] + g[T \ {x}]
  BY <1>2, AnyTakenFirst
<1>4. ASSUME NEW x \in A PROVE SumFunctionOnSet(f, A) = f[x] + SumFunctionOnSet(f, A \ {x})
  <2>0. PICK Y : Y = A \ {x}
    OBVIOUS
  <2>1. IsFiniteSet(Y) /\ Y \in SUBSET A
    <3>1. Y \in SUBSET A
      BY <2>0
    <3> QED
      BY <3>1, FS_Subset
  <2>2. PICK h : /\ SumsUp(f, h, Y)
                 /\ SumFunctionOnSet(f, Y) = h[Y]
    BY <2>1, SumIsTaken DEF SumsUp
  <2>3. \A T \in SUBSET Y : h[T] \in Int /\ \A y \in T : h[T] = f[y] + h[T \ {y}]
    <3>1. \A y \in Y : f[y] \in Int
      BY <2>1
    <3>2. IsFiniteSet(Y)
      BY <2>1
    <3> QED
      BY <2>2, <3>1, <3>2, AnyTakenFirst
  <2> DEFINE Bad == {n \in Nat : \E T \in SUBSET Y : Cardinality(T) = n /\ g[T] # h[T]}
  <2>4. ASSUME Bad # {} PROVE FALSE
    <3>1. PICK n \in Bad : \A m \in Bad : n <= m
      <4> Bad \subseteq Nat
        OBVIOUS
      <4> HIDE DEF Bad
      <4> QED
        BY <2>4, LeastOf
    <3>2. PICK T \in SUBSET Y : Cardinality(T) = n /\ g[T] # h[T]
      OBVIOUS
    <3>3. IsFiniteSet(T)
      BY <2>1, FS_Subset
    <3>4. CASE T = {}
      BY <1>2, <2>2, <3>2, <3>4 DEF SumStep, SumsUp
    <3>5. CASE T # {}
      <4>1. PICK y \in T : TRUE
        BY <3>5
      <4>2. IsFiniteSet(T \ {y}) /\ Cardinality(T \ {y}) = n - 1 /\ T \ {y} \in SUBSET Y
        BY <3>2, <3>3, FS_RemoveElement
      <4>3. n - 1 \in Nat /\ n \in Nat
        BY <4>2, FS_CardinalityType
      <4>4. g[T \ {y}] = h[T \ {y}]
        <5>1. n - 1 \notin Bad
          <6> HIDE DEF Bad
          <6> QED
            BY <3>1, <4>3
        <5> QED
          BY <4>2, <4>3, <5>1
      <4>5. g[T] = f[y] + g[T \ {y}] /\ h[T] = f[y] + h[T \ {y}]
        BY <1>3, <2>1, <2>3
      <4> QED
        BY <3>2, <4>4, <4>5
    <3> QED
      BY <3>4, <3>5
  <2>5. g[Y] = h[Y]
    <3>1. Cardinality(Y) \in Nat
      BY <2>1, FS_CardinalityType
    <3> QED
      BY <2>4, <3>1
  <2>6. g[A] = f[x] + g[Y]
    BY <1>3, <2>0
  <2> QED
    BY <1>2, <2>0, <2>2, <2>5, <2>6
<1> QED
  BY <1>1, <1>2, <1>3, <1>4

(* What is told of each key is the number of its rows.                      *)
CountsKeys(rows, key, keys, h) ==
    /\ \A r \in rows : key[r] \in keys
    /\ \A k \in keys : h[k] = Cardinality({r \in rows : key[r] = k})

(* Rows fall under the keys they have: the rows of each key, summed up, are *)
(* the rows.                                                                *)
LEMMA CountedByKey ==
  ASSUME NEW rows, IsFiniteSet(rows), NEW key, NEW keys, IsFiniteSet(keys),
         NEW h, CountsKeys(rows, key, keys, h)
  PROVE  SumFunctionOnSet(h, keys) = Cardinality(rows)
<1>0. /\ \A r \in rows : key[r] \in keys
      /\ \A k \in keys : h[k] = Cardinality({r \in rows : key[r] = k})
  BY DEF CountsKeys
<1> DEFINE under(T) == {r \in rows : key[r] \in T}
           Bad == {n \in Nat : \E T \in SUBSET keys :
                     Cardinality(T) = n /\ SumFunctionOnSet(h, T) # Cardinality(under(T))}
<1>1. \A k \in keys : h[k] \in Int
  <2> TAKE k \in keys
  <2>1. IsFiniteSet({r \in rows : key[r] = k})
    BY FS_Subset
  <2> QED
    BY <1>0, <2>1, FS_CardinalityType
<1>2. ASSUME Bad # {} PROVE FALSE
  <2>1. PICK n \in Bad : \A m \in Bad : n <= m
    <3> Bad \subseteq Nat
      OBVIOUS
    <3> HIDE DEF Bad
    <3> QED
      BY <1>2, LeastOf
  <2>2. PICK T \in SUBSET keys :
          Cardinality(T) = n /\ SumFunctionOnSet(h, T) # Cardinality(under(T))
    OBVIOUS
  <2>3. IsFiniteSet(T) /\ \A k \in T : h[k] \in Int
    BY <1>1, FS_Subset
  <2>4. CASE T = {}
    <3>1. SumFunctionOnSet(h, T) = 0
      BY <2>3, <2>4, Sums
    <3>2. under(T) = {}
      BY <2>4
    <3> QED
      BY <2>2, <3>1, <3>2, FS_EmptySet
  <2>5. CASE T # {}
    <3>1. PICK k \in T : TRUE
      BY <2>5
    <3> DEFINE U == T \ {k}
               own == {r \in rows : key[r] = k}
    <3>2. IsFiniteSet(U) /\ Cardinality(U) = n - 1 /\ U \in SUBSET keys
      BY <2>2, <2>3, <3>1, FS_RemoveElement
    <3>3. n - 1 \in Nat /\ n \in Nat
      BY <3>2, FS_CardinalityType
    <3>4. SumFunctionOnSet(h, U) = Cardinality(under(U))
      <4>1. n - 1 \notin Bad
        <5> HIDE DEF Bad
        <5> QED
          BY <2>1, <3>3
      <4> QED
        BY <3>2, <3>3, <4>1
    <3>5. SumFunctionOnSet(h, T) = h[k] + SumFunctionOnSet(h, U)
      BY <2>3, <3>1, Sums
    <3>6. under(T) = own \union under(U) /\ own \intersect under(U) = {}
      BY <3>1
    <3>7. IsFiniteSet(own) /\ IsFiniteSet(under(U))
      BY FS_Subset
    <3>8. Cardinality(under(T)) = Cardinality(own) + Cardinality(under(U))
      <4> HIDE DEF own, U, under
      <4>1. Cardinality(own) \in Nat /\ Cardinality(under(U)) \in Nat
        BY <3>7, FS_CardinalityType
      <4>2. Cardinality(under(T))
              = Cardinality(own) + Cardinality(under(U)) - Cardinality(own \intersect under(U))
        BY <3>6, <3>7, FS_Union
      <4>3. Cardinality(own \intersect under(U)) = 0
        BY <3>6, FS_EmptySet
      <4> QED
        BY <4>1, <4>2, <4>3
    <3> QED
      BY <1>0, <2>2, <3>1, <3>4, <3>5, <3>8
  <2> QED
    BY <2>4, <2>5
<1>3. Cardinality(keys) \in Nat /\ under(keys) = rows
  BY <1>0, FS_CardinalityType
<1> QED
  BY <1>2, <1>3

-----------------------------------------------------------------------------
(* core/net/retry.py                                                        *)
(* Any status, Retry-After (negative: absent or not a number) and reset.    *)
AnyCalls == [1..R!MaxAttempts -> [status : Nat, after : Int, empty : BOOLEAN, reset : Int]]

(* What the k-th attempt comes to, if what follows comes to next.           *)
Attempted(call, k, next) ==
    LET a == call[k] IN
    IF a.status = 200 \/ ~R!is_retriable(a) \/ k = R!MaxAttempts
    THEN [status |-> a.status, waits |-> <<>>]
    ELSE [next EXCEPT !.waits = <<R!retry_delay(a, k - 1)>> \o @]

(* The waits of an outcome are all that a wait before it changes.           *)
LEMMA WaitsChanged ==
  ASSUME NEW st, NEW y, NEW z, NEW t, t = [status |-> st, waits |-> y]
  PROVE  t.waits = y /\ [t EXCEPT !.waits = z] = [status |-> st, waits |-> z]
<1>1. DOMAIN t = {"status", "waits"} /\ t.waits = y
  OBVIOUS
<1>2. [t EXCEPT !.waits = z] = [k \in {"status", "waits"} |-> IF k = "waits" THEN z ELSE t[k]]
  BY <1>1
<1> QED
  BY <1>1, <1>2

(* Two waits, one after the other.                                          *)
LEMMA TwoWaits ==
  ASSUME NEW x, NEW y
  PROVE  <<x>> \o <<y>> = <<x, y>> /\ <<x>> \o <<>> = <<x>>
<1> DEFINE s == <<x>> \o <<y>>
<1>1. s \in Seq({x, y}) /\ Len(s) = 2
  OBVIOUS
<1>2. s[1] = x /\ s[2] = y
  OBVIOUS
<1> HIDE DEF s
<1>3. s = <<s[1], s[2]>>
  BY <1>1
<1>4. <<x>> \o <<>> = <<x>>
  OBVIOUS
<1> QED
  BY <1>2, <1>3, <1>4 DEF s

(* The three attempts, one after the other.                                 *)
LEMMA RetryUnrolled ==
  ASSUME NEW call
  PROVE  R!request_with_retry(call)
           = Attempted(call, 1, Attempted(call, 2, Attempted(call, 3, <<>>)))
<1> DEFINE from[k \in 1..R!MaxAttempts] ==
             LET a == call[k] IN
             IF a.status = 200 \/ ~R!is_retriable(a) \/ k = R!MaxAttempts
             THEN [status |-> a.status, waits |-> <<>>]
             ELSE [from[k + 1] EXCEPT !.waits = <<R!retry_delay(a, k - 1)>> \o @]
           w3 == Attempted(call, 3, <<>>)
           w2 == Attempted(call, 2, w3)
           w1 == Attempted(call, 1, w2)
           g == [k \in 1..R!MaxAttempts |-> IF k = 3 THEN w3 ELSE IF k = 2 THEN w2 ELSE w1]
<1>1. R!MaxAttempts = 3
  BY DEF R!MaxAttempts
<1>2. \A next : Attempted(call, 3, next) = w3
  BY <1>1 DEF Attempted
<1>3. \A k \in 1..R!MaxAttempts : g[k] = Attempted(call, k, g[k + 1])
  <2> HIDE DEF w3, w2, w1
  <2>1. 1..R!MaxAttempts = {1, 2, 3} /\ g[1] = w1 /\ g[2] = w2 /\ g[3] = w3
    BY <1>1
  <2> HIDE DEF g
  <2>2. g[1] = Attempted(call, 1, g[2]) /\ g[2] = Attempted(call, 2, g[3])
    BY <2>1 DEF w1, w2
  <2>3. g[3] = Attempted(call, 3, g[4])
    BY <1>2, <2>1
  <2> QED
    BY <2>1, <2>2, <2>3
<1>4. g = [k \in 1..R!MaxAttempts |->
             LET a == call[k] IN
             IF a.status = 200 \/ ~R!is_retriable(a) \/ k = R!MaxAttempts
             THEN [status |-> a.status, waits |-> <<>>]
             ELSE [g[k + 1] EXCEPT !.waits = <<R!retry_delay(a, k - 1)>> \o @]]
  <2>1. g = [k \in 1..R!MaxAttempts |-> g[k]]
    OBVIOUS
  <2> HIDE DEF g
  <2>2. g = [k \in 1..R!MaxAttempts |-> Attempted(call, k, g[k + 1])]
    BY <1>3, <2>1, ZenonT(40)
  <2> QED
    BY <2>2 DEF Attempted
<1>5. from = [k \in 1..R!MaxAttempts |->
             LET a == call[k] IN
             IF a.status = 200 \/ ~R!is_retriable(a) \/ k = R!MaxAttempts
             THEN [status |-> a.status, waits |-> <<>>]
             ELSE [from[k + 1] EXCEPT !.waits = <<R!retry_delay(a, k - 1)>> \o @]]
  <2> HIDE DEF g
  <2> QED
    BY <1>4, ZenonT(40)
<1>6. R!request_with_retry(call) = from[1]
  BY DEF R!request_with_retry
<1>7. \A k \in 1..R!MaxAttempts : from[k] = Attempted(call, k, from[k + 1])
  <2> HIDE DEF from
  <2> QED
    BY <1>5 DEF Attempted
<1> HIDE DEF from, g
<1>8. from[3] = w3 /\ from[2] = w2 /\ from[1] = w1
  <2>1. 1 \in 1..3 /\ 2 \in 1..3 /\ 3 \in 1..3 /\ 1 + 1 = 2 /\ 2 + 1 = 3
    OBVIOUS
  <2>2. from[3] = w3
    BY <1>1, <1>2, <1>7, <2>1
  <2>3. from[2] = w2
    BY <1>1, <1>7, <2>1, <2>2
  <2>4. from[1] = w1
    BY <1>1, <1>7, <2>1, <2>3
  <2> QED
    BY <2>2, <2>3, <2>4
<1> QED
  BY <1>6, <1>8

(* The wait after an attempt that is repeated.                              *)
LEMMA WaitsRight ==
  ASSUME NEW a \in [status : Nat, after : Int, empty : BOOLEAN, reset : Int], NEW k \in {0, 1}
  PROVE  LET w == R!retry_delay(a, k)
         IN  /\ a.after >= 0 => w = a.after
             /\ a.after < 0 => w \in 1..R!MaxWait
             /\ a.after < 0 /\ a.empty => w >= R!least(a.reset, R!MaxWait)
<1>1. /\ R!MaxWait = 5 /\ R!BaseDelay = 1
      /\ a.after \in Int /\ a.reset \in Int /\ a.empty \in BOOLEAN
  BY DEF R!MaxWait, R!BaseDelay
<1>2. CASE a.after >= 0
  BY <1>1, <1>2 DEF R!retry_delay
<1>3. CASE ~(a.after >= 0) /\ a.empty /\ a.reset > 0
  <2>1. R!retry_delay(a, k) = R!least(a.reset, R!MaxWait)
    BY <1>1, <1>3 DEF R!retry_delay
  <2>2. R!least(a.reset, R!MaxWait) \in 1..R!MaxWait /\ R!least(a.reset, R!MaxWait) \in Int
    BY <1>1, <1>3 DEF R!least
  <2> HIDE DEF R!retry_delay, R!least
  <2> QED
    BY <1>3, <2>1, <2>2
<1>4. CASE ~(a.after >= 0) /\ ~(a.empty /\ a.reset > 0)
  <2>1. R!retry_delay(a, k) = R!BaseDelay * 2 ^ k
    BY <1>1, <1>4 DEF R!retry_delay
  <2>2. R!retry_delay(a, k) \in {1, 2}
    <3>1. R!retry_delay(a, k) = 2 ^ k
      <4>1. 2 ^ k \in {1, 2}
        <5>1. 2 ^ 0 = 1
          OBVIOUS
        <5>2. 2 ^ 1 = 2
          OBVIOUS
        <5> QED
          BY <5>1, <5>2
      <4> HIDE DEF R!retry_delay
      <4> QED
        BY <1>1, <2>1, <4>1
    <3>2. CASE k = 0
      BY <3>1, <3>2
    <3>3. CASE k = 1
      BY <3>1, <3>3
    <3> QED
      BY <3>2, <3>3
  <2>3. a.empty => R!least(a.reset, R!MaxWait) <= 0
    BY <1>1, <1>4 DEF R!least
  <2> HIDE DEF R!retry_delay
  <2>4. R!least(a.reset, R!MaxWait) \in Int
    BY <1>1 DEF R!least
  <2> QED
    BY <1>1, <1>4, <2>2, <2>3, <2>4
<1> QED
  BY <1>2, <1>3, <1>4

(* Whatever a call meets: it is not given up while an attempt is left that  *)
(* could save it, no refusal is repeated, at most MaxAttempts are made, and *)
(* each waits as long as the server asked for, or at most MaxWait where it  *)
(* did not ask.                                                             *)
THEOREM RetriesAreRight ==
  \A call \in AnyCalls : R!RetriedRightly(call, R!request_with_retry(call))
<1> SUFFICES ASSUME NEW call \in AnyCalls
             PROVE  R!RetriedRightly(call, R!request_with_retry(call))
  OBVIOUS
<1> DEFINE stops(k) == call[k].status = 200 \/ ~R!is_retriable(call[k])
           wait(k) == R!retry_delay(call[k], k - 1)
           r == R!request_with_retry(call)
<1>1. /\ R!MaxAttempts = 3 /\ R!MaxWait = 5
      /\ \A k \in 1..3 : call[k] \in [status : Nat, after : Int, empty : BOOLEAN, reset : Int]
  BY DEF R!MaxAttempts, R!MaxWait, AnyCalls
<1>2. \A k \in 1..2 : /\ call[k].after >= 0 => wait(k) = call[k].after
                      /\ call[k].after < 0 => wait(k) \in 1..R!MaxWait
                      /\ call[k].after < 0 /\ call[k].empty =>
                           wait(k) >= R!least(call[k].reset, R!MaxWait)
  <2> TAKE k \in 1..2
  <2>1. k - 1 \in {0, 1} /\ k \in 1..3
    OBVIOUS
  <2> QED
    BY <1>1, <2>1, WaitsRight
<1>3. r = IF stops(1) THEN [status |-> call[1].status, waits |-> <<>>]
          ELSE IF stops(2) THEN [status |-> call[2].status, waits |-> <<wait(1)>>]
          ELSE [status |-> call[3].status, waits |-> <<wait(1), wait(2)>>]
  <2>1. Attempted(call, 3, <<>>) = [status |-> call[3].status, waits |-> <<>>]
    BY <1>1 DEF Attempted
  <2>2. Attempted(call, 2, Attempted(call, 3, <<>>))
          = IF stops(2) THEN [status |-> call[2].status, waits |-> <<>>]
            ELSE [status |-> call[3].status, waits |-> <<wait(2)>>]
    <3> DEFINE t == Attempted(call, 3, <<>>)
    <3>1. Attempted(call, 2, t) = IF stops(2) THEN [status |-> call[2].status, waits |-> <<>>]
                                  ELSE [t EXCEPT !.waits = <<wait(2)>> \o t.waits]
      BY <1>1 DEF Attempted
    <3> HIDE DEF t, stops, wait
    <3>2. t.waits = <<>> /\ [t EXCEPT !.waits = <<wait(2)>> \o t.waits]
                            = [status |-> call[3].status, waits |-> <<wait(2)>> \o t.waits]
      BY <2>1, WaitsChanged DEF t
    <3> QED
      BY <3>1, <3>2, TwoWaits DEF t
  <2>3. Attempted(call, 1, Attempted(call, 2, Attempted(call, 3, <<>>)))
          = IF stops(1) THEN [status |-> call[1].status, waits |-> <<>>]
            ELSE IF stops(2) THEN [status |-> call[2].status, waits |-> <<wait(1)>>]
            ELSE [status |-> call[3].status, waits |-> <<wait(1), wait(2)>>]
    <3> DEFINE t == Attempted(call, 2, Attempted(call, 3, <<>>))
               u == <<wait(1)>> \o t.waits
    <3>1. Attempted(call, 1, t) = IF stops(1) THEN [status |-> call[1].status, waits |-> <<>>]
                                  ELSE [t EXCEPT !.waits = <<wait(1)>> \o t.waits]
      BY <1>1 DEF Attempted
    <3> HIDE DEF t, stops, wait
    <3>2. CASE stops(2)
      <4>1. t = [status |-> call[2].status, waits |-> <<>>]
        BY <2>2, <3>2 DEF t
      <4>2. t.waits = <<>> /\ [t EXCEPT !.waits = u] = [status |-> call[2].status, waits |-> u]
        BY <4>1, WaitsChanged
      <4>3. u = <<wait(1)>>
        BY <4>2, TwoWaits
      <4> QED
        BY <3>1, <3>2, <4>2, <4>3 DEF t
    <3>3. CASE ~stops(2)
      <4>1. t = [status |-> call[3].status, waits |-> <<wait(2)>>]
        BY <2>2, <3>3 DEF t
      <4>2. /\ t.waits = <<wait(2)>>
            /\ [t EXCEPT !.waits = u] = [status |-> call[3].status, waits |-> u]
        BY <4>1, WaitsChanged
      <4>3. u = <<wait(1), wait(2)>>
        BY <4>2, TwoWaits
      <4> QED
        BY <3>1, <3>3, <4>2, <4>3 DEF t
    <3> QED
      BY <3>2, <3>3
  <2> QED
    BY <2>3, RetryUnrolled
<1>4. PICK n \in 1..3 : /\ Len(r.waits) = n - 1 /\ r.status = call[n].status
                        /\ \A k \in 1..n - 1 : ~stops(k) /\ r.waits[k] = wait(k)
                        /\ stops(n) \/ n = 3
  <2> HIDE DEF stops, wait, r
  <2>1. CASE stops(1)
    <3>1. r = [status |-> call[1].status, waits |-> <<>>]
      BY <1>3, <2>1
    <3> WITNESS 1 \in 1..3
    <3> QED
      BY <2>1, <3>1
  <2>2. CASE ~stops(1) /\ stops(2)
    <3>1. r = [status |-> call[2].status, waits |-> <<wait(1)>>]
      BY <1>3, <2>2
    <3>2. 1..2 - 1 = {1}
      OBVIOUS
    <3> WITNESS 2 \in 1..3
    <3> QED
      BY <2>2, <3>1, <3>2
  <2>3. CASE ~stops(1) /\ ~stops(2)
    <3>1. r = [status |-> call[3].status, waits |-> <<wait(1), wait(2)>>]
      BY <1>3, <2>3
    <3>2. 1..3 - 1 = {1, 2}
      OBVIOUS
    <3> WITNESS 3 \in 1..3
    <3> QED
      BY <2>3, <3>1, <3>2
  <2> QED
    BY <2>1, <2>2, <2>3
<1>5. /\ Len(r.waits) + 1 = n /\ (Len(r.waits) + 1) - 1 = n - 1
      /\ \A k \in 1..n - 1 : k \in 1..2
  BY <1>4
<1>6. /\ call[n].status = 403 /\ n < 3 => call[n].after = R!None /\ ~call[n].empty
      /\ call[n].status # 200 => ~R!is_retriable(call[n]) \/ n = 3
  <2>1. CASE n = 3
    BY <2>1
  <2>2. CASE stops(n)
    BY <2>2 DEF R!is_retriable, R!is_rate_limited_403
  <2> QED
    BY <1>4, <2>1, <2>2
<1>7. \A k \in 1..n - 1 : R!is_retriable(call[k]) /\ call[k].status # 200
  BY <1>4
<1>8. \A k \in 1..n - 1 : /\ call[k].after >= 0 => r.waits[k] = call[k].after
                          /\ call[k].after < 0 => r.waits[k] \in 1..R!MaxWait
                          /\ call[k].after < 0 /\ call[k].empty =>
                               r.waits[k] >= R!least(call[k].reset, R!MaxWait)
  <2> HIDE DEF wait, r, stops
  <2> TAKE k \in 1..n - 1
  <2>1. k \in 1..2 /\ r.waits[k] = wait(k)
    BY <1>4, <1>5
  <2> QED
    BY <1>2, <2>1
<1>9. r.status = call[n].status /\ n <= 3
  BY <1>4
<1> HIDE DEF wait, r, stops
<1>10. R!RetriedRightly(call, r)
  BY <1>1, <1>5, <1>6, <1>7, <1>8, <1>9 DEF R!RetriedRightly
<1> QED
  BY <1>10 DEF r

(* A walk over N items from one state to the next: step says, of an item    *)
(* and a state, which is the next.                                          *)
Walk(g, step, s0, Y) == g[0] = s0 /\ \A n \in 1..Y : g[n] = step[<<n, g[n - 1]>>]

(* Whatever the steps, there is such a walk.                                *)
LEMMA Walks ==
  ASSUME NEW States, NEW s0 \in States, NEW Y \in Nat,
         NEW step \in [(1..Y) \X States -> States]
  PROVE  \E g \in [0..Y -> States] : Walk(g, step, s0, Y)
<1> DEFINE Bad == {n \in Nat : n <= Y /\ ~\E g \in [0..n -> States] : Walk(g, step, s0, n)}
<1>1. ASSUME Bad # {} PROVE FALSE
  <2>1. PICK n \in Bad : \A m \in Bad : n <= m
    <3> Bad \subseteq Nat
      OBVIOUS
    <3> HIDE DEF Bad
    <3> QED
      BY <1>1, LeastOf
  <2>2. n \in Nat /\ n <= Y /\ ~\E g \in [0..n -> States] : Walk(g, step, s0, n)
    OBVIOUS
  <2>3. CASE n = 0
    <3> DEFINE g == [m \in 0..0 |-> s0]
    <3>1. g \in [0..0 -> States] /\ Walk(g, step, s0, 0)
      BY DEF Walk
    <3> QED
      BY <2>2, <2>3, <3>1
  <2>4. CASE n # 0
    <3>1. n - 1 \in Nat /\ n - 1 <= Y /\ n - 1 \notin Bad
      <4> HIDE DEF Bad
      <4> QED
        BY <2>1, <2>2, <2>4
    <3>2. PICK g \in [0..n - 1 -> States] : Walk(g, step, s0, n - 1)
      BY <3>1
    <3> DEFINE h == [m \in 0..n |-> IF m = n THEN step[<<n, g[n - 1]>>] ELSE g[m]]
    <3>3. g[n - 1] \in States /\ n \in 1..Y
      BY <2>2, <2>4, <3>2
    <3>4. step[<<n, g[n - 1]>>] \in States
      BY <3>3
    <3>5. h \in [0..n -> States]
      <4>1. ASSUME NEW m \in 0..n PROVE h[m] \in States
        BY <2>2, <3>2, <3>4
      <4> QED
        BY <4>1
    <3>6. h[0] = s0 /\ h[n] = step[<<n, h[n - 1]>>]
      <4>1. n \in 0..n /\ n - 1 \in 0..n /\ n - 1 # n /\ 0 \in 0..n
        BY <2>2, <2>4
      <4>2. h[n] = step[<<n, g[n - 1]>>] /\ h[n - 1] = g[n - 1] /\ h[0] = g[0]
        BY <2>4, <4>1
      <4> HIDE DEF h
      <4> QED
        BY <3>2, <4>2 DEF Walk
    <3>7. ASSUME NEW m \in 1..n - 1 PROVE h[m] = step[<<m, h[m - 1]>>]
      <4>1. h[m] = g[m] /\ h[m - 1] = g[m - 1]
        BY <2>2
      <4> QED
        BY <3>2, <4>1 DEF Walk
    <3>8. Walk(h, step, s0, n)
      <4>1. \A m \in 1..n : m = n \/ m \in 1..n - 1
        BY <2>2
      <4> HIDE DEF h
      <4> QED
        BY <3>6, <3>7, <4>1 DEF Walk
    <3> QED
      BY <2>2, <3>5, <3>8
  <2> QED
    BY <2>3, <2>4
<1>2. Y \notin Bad
  BY <1>1
<1> QED
  BY <1>2

-----------------------------------------------------------------------------
(* codescan/iac_rules/dockerfile.py                                         *)
Kinds == {"latest-tag", "secret-copy", "secret-env", "pipe-to-shell"}

LineStates == [aliases : SUBSET {"base"}, from : Nat, user : BOOLEAN, root : BOOLEAN,
               issues : SUBSET (Kinds \X Nat)]

Users == {"USER app", "USER root"}

(* A line keeps the state in its domain.                                    *)
LEMMA LineTyped ==
  ASSUME NEW s \in LineStates, NEW l, NEW n \in Nat
  PROVE  N!check_line(s, l, n) \in LineStates
<1>1. \A k \in Kinds : s.issues \cup {<<k, n>>} \in SUBSET (Kinds \X Nat)
  BY DEF LineStates
<1>2. /\ s.issues \in SUBSET (Kinds \X Nat) /\ s.aliases \in SUBSET {"base"}
      /\ "latest-tag" \in Kinds /\ "secret-copy" \in Kinds /\ "secret-env" \in Kinds
      /\ "pipe-to-shell" \in Kinds
  BY DEF LineStates, Kinds
<1>3. \A k \in Kinds : [s EXCEPT !.issues = @ \cup {<<k, n>>}] \in LineStates
  BY <1>1 DEF LineStates
<1>4. CASE N!IsFrom(l)
  <2> DEFINE a == IF l = "FROM image:1 AS base" THEN s.aliases \cup {"base"} ELSE s.aliases
             i == IF N!unpinned(s, l) THEN s.issues \cup {<<"latest-tag", n>>} ELSE s.issues
  <2>1. N!check_line(s, l, n)
          = [s EXCEPT !.from = n, !.user = FALSE, !.root = FALSE, !.aliases = a, !.issues = i]
    BY <1>4 DEF N!check_line, N!IsFrom
  <2>2. a \in SUBSET {"base"} /\ i \in SUBSET (Kinds \X Nat)
    BY <1>1, <1>2
  <2> HIDE DEF a, i
  <2> QED
    BY <2>1, <2>2 DEF LineStates
<1>5. CASE l \in Users
  <2>1. N!check_line(s, l, n) = [s EXCEPT !.user = TRUE, !.root = l = "USER root"]
    BY <1>5 DEF N!check_line, N!IsFrom, Users
  <2> QED
    BY <2>1 DEF LineStates
<1>6. CASE ~N!IsFrom(l) /\ l \notin Users
  <2>1. \/ \E k \in Kinds : N!check_line(s, l, n) = [s EXCEPT !.issues = @ \cup {<<k, n>>}]
        \/ N!check_line(s, l, n) = s
    BY <1>2, <1>6 DEF N!check_line, Users
  <2> QED
    BY <1>3, <2>1
<1> QED
  BY <1>4, <1>5, <1>6

(* The diagnosis of a file is that of its lines, one after the other.       *)
LEMMA FileWalked ==
  ASSUME NEW f \in Seq(N!Line)
  PROVE  \E g \in [0..Len(f) -> LineStates] :
           /\ g[0] = N!Start
           /\ \A n \in 1..Len(f) : g[n] = N!check_line(g[n - 1], f[n], n)
           /\ N!check_dockerfile(f)
                = LET last == g[Len(f)]
                  IN  last.issues \cup (IF last.from # 0 /\ (~last.user \/ last.root)
                                        THEN {<<"root-user", last.from>>} ELSE {})
<1> DEFINE after[n \in 0..Len(f)] ==
             IF n = 0 THEN N!Start ELSE N!check_line(after[n - 1], f[n], n)
           step == [p \in (1..Len(f)) \X LineStates |-> N!check_line(p[2], f[p[1]], p[1])]
<1>1. Len(f) \in Nat
  OBVIOUS
<1>2. N!Start \in LineStates
  BY DEF N!Start, LineStates
<1>3. step \in [(1..Len(f)) \X LineStates -> LineStates]
  <2>1. ASSUME NEW p \in (1..Len(f)) \X LineStates
        PROVE  N!check_line(p[2], f[p[1]], p[1]) \in LineStates
    <3>1. p[2] \in LineStates /\ p[1] \in Nat
      BY <1>1
    <3> QED
      BY <3>1, LineTyped
  <2> QED
    BY <2>1
<1>4. PICK g \in [0..Len(f) -> LineStates] : Walk(g, step, N!Start, Len(f))
  <2> HIDE DEF step
  <2> QED
    BY <1>1, <1>2, <1>3, Walks
<1>5. \A n \in 1..Len(f) : g[n] = N!check_line(g[n - 1], f[n], n)
  <2> TAKE n \in 1..Len(f)
  <2>1. n - 1 \in 0..Len(f)
    BY <1>1
  <2>2. <<n, g[n - 1]>> \in (1..Len(f)) \X LineStates
    BY <2>1
  <2>3. step[<<n, g[n - 1]>>] = N!check_line(g[n - 1], f[n], n)
    BY <2>2
  <2> QED
    BY <1>4, <2>3 DEF Walk
<1>6. g = [n \in 0..Len(f) |-> IF n = 0 THEN N!Start ELSE N!check_line(g[n - 1], f[n], n)]
  <2>1. \A n \in 0..Len(f) : n # 0 => n \in 1..Len(f)
    BY <1>1
  <2> QED
    BY <1>4, <1>5, <2>1 DEF Walk
<1>7. after = [n \in 0..Len(f) |-> IF n = 0 THEN N!Start
                                   ELSE N!check_line(after[n - 1], f[n], n)]
  <2> HIDE DEF step
  <2> QED
    BY <1>6
<1>8. N!check_dockerfile(f)
        = LET last == after[Len(f)]
          IN  last.issues \cup (IF last.from # 0 /\ (~last.user \/ last.root)
                                THEN {<<"root-user", last.from>>} ELSE {})
  BY DEF N!check_dockerfile
<1> HIDE DEF after, step
<1>9. \A n \in 1..Len(f) : after[n] = N!check_line(after[n - 1], f[n], n)
  BY <1>1, <1>7
<1>10. after[0] = N!Start
  BY <1>1, <1>7
<1>11. after \in [0..Len(f) -> LineStates]
  <2> DEFINE Bad == {n \in Nat : n <= Len(f) /\ after[n] \notin LineStates}
  <2>1. ASSUME Bad # {} PROVE FALSE
    <3>1. PICK n \in Bad : \A m \in Bad : n <= m
      <4> Bad \subseteq Nat
        OBVIOUS
      <4> HIDE DEF Bad
      <4> QED
        BY <2>1, LeastOf
    <3>2. n \in Nat /\ n <= Len(f) /\ after[n] \notin LineStates
      OBVIOUS
    <3>3. n # 0
      BY <1>2, <1>10, <3>2
    <3>4. n - 1 \in Nat /\ n - 1 <= Len(f) /\ n - 1 \notin Bad /\ n \in 1..Len(f)
      <4> HIDE DEF Bad
      <4> QED
        BY <1>1, <3>1, <3>2, <3>3
    <3>5. after[n - 1] \in LineStates
      BY <3>4
    <3> QED
      BY <1>9, <3>2, <3>4, <3>5, LineTyped
  <2>2. \A n \in 0..Len(f) : after[n] \in LineStates
    BY <1>1, <2>1
  <2> QED
    BY <1>7, <2>2
<1> QED
  BY <1>8, <1>9, <1>10, <1>11

(* What is known of the first n lines of a file.                            *)
Aliased(f, n) == \E k \in 1..n : f[k] = "FROM image:1 AS base"

Untagged(f, n) == \/ f[n] \in {"FROM image", "FROM image:latest"}
                  \/ f[n] = "FROM base" /\ ~Aliased(f, n - 1)

StageBegins(f, n, from) == /\ from \in 0..n
                           /\ from # 0 => N!IsFrom(f[from])
                           /\ \A k \in from + 1..n : ~N!IsFrom(f[k])

LastSaid(f, n, k) == f[k] \in Users /\ \A m \in k + 1..n : f[m] \notin Users

LinesToldOf(f, n, issues) ==
    /\ \A i \in issues : i \in Kinds \X (1..n)
    /\ \A k \in 1..n : /\ <<"secret-copy", k>> \in issues <=> f[k] = "COPY .env"
                       /\ <<"secret-env", k>> \in issues <=> f[k] = "ENV TOKEN=value"
                       /\ <<"pipe-to-shell", k>> \in issues <=> f[k] = "RUN curl | sh"
                       /\ <<"latest-tag", k>> \in issues <=> Untagged(f, k)

ReadSoFar(f, n, s) ==
    /\ "base" \in s.aliases <=> Aliased(f, n)
    /\ StageBegins(f, n, s.from)
    /\ s.user <=> \E k \in s.from + 1..n : f[k] \in Users
    /\ s.root <=> \E k \in s.from + 1..n : f[k] = "USER root" /\ LastSaid(f, n, k)
    /\ LinesToldOf(f, n, s.issues)

(* A line adds its own issue.                                               *)
LEMMA LineTold ==
  ASSUME NEW f \in Seq(N!Line), NEW n \in 1..Len(f), NEW s \in LineStates,
         ReadSoFar(f, n - 1, s)
  PROVE  LinesToldOf(f, n, N!check_line(s, f[n], n).issues)
<1> DEFINE own == IF f[n] = "COPY .env" THEN {"secret-copy"}
                  ELSE IF f[n] = "ENV TOKEN=value" THEN {"secret-env"}
                  ELSE IF f[n] = "RUN curl | sh" THEN {"pipe-to-shell"}
                  ELSE IF Untagged(f, n) THEN {"latest-tag"} ELSE {}
           next == N!check_line(s, f[n], n).issues
<1>1. next = s.issues \cup {<<k, n>> : k \in own}
  <2>1. N!unpinned(s, f[n]) <=> Untagged(f, n)
    BY DEF N!unpinned, Untagged, ReadSoFar
  <2>2. CASE N!IsFrom(f[n])
    <3>1. N!check_line(s, f[n], n)
            = [s EXCEPT !.from = n, !.user = FALSE, !.root = FALSE,
                        !.aliases = IF f[n] = "FROM image:1 AS base" THEN @ \cup {"base"} ELSE @,
                        !.issues = IF N!unpinned(s, f[n]) THEN @ \cup {<<"latest-tag", n>>} ELSE @]
      BY <2>2 DEF N!check_line, N!IsFrom
    <3>2. next = IF N!unpinned(s, f[n]) THEN s.issues \cup {<<"latest-tag", n>>} ELSE s.issues
      BY <3>1 DEF LineStates
    <3>3. own = IF Untagged(f, n) THEN {"latest-tag"} ELSE {}
      BY <2>2 DEF N!IsFrom
    <3> HIDE DEF own, next
    <3> QED
      BY <2>1, <3>2, <3>3
  <2>3. CASE ~N!IsFrom(f[n])
    <3>1. ~Untagged(f, n)
      BY <2>3 DEF Untagged, N!IsFrom
    <3>2. CASE f[n] = "COPY .env"
      <4>1. N!check_line(s, f[n], n) = [s EXCEPT !.issues = @ \cup {<<"secret-copy", n>>}]
        BY <2>3, <3>2 DEF N!check_line
      <4>2. next = s.issues \cup {<<"secret-copy", n>>}
        BY <4>1 DEF LineStates
      <4>3. own = {"secret-copy"}
        BY <3>2
      <4> HIDE DEF own, next
      <4> QED
        BY <4>2, <4>3
    <3>3. CASE f[n] = "RUN curl | sh"
      <4>1. N!check_line(s, f[n], n) = [s EXCEPT !.issues = @ \cup {<<"pipe-to-shell", n>>}]
        BY <2>3, <3>3 DEF N!check_line
      <4>2. next = s.issues \cup {<<"pipe-to-shell", n>>}
        BY <4>1 DEF LineStates
      <4>3. own = {"pipe-to-shell"}
        BY <3>3
      <4> HIDE DEF own, next
      <4> QED
        BY <4>2, <4>3
    <3>5. CASE f[n] = "ENV TOKEN=value"
      <4>1. N!check_line(s, f[n], n) = [s EXCEPT !.issues = @ \cup {<<"secret-env", n>>}]
        BY <2>3, <3>5 DEF N!check_line
      <4>2. next = s.issues \cup {<<"secret-env", n>>}
        BY <4>1 DEF LineStates
      <4>3. own = {"secret-env"}
        BY <3>5
      <4> HIDE DEF own, next
      <4> QED
        BY <4>2, <4>3
    <3>4. CASE f[n] \notin {"COPY .env", "ENV TOKEN=value", "RUN curl | sh"}
      <4>1. next = s.issues
        BY <2>3, <3>4 DEF N!check_line, LineStates
      <4>2. own = {}
        BY <3>1, <3>4
      <4> HIDE DEF own, next
      <4> QED
        BY <4>1, <4>2
    <3> QED
      BY <3>2, <3>3, <3>4, <3>5
  <2> QED
    BY <2>2, <2>3
<1>2. own \subseteq Kinds /\ n \in Nat /\ n - 1 \in Nat
  <2>1. own \subseteq {"latest-tag", "secret-copy", "secret-env", "pipe-to-shell"}
    OBVIOUS
  <2>2. Len(f) \in Nat
    OBVIOUS
  <2>3. n \in Nat /\ n - 1 \in Nat
    BY <2>2
  <2> HIDE DEF own
  <2> QED
    BY <2>1, <2>3 DEF Kinds
<1>3. /\ "secret-copy" \in own <=> f[n] = "COPY .env"
      /\ "secret-env" \in own <=> f[n] = "ENV TOKEN=value"
      /\ "pipe-to-shell" \in own <=> f[n] = "RUN curl | sh"
      /\ "latest-tag" \in own <=> Untagged(f, n)
  <2>1. Untagged(f, n) => f[n] \in {"FROM image", "FROM image:latest", "FROM base"}
    BY DEF Untagged
  <2>2. CASE f[n] = "COPY .env"
    BY <2>1, <2>2
  <2>3. CASE f[n] = "RUN curl | sh"
    BY <2>1, <2>3
  <2>5. CASE f[n] = "ENV TOKEN=value"
    BY <2>1, <2>5
  <2>4. CASE f[n] \notin {"COPY .env", "ENV TOKEN=value", "RUN curl | sh"}
    BY <2>4
  <2> QED
    BY <2>2, <2>3, <2>4, <2>5
<1> HIDE DEF own, next
<1>4. LinesToldOf(f, n - 1, s.issues)
  BY DEF ReadSoFar
<1>5. \A i \in next : i \in Kinds \X (1..n)
  <2>1. \A i \in s.issues : i \in Kinds \X (1..n)
    <3>1. \A k \in 1..n - 1 : k \in 1..n
      OBVIOUS
    <3> QED
      BY <1>4, <3>1 DEF LinesToldOf
  <2>2. \A k \in own : <<k, n>> \in Kinds \X (1..n)
    BY <1>2
  <2> QED
    BY <1>1, <2>1, <2>2
<1>6. ASSUME NEW k \in 1..n
      PROVE  /\ <<"secret-copy", k>> \in next <=> f[k] = "COPY .env"
             /\ <<"secret-env", k>> \in next <=> f[k] = "ENV TOKEN=value"
             /\ <<"pipe-to-shell", k>> \in next <=> f[k] = "RUN curl | sh"
             /\ <<"latest-tag", k>> \in next <=> Untagged(f, k)
  <2>1. CASE k = n
    <3>1. \A x \in Kinds : <<x, n>> \notin s.issues
      <4>1. n \notin 1..n - 1
        BY <1>2
      <4> QED
        BY <1>4, <4>1 DEF LinesToldOf
    <3>2. \A x \in Kinds : <<x, n>> \in next <=> x \in own
      BY <1>1, <3>1
    <3> QED
      BY <1>3, <2>1, <3>2 DEF Kinds
  <2>2. CASE k # n
    <3>1. k \in 1..n - 1
      BY <1>2, <2>2
    <3>2. \A x \in Kinds : <<x, k>> \in next <=> <<x, k>> \in s.issues
      BY <1>1, <2>2
    <3> QED
      BY <1>4, <3>1, <3>2 DEF LinesToldOf, Kinds
  <2> QED
    BY <2>1, <2>2
<1> QED
  BY <1>5, <1>6 DEF LinesToldOf, next

(* And what else is known.                                                  *)
LEMMA LineRead ==
  ASSUME NEW f \in Seq(N!Line), NEW n \in 1..Len(f), NEW s \in LineStates,
         ReadSoFar(f, n - 1, s)
  PROVE  ReadSoFar(f, n, N!check_line(s, f[n], n))
<1> DEFINE t == N!check_line(s, f[n], n)
<1> SUFFICES ReadSoFar(f, n, t)
  OBVIOUS
<1>0. /\ n \in Nat /\ n - 1 \in Nat /\ n \notin 1..n - 1 /\ 1..n = (1..n - 1) \union {n}
      /\ s.from \in Nat /\ s.from <= n - 1 /\ n \in s.from + 1..n
      /\ s.from + 1..n = (s.from + 1..n - 1) \union {n} /\ n + 1..n = {} /\ n \in 1..n
      /\ n \in 0..n
  <2>1. n \in Nat /\ n >= 1
    OBVIOUS
  <2>2. s.from \in Nat /\ s.from <= n - 1
    <3>1. StageBegins(f, n - 1, s.from)
      BY DEF ReadSoFar
    <3>2. s.from \in 0..n - 1
      BY <3>1 DEF StageBegins
    <3> QED
      BY <2>1, <3>2
  <2>3. 1..n = (1..n - 1) \union {n} /\ n + 1..n = {}
    BY <2>1
  <2>4. s.from + 1..n = (s.from + 1..n - 1) \union {n}
    BY <2>1, <2>2
  <2> QED
    BY <2>1, <2>2, <2>3, <2>4
<1>1. LinesToldOf(f, n, t.issues)
  BY LineTold
<1>2. Aliased(f, n) <=> Aliased(f, n - 1) \/ f[n] = "FROM image:1 AS base"
  BY <1>0 DEF Aliased
<1>3. CASE N!IsFrom(f[n])
  <2>1. t = [s EXCEPT !.from = n, !.user = FALSE, !.root = FALSE,
                      !.aliases = IF f[n] = "FROM image:1 AS base" THEN @ \cup {"base"} ELSE @,
                      !.issues = IF N!unpinned(s, f[n]) THEN @ \cup {<<"latest-tag", n>>} ELSE @]
    BY <1>3 DEF N!check_line, N!IsFrom
  <2>2. /\ t.from = n /\ t.user = FALSE /\ t.root = FALSE
        /\ t.aliases = IF f[n] = "FROM image:1 AS base" THEN s.aliases \cup {"base"} ELSE s.aliases
    BY <2>1 DEF LineStates
  <2> HIDE DEF t
  <2>3. "base" \in t.aliases <=> Aliased(f, n)
    BY <1>2, <2>2 DEF ReadSoFar
  <2>4. StageBegins(f, n, t.from)
    BY <1>0, <1>3, <2>2 DEF StageBegins
  <2>5. t.from + 1..n = {}
    BY <1>0, <2>2
  <2> QED
    BY <1>1, <2>2, <2>3, <2>4, <2>5 DEF ReadSoFar
<1>4. CASE f[n] \in Users
  <2>1. t = [s EXCEPT !.user = TRUE, !.root = f[n] = "USER root"] /\ ~N!IsFrom(f[n])
    BY <1>4 DEF N!check_line, N!IsFrom, Users
  <2>2. /\ t.from = s.from /\ t.user = TRUE /\ t.root = (f[n] = "USER root")
        /\ t.aliases = s.aliases
    BY <2>1 DEF LineStates
  <2> HIDE DEF t
  <2>3. "base" \in t.aliases <=> Aliased(f, n)
    BY <1>2, <1>4, <2>2 DEF ReadSoFar, Users
  <2>4. StageBegins(f, n, t.from)
    <3>1. StageBegins(f, n - 1, s.from)
      BY DEF ReadSoFar
    <3> QED
      BY <1>0, <2>1, <2>2, <3>1 DEF StageBegins
  <2>5. t.user <=> \E k \in t.from + 1..n : f[k] \in Users
    BY <1>0, <1>4, <2>2
  <2>6. t.root <=> \E k \in t.from + 1..n : f[k] = "USER root" /\ LastSaid(f, n, k)
    <3>1. LastSaid(f, n, n)
      BY <1>0, <1>4 DEF LastSaid
    <3>2. \A k \in s.from + 1..n : k # n => ~LastSaid(f, n, k)
      <4> TAKE k \in s.from + 1..n
      <4>1. k # n => n \in k + 1..n
        BY <1>0
      <4> QED
        BY <1>4, <4>1 DEF LastSaid
    <3> QED
      BY <1>0, <2>2, <3>1, <3>2
  <2> QED
    BY <1>1, <2>3, <2>4, <2>5, <2>6 DEF ReadSoFar
<1>5. CASE ~N!IsFrom(f[n]) /\ f[n] \notin Users
  <2>1. t.from = s.from /\ t.user = s.user /\ t.root = s.root /\ t.aliases = s.aliases
    BY <1>5 DEF N!check_line, Users, LineStates
  <2> HIDE DEF t
  <2>2. f[n] # "FROM image:1 AS base"
    BY <1>5 DEF N!IsFrom
  <2>3. "base" \in t.aliases <=> Aliased(f, n)
    BY <1>2, <2>1, <2>2 DEF ReadSoFar
  <2>4. StageBegins(f, n, t.from)
    <3>1. StageBegins(f, n - 1, s.from)
      BY DEF ReadSoFar
    <3> QED
      BY <1>0, <1>5, <2>1, <3>1 DEF StageBegins
  <2>5. t.user <=> \E k \in t.from + 1..n : f[k] \in Users
    BY <1>0, <1>5, <2>1 DEF ReadSoFar
  <2>6. \A k \in s.from + 1..n : LastSaid(f, n, k) <=> k # n /\ LastSaid(f, n - 1, k)
    <3> TAKE k \in s.from + 1..n
    <3>1. CASE k = n
      BY <1>5, <3>1 DEF LastSaid
    <3>2. CASE k # n
      <4>1. k + 1..n = (k + 1..n - 1) \union {n}
        BY <1>0, <3>2
      <4> QED
        BY <1>5, <3>2, <4>1 DEF LastSaid
    <3> QED
      BY <3>1, <3>2
  <2>7. t.root <=> \E k \in t.from + 1..n : f[k] = "USER root" /\ LastSaid(f, n, k)
    <3>1. \A k \in s.from + 1..n : k # n <=> k \in s.from + 1..n - 1
      BY <1>0
    <3>2. \A k \in s.from + 1..n - 1 : k \in s.from + 1..n
      BY <1>0
    <3> QED
      BY <1>0, <2>1, <2>6, <3>1, <3>2 DEF ReadSoFar
  <2> QED
    BY <1>1, <2>3, <2>4, <2>5, <2>7 DEF ReadSoFar
<1> QED
  BY <1>3, <1>4, <1>5

(* A file of any length and any lines: only the last stage decides who the  *)
(* container runs as, and in it the last word on the user; what is copied,  *)
(* set or piped is told in every stage; an image without a tag or of the    *)
(* latest is told of, the name of an earlier stage is not.                  *)
THEOREM DockerfilesAreDiagnosed ==
  \A f \in Seq(N!Line) : N!DiagnosedRightly(f, N!check_dockerfile(f))
<1> SUFFICES ASSUME NEW f \in Seq(N!Line)
             PROVE  N!DiagnosedRightly(f, N!check_dockerfile(f))
  OBVIOUS
<1>1. PICK g \in [0..Len(f) -> LineStates] :
           /\ g[0] = N!Start
           /\ \A n \in 1..Len(f) : g[n] = N!check_line(g[n - 1], f[n], n)
           /\ N!check_dockerfile(f)
                = LET last == g[Len(f)]
                  IN  last.issues \cup (IF last.from # 0 /\ (~last.user \/ last.root)
                                        THEN {<<"root-user", last.from>>} ELSE {})
  BY FileWalked
<1> DEFINE Bad == {n \in Nat : n <= Len(f) /\ ~ReadSoFar(f, n, g[n])}
<1>2. Len(f) \in Nat /\ DOMAIN f = 1..Len(f)
  OBVIOUS
<1>3. ASSUME Bad # {} PROVE FALSE
  <2>1. PICK n \in Bad : \A m \in Bad : n <= m
    <3> Bad \subseteq Nat
      OBVIOUS
    <3> HIDE DEF Bad
    <3> QED
      BY <1>3, LeastOf
  <2>2. n \in Nat /\ n <= Len(f) /\ ~ReadSoFar(f, n, g[n])
    OBVIOUS
  <2>3. CASE n = 0
    <3>1. 1..0 = {} /\ 0 + 1..0 = {} /\ 0 \in 0..0
      OBVIOUS
    <3>2. ReadSoFar(f, 0, N!Start)
      BY <3>1 DEF ReadSoFar, N!Start, Aliased, StageBegins, LinesToldOf
    <3> QED
      BY <1>1, <2>2, <2>3, <3>2
  <2>4. CASE n # 0
    <3>1. n - 1 \in Nat /\ n - 1 <= Len(f) /\ n - 1 \notin Bad
      <4> HIDE DEF Bad
      <4> QED
        BY <1>2, <2>1, <2>2, <2>4
    <3>2. ReadSoFar(f, n - 1, g[n - 1])
      BY <3>1
    <3>3. n \in 1..Len(f) /\ g[n - 1] \in LineStates
      BY <1>1, <1>2, <2>2, <2>4, <3>1
    <3> QED
      BY <1>1, <2>2, <3>2, <3>3, LineRead
  <2> QED
    BY <2>3, <2>4
<1> DEFINE last == g[Len(f)]
           issues == N!check_dockerfile(f)
           froms == {n \in DOMAIN f : N!IsFrom(f[n])}
           stage == {n \in froms : \A k \in froms : k <= n}
           said == {n \in DOMAIN f : f[n] \in {"USER app", "USER root"}
                                       /\ \A k \in stage : n > k}
           rooted == last.from # 0 /\ (~last.user \/ last.root)
<1>4. ReadSoFar(f, Len(f), last) /\ last \in LineStates
  BY <1>1, <1>2, <1>3
<1>5. issues = last.issues \cup (IF rooted THEN {<<"root-user", last.from>>} ELSE {})
  BY <1>1
<1>6. /\ last.from \in 0..Len(f)
      /\ last.from # 0 => N!IsFrom(f[last.from])
      /\ \A k \in last.from + 1..Len(f) : ~N!IsFrom(f[k])
  BY <1>4 DEF ReadSoFar, StageBegins
<1> HIDE DEF last, issues
<1>7. stage = IF last.from = 0 THEN {} ELSE {last.from}
  <2>1. CASE last.from = 0
    <3>1. \A k \in 1..Len(f) : ~N!IsFrom(f[k])
      BY <1>6, <2>1
    <3> QED
      BY <1>2, <2>1, <3>1
  <2>2. CASE last.from # 0
    <3>1. last.from \in froms
      BY <1>2, <1>6, <2>2
    <3>2. \A k \in froms : k <= last.from
      <4> TAKE k \in froms
      <4>1. k \in 1..Len(f) /\ N!IsFrom(f[k])
        BY <1>2
      <4> QED
        BY <1>2, <1>6, <4>1
    <3>3. \A k \in froms : k \in Int
      BY <1>2
    <3> HIDE DEF froms
    <3> QED
      BY <2>2, <3>1, <3>2, <3>3
  <2> QED
    BY <2>1, <2>2
<1>8. said = {k \in last.from + 1..Len(f) : f[k] \in Users}
  <2>1. \A k \in 1..Len(f) : (\A m \in stage : k > m) <=> k \in last.from + 1..Len(f)
    BY <1>2, <1>6, <1>7
  <2>2. \A k \in last.from + 1..Len(f) : k \in 1..Len(f)
    BY <1>2, <1>6
  <2> HIDE DEF stage
  <2> QED
    BY <1>2, <2>1, <2>2 DEF Users
<1>9. rooted <=> /\ last.from # 0
                 /\ \A k \in said : (\A m \in said : m <= k) => f[k] = "USER root"
  <2>0. \A x \in last.from + 1..Len(f) : x \in Int
    <3> HIDE DEF Bad, froms, stage, rooted, said
    <3>1. last.from \in Int
      BY <1>2, <1>6
    <3> QED
      BY <1>2, <3>1
  <2>1. /\ last.user <=> said # {}
        /\ last.root <=>
             \E k \in last.from + 1..Len(f) : f[k] = "USER root" /\ LastSaid(f, Len(f), k)
    BY <1>4, <1>8 DEF ReadSoFar
  <2>2. \A k \in said : /\ k \in last.from + 1..Len(f)
                        /\ LastSaid(f, Len(f), k) <=> \A m \in said : m <= k
    <3> TAKE k \in said
    <3> HIDE DEF Bad, froms, stage, rooted
    <3>1. k \in last.from + 1..Len(f) /\ f[k] \in Users
      BY <1>8
    <3>2. ASSUME LastSaid(f, Len(f), k), NEW m \in said PROVE m <= k
      <4> HIDE DEF stage, froms, said, rooted, Bad
      <4>1. m \in last.from + 1..Len(f) /\ f[m] \in Users
        BY <1>8
      <4>2. m > k => m \in k + 1..Len(f)
        BY <1>2, <1>6, <2>0, <3>1, <4>1
      <4> HIDE DEF said
      <4> QED
        BY <1>2, <1>6, <3>1, <3>2, <4>1, <4>2 DEF LastSaid
    <3>3. ASSUME \A m \in said : m <= k PROVE LastSaid(f, Len(f), k)
      <4> HIDE DEF stage, froms, said, rooted, Bad
      <4>1. SUFFICES ASSUME NEW m \in k + 1..Len(f), f[m] \in Users PROVE FALSE
        BY <3>1 DEF LastSaid
      <4>2. m \in last.from + 1..Len(f) /\ m > k
        BY <1>2, <1>6, <2>0, <3>1, <4>1
      <4>3. m \in said
        BY <1>8, <4>1, <4>2
      <4> HIDE DEF said
      <4> QED
        BY <1>2, <1>6, <3>1, <3>3, <4>2, <4>3
    <3> QED
      BY <3>1, <3>2, <3>3
  <2>3. said # {} => \E k \in said : \A m \in said : m <= k
    <3>1. said \in SUBSET Int /\ IsFiniteSet(said)
      <4>1. said \subseteq 1..Len(f)
        BY <1>2
      <4>2. IsFiniteSet(1..Len(f))
        BY <1>2, FS_Interval
      <4> HIDE DEF said
      <4> QED
        BY <4>1, <4>2, FS_Subset
    <3> HIDE DEF said
    <3>2. \A k, m \in said : k >= m <=> m <= k
      BY <3>1
    <3> QED
      BY <3>1, <3>2, Extremes
  <2>4. \A k, m \in said : (\A x \in said : x <= k) /\ (\A x \in said : x <= m) => k = m
    <3> HIDE DEF said, Bad, rooted
    <3>1. \A k \in said : k \in Int
      BY <1>2, <1>6, <1>8
    <3> QED
      BY <3>1
  <2>5. \A k \in last.from + 1..Len(f) : f[k] = "USER root" => k \in said
    BY <1>8 DEF Users
  <2> HIDE DEF said
  <2> QED
    BY <2>1, <2>2, <2>3, <2>4, <2>5
<1>10. \A n \in DOMAIN f : <<"root-user", n>> \in issues <=> rooted /\ n = last.from
  <2>1. \A n \in DOMAIN f : <<"root-user", n>> \notin last.issues
    BY <1>4 DEF LineStates, Kinds
  <2> HIDE DEF rooted
  <2> QED
    BY <1>5, <2>1
<1>11. \A n \in DOMAIN f : <<"root-user", n>> \in issues <=>
         /\ n \in stage
         /\ \A k \in said : (\A m \in said : m <= k) => f[k] = "USER root"
  <2> HIDE DEF rooted, stage, said
  <2>1. \A n \in DOMAIN f : n # 0
    BY <1>2
  <2> QED
    BY <1>7, <1>9, <1>10, <2>1
<1>12. LinesToldOf(f, Len(f), last.issues)
  BY <1>4 DEF ReadSoFar
<1>13. ASSUME NEW n \in DOMAIN f
       PROVE  /\ <<"secret-copy", n>> \in issues <=> f[n] = "COPY .env"
              /\ <<"secret-env", n>> \in issues <=> f[n] = "ENV TOKEN=value"
              /\ <<"pipe-to-shell", n>> \in issues <=> f[n] = "RUN curl | sh"
              /\ <<"latest-tag", n>> \in issues <=>
                   \/ f[n] \in {"FROM image", "FROM image:latest"}
                   \/ f[n] = "FROM base" /\ \A k \in 1..n - 1 : f[k] # "FROM image:1 AS base"
  <2>1. \A x \in Kinds : <<x, n>> \in issues <=> <<x, n>> \in last.issues
    <3> HIDE DEF rooted
    <3> QED
      BY <1>5 DEF Kinds
  <2> QED
    BY <1>2, <1>12, <2>1 DEF LinesToldOf, Kinds, Untagged, Aliased
<1>14. \A i \in issues : i[2] \in DOMAIN f
  <2>1. \A i \in last.issues : i[2] \in DOMAIN f
    BY <1>2, <1>12 DEF LinesToldOf
  <2>2. rooted => last.from \in DOMAIN f
    BY <1>2, <1>6
  <2> HIDE DEF rooted
  <2> QED
    BY <1>5, <2>1, <2>2
<1> HIDE DEF rooted
<1> QED
  BY <1>11, <1>13, <1>14 DEF N!DiagnosedRightly, issues

(* Two numbers have a greater and a lesser one, and a set the extremes that *)
(* its members show.                                                        *)
LEMMA MaxMinIs ==
  /\ \A Y \in SUBSET Int : \A m \in Y : (\A y \in Y : m >= y) => V!Max(Y) = m
  /\ \A Y \in SUBSET Int : \A m \in Y : (\A y \in Y : m =< y) => V!Min(Y) = m
  /\ \A a, b \in Int : /\ V!Max({a, b}) = IF a >= b THEN a ELSE b
                       /\ V!Min({a, b}) = IF a =< b THEN a ELSE b
<1>1. ASSUME NEW Y \in SUBSET Int, NEW m \in Y, \A y \in Y : m >= y PROVE V!Max(Y) = m
  <2>1. \A x \in Y : (\A y \in Y : x >= y) => x = m
    <3> TAKE x \in Y
    <3>1. x \in Int /\ m \in Int /\ m >= x
      BY <1>1
    <3> QED
      BY <3>1
  <2> QED
    BY <1>1, <2>1 DEF V!Max
<1>2. ASSUME NEW Y \in SUBSET Int, NEW m \in Y, \A y \in Y : m =< y PROVE V!Min(Y) = m
  <2>1. \A x \in Y : (\A y \in Y : x =< y) => x = m
    <3> TAKE x \in Y
    <3>1. x \in Int /\ m \in Int /\ m =< x
      BY <1>2
    <3> QED
      BY <3>1
  <2> QED
    BY <1>2, <2>1 DEF V!Min
<1>3. ASSUME NEW a \in Int, NEW b \in Int
      PROVE  /\ V!Max({a, b}) = IF a >= b THEN a ELSE b
             /\ V!Min({a, b}) = IF a =< b THEN a ELSE b
  <2> DEFINE Y == {a, b}
  <2>1. Y \in SUBSET Int /\ a \in Y /\ b \in Y
    OBVIOUS
  <2>2. CASE a >= b /\ a =< b
    <3>1. \A y \in Y : a >= y /\ a =< y
      BY <2>2
    <3> HIDE DEF Y
    <3>2. V!Max(Y) = a /\ V!Min(Y) = a
      BY <1>1, <1>2, <2>1, <3>1
    <3> QED
      BY <2>2, <3>2 DEF Y
  <2>3. CASE a >= b /\ ~(a =< b)
    <3>1. \A y \in Y : a >= y /\ b =< y
      BY <2>3
    <3> HIDE DEF Y
    <3>2. V!Max(Y) = a /\ V!Min(Y) = b
      BY <1>1, <1>2, <2>1, <3>1
    <3> QED
      BY <2>3, <3>2 DEF Y
  <2>4. CASE ~(a >= b)
    <3>1. \A y \in Y : b >= y /\ a =< y
      BY <2>4
    <3> HIDE DEF Y
    <3>2. V!Max(Y) = b /\ V!Min(Y) = a
      BY <1>1, <1>2, <2>1, <3>1
    <3> QED
      BY <2>4, <3>2 DEF Y
  <2> QED
    BY <2>2, <2>3, <2>4
<1> QED
  BY <1>1, <1>2, <1>3

-----------------------------------------------------------------------------
(* runtimes/: the releases of Flutter and Dart                              *)
AnyRelease == [stable : BOOLEAN, minor : 1..2, patch : Nat, day : Nat \union {V!None}]

CyclesHeard == [1..2 -> [patch : Int, day : Int]]

(* What is known of the cycles after one more release.                      *)
Heard(known, r) ==
    IF ~r.stable THEN known
    ELSE [known EXCEPT ![r.minor] = [patch |-> V!Max({@.patch, r.patch}),
                                     day |-> V!earliest(@.day, r.day)]]

(* The earlier of two days, of which either may not be known.               *)
LEMMA EarliestIs ==
  \A a, b \in Nat \union {V!None} :
     V!earliest(a, b) = IF a = V!None THEN b ELSE IF b = V!None \/ a =< b THEN a ELSE b
<1> TAKE a, b \in Nat \union {V!None}
<1>1. a \in Int /\ b \in Int
  BY DEF V!None
<1>2. V!Min({a, b}) = IF a =< b THEN a ELSE b
  BY <1>1, MaxMinIs
<1> QED
  BY <1>2 DEF V!earliest

(* A cycle after the first n releases: the greatest patch and the earliest  *)
(* day of its stable releases, if there are any.                            *)
Among(h, n, minor) == {m \in 1..n : h[m].stable /\ h[m].minor = minor}

CycleKnown(h, n, minor, c) ==
    LET of == Among(h, n, minor)
        told == {m \in of : h[m].day # V!None}
    IN  /\ c = [patch |-> c.patch, day |-> c.day]
        /\ IF of = {} THEN c.patch = V!None
           ELSE /\ \E m \in of : c.patch = h[m].patch
                /\ \A m \in of : c.patch >= h[m].patch
        /\ IF told = {} THEN c.day = V!None
           ELSE /\ \E m \in told : c.day = h[m].day
                /\ \A m \in told : c.day =< h[m].day

(* One more release.                                                        *)
LEMMA KnownStep ==
  ASSUME NEW h \in Seq(AnyRelease), NEW n \in 1..Len(h), NEW minor \in 1..2,
         NEW known \in CyclesHeard, CycleKnown(h, n - 1, minor, known[minor])
  PROVE  Heard(known, h[n]) \in CyclesHeard /\ CycleKnown(h, n, minor, Heard(known, h[n])[minor])
<1> DEFINE r == h[n]
           c == known[minor]
           d == Heard(known, h[n])[minor]
<1>1. /\ Len(h) \in Nat /\ n \in Nat /\ n - 1 \in Nat /\ n \in 1..n
      /\ 1..n = (1..n - 1) \union {n} /\ n \notin 1..n - 1
  <2>1. Len(h) \in Nat
    OBVIOUS
  <2> QED
    BY <2>1
<1>2. \A m \in 1..n : /\ h[m] \in AnyRelease /\ h[m].stable \in BOOLEAN /\ h[m].minor \in 1..2
                      /\ h[m].patch \in Nat /\ h[m].day \in Nat \union {V!None}
  <2> TAKE m \in 1..n
  <2>1. m \in 1..Len(h)
    BY <1>1
  <2>2. h[m] \in AnyRelease
    BY <2>1
  <2> QED
    BY <2>2 DEF AnyRelease
<1>3. \A k \in 1..2 : known[k].patch \in Int /\ known[k].day \in Int /\ V!None \in Int
  BY DEF CyclesHeard, V!None
<1> HIDE DEF r
<1>4. r \in AnyRelease /\ r.stable \in BOOLEAN /\ r.minor \in 1..2 /\ r.patch \in Nat
      /\ r.day \in Nat \union {V!None} /\ r.patch \in Int /\ r.day \in Int
  BY <1>1, <1>2 DEF r, V!None
<1>5. \A a, b \in Int : V!earliest(a, b) \in Int
  BY MaxMinIs DEF V!earliest
<1>6. Heard(known, r) \in CyclesHeard
  <2>1. CASE ~r.stable
    BY <2>1 DEF Heard
  <2>2. CASE r.stable
    <3> DEFINE e == [patch |-> V!Max({known[r.minor].patch, r.patch}),
                     day |-> V!earliest(known[r.minor].day, r.day)]
    <3>1. V!Max({known[r.minor].patch, r.patch}) \in Int
      BY <1>3, <1>4, MaxMinIs
    <3>2. e \in [patch : Int, day : Int]
      BY <1>3, <1>4, <1>5, <3>1
    <3>3. Heard(known, r) = [known EXCEPT ![r.minor] = e]
      BY <2>2 DEF Heard
    <3> HIDE DEF e
    <3> QED
      BY <1>4, <3>2, <3>3 DEF CyclesHeard
  <2> QED
    BY <1>4, <2>1, <2>2
<1>7. CASE ~(r.stable /\ r.minor = minor)
  <2>1. d = c
    BY <1>4, <1>7 DEF Heard, CyclesHeard, r
  <2>2. Among(h, n, minor) = Among(h, n - 1, minor)
    BY <1>1, <1>7 DEF Among, r
  <2> QED
    BY <1>6, <2>1, <2>2 DEF CycleKnown, r
<1>8. CASE r.stable /\ r.minor = minor
  <2>1. d = [patch |-> V!Max({c.patch, r.patch}), day |-> V!earliest(c.day, r.day)]
    BY <1>4, <1>8 DEF Heard, CyclesHeard, r
  <2> DEFINE before == Among(h, n - 1, minor)
             of == Among(h, n, minor)
             told == {m \in before : h[m].day # V!None}
             tell == {m \in of : h[m].day # V!None}
  <2>2. of = before \union {n} /\ n \in of
    BY <1>1, <1>8 DEF Among, r
  <2>3. tell = IF r.day = V!None THEN told ELSE told \union {n}
    <3> HIDE DEF of, before
    <3> QED
      BY <2>2 DEF r
  <2>4. \A m \in before : m \in 1..n /\ h[m].patch \in Int /\ h[m].day \in Nat \union {V!None}
    BY <1>1, <1>2 DEF Among
  <2>5. \A m \in told : m \in before
    OBVIOUS
  <2>6. /\ IF before = {} THEN c.patch = V!None
           ELSE /\ \E m \in before : c.patch = h[m].patch
                /\ \A m \in before : c.patch >= h[m].patch
        /\ IF told = {} THEN c.day = V!None
           ELSE /\ \E m \in told : c.day = h[m].day
                /\ \A m \in told : c.day =< h[m].day
    BY DEF CycleKnown
  <2>7. c.patch \in Int /\ c.day \in Nat \union {V!None}
    <3>1. c.patch \in Int
      BY <1>3
    <3>2. CASE told = {}
      <4>1. c.day = V!None
        BY <2>6, <3>2
      <4> QED
        BY <3>1, <4>1
    <3>3. CASE told # {}
      <4>1. PICK m \in told : c.day = h[m].day
        BY <2>6, <3>3
      <4>2. m \in before
        OBVIOUS
      <4> HIDE DEF before, told, of, tell
      <4> QED
        BY <2>4, <3>1, <4>1, <4>2
    <3> QED
      BY <3>1, <3>2, <3>3
  <2>8. /\ d.patch = IF c.patch >= r.patch THEN c.patch ELSE r.patch
        /\ d.day = IF c.day = V!None THEN r.day ELSE IF r.day = V!None \/ c.day =< r.day THEN c.day
                   ELSE r.day
    <3> HIDE DEF before, told, of, tell, c
    <3>1. d.patch = V!Max({c.patch, r.patch}) /\ d.day = V!earliest(c.day, r.day)
      BY <2>1
    <3> HIDE DEF d
    <3>2. d.patch = IF c.patch >= r.patch THEN c.patch ELSE r.patch
      BY <1>4, <2>7, <3>1, MaxMinIs
    <3>3. d.day = IF c.day = V!None THEN r.day
                  ELSE IF r.day = V!None \/ c.day =< r.day THEN c.day ELSE r.day
      BY <1>4, <2>7, <3>1, EarliestIs
    <3> QED
      BY <3>2, <3>3
  <2>9. d = [patch |-> d.patch, day |-> d.day]
    BY <2>1
  <2> HIDE DEF before, of, tell, told, c, d
  <2>10. /\ \E m \in of : d.patch = h[m].patch
         /\ \A m \in of : d.patch >= h[m].patch
    <3>1. r.patch = h[n].patch
      BY DEF r
    <3>2. CASE before = {}
      <4>1. d.patch = r.patch
        BY <1>4, <2>6, <2>8, <3>2 DEF V!None
      <4> QED
        BY <1>4, <2>2, <3>1, <3>2, <4>1
    <3>3. CASE before # {}
      <4>1. d.patch \in Int /\ d.patch >= c.patch /\ d.patch >= r.patch
        BY <1>4, <2>7, <2>8
      <4>2. \A m \in before : d.patch >= h[m].patch
        BY <2>4, <2>6, <2>7, <3>3, <4>1, SMTT(30)
      <4>3. \E m \in of : d.patch = h[m].patch
        BY <2>2, <2>6, <2>8, <3>1, <3>3
      <4> QED
        BY <2>2, <3>1, <4>1, <4>2, <4>3
    <3> QED
      BY <3>2, <3>3
  <2>11. IF tell = {} THEN d.day = V!None
         ELSE /\ \E m \in tell : d.day = h[m].day
              /\ \A m \in tell : d.day =< h[m].day
    <3>1. r.day = h[n].day
      BY DEF r
    <3>2. CASE r.day = V!None
      <4>1. d.day = c.day /\ tell = told
        BY <2>3, <2>8, <3>2
      <4> QED
        BY <2>6, <4>1
    <3>3. CASE r.day # V!None
      <4>1. tell = told \union {n} /\ r.day \in Nat
        BY <1>4, <2>3, <3>3
      <4>2. CASE told = {}
        <5>1. d.day = r.day /\ tell = {n}
          BY <2>6, <2>8, <4>1, <4>2
        <5> QED
          BY <3>1, <4>1, <5>1
      <4>3. CASE told # {}
        <5>1. c.day \in Nat /\ c.day # V!None
          <6>1. PICK m \in told : c.day = h[m].day
            BY <2>6, <4>3
          <6>2. h[m].day # V!None
            BY DEF told
          <6> QED
            BY <2>7, <6>1, <6>2
        <5>2. d.day = IF c.day =< r.day THEN c.day ELSE r.day
          BY <2>8, <3>3, <5>1
        <5>3. \A m \in told : h[m].day \in Nat /\ c.day =< h[m].day
          <6> TAKE m \in told
          <6>1. h[m].day # V!None /\ m \in before
            BY DEF told
          <6> QED
            BY <2>4, <2>6, <4>3, <6>1
        <5>4. \A m \in told : d.day =< h[m].day
          BY <4>1, <5>1, <5>2, <5>3
        <5>5. d.day =< r.day
          BY <4>1, <5>1, <5>2
        <5>6. \E m \in tell : d.day = h[m].day
          BY <2>6, <3>1, <4>1, <4>3, <5>2
        <5> QED
          BY <3>1, <4>1, <5>4, <5>5, <5>6
      <4> QED
        BY <4>2, <4>3
    <3> QED
      BY <3>2, <3>3
  <2>12. CycleKnown(h, n, minor, d)
    BY <2>2, <2>9, <2>10, <2>11 DEF CycleKnown, of, tell
  <2> QED
    BY <1>6, <2>12 DEF d, r
<1> QED
  BY <1>7, <1>8

(* The releases of a cycle in any order: what is stored of it is the        *)
(* greatest patch and the first day among them.                             *)
THEOREM ReleasesAreGathered ==
  \A h \in Seq(AnyRelease) : V!GatheredRightly(h, V!fetch_flutter_and_dart(h))
<1> SUFFICES ASSUME NEW h \in Seq(AnyRelease)
             PROVE  V!GatheredRightly(h, V!fetch_flutter_and_dart(h))
  OBVIOUS
<1> DEFINE start == [minor \in 1..2 |-> V!Unseen]
           after[n \in 0..Len(h)] ==
             IF n = 0 THEN [minor \in 1..2 |-> V!Unseen]
             ELSE LET r == h[n]
                      known == after[n - 1]
                  IN  IF ~r.stable THEN known
                      ELSE [known EXCEPT ![r.minor] =
                             [patch |-> V!Max({@.patch, r.patch}),
                              day |-> V!earliest(@.day, r.day)]]
           step == [p \in (1..Len(h)) \X CyclesHeard |-> Heard(p[2], h[p[1]])]
           Right(n, known) == \A minor \in 1..2 : CycleKnown(h, n, minor, known[minor])
<1>1. Len(h) \in Nat /\ DOMAIN h = 1..Len(h) /\ \A n \in 1..Len(h) : h[n] \in AnyRelease
  OBVIOUS
<1>2. start \in CyclesHeard /\ Right(0, start)
  <2>1. \A minor \in 1..2 : start[minor] = [patch |-> -1, day |-> -1]
    BY DEF V!Unseen, V!None
  <2>2. start \in CyclesHeard
    BY DEF V!Unseen, V!None, CyclesHeard
  <2>3. \A minor \in 1..2 : Among(h, 0, minor) = {}
    BY DEF Among
  <2> HIDE DEF start
  <2> QED
    BY <2>1, <2>2, <2>3 DEF CycleKnown, V!None
<1>3. ASSUME NEW r \in AnyRelease, NEW known \in CyclesHeard PROVE Heard(known, r) \in CyclesHeard
  <2>1. /\ r.stable \in BOOLEAN /\ r.minor \in 1..2 /\ r.patch \in Int /\ r.day \in Int
        /\ known[r.minor].patch \in Int /\ known[r.minor].day \in Int
    BY DEF AnyRelease, CyclesHeard, V!None
  <2>2. /\ V!Max({known[r.minor].patch, r.patch}) \in Int
        /\ V!earliest(known[r.minor].day, r.day) \in Int
    BY <2>1, MaxMinIs DEF V!earliest
  <2> DEFINE e == [patch |-> V!Max({known[r.minor].patch, r.patch}),
                   day |-> V!earliest(known[r.minor].day, r.day)]
  <2>3. e \in [patch : Int, day : Int]
    BY <2>2
  <2>4. Heard(known, r) = IF ~r.stable THEN known ELSE [known EXCEPT ![r.minor] = e]
    BY DEF Heard
  <2> HIDE DEF e
  <2> QED
    BY <2>1, <2>3, <2>4 DEF CyclesHeard
<1>4. PICK g \in [0..Len(h) -> CyclesHeard] : Walk(g, step, start, Len(h))
  <2>1. step \in [(1..Len(h)) \X CyclesHeard -> CyclesHeard]
    <3>1. \A p \in (1..Len(h)) \X CyclesHeard : Heard(p[2], h[p[1]]) \in CyclesHeard
      BY <1>1, <1>3
    <3> QED
      BY <3>1
  <2> HIDE DEF step, start
  <2> QED
    BY <1>1, <1>2, <2>1, Walks
<1>5. g[0] = start /\ \A n \in 1..Len(h) : n - 1 \in 0..Len(h) /\ g[n] = Heard(g[n - 1], h[n])
  <2> HIDE DEF start
  <2>1. g[0] = start
    BY <1>4 DEF Walk
  <2>2. ASSUME NEW n \in 1..Len(h) PROVE n - 1 \in 0..Len(h) /\ g[n] = Heard(g[n - 1], h[n])
    <3>1. n - 1 \in 0..Len(h)
      BY <1>1
    <3>2. <<n, g[n - 1]>> \in (1..Len(h)) \X CyclesHeard
      BY <3>1
    <3>3. step[<<n, g[n - 1]>>] = Heard(g[n - 1], h[n])
      BY <3>2
    <3> HIDE DEF step
    <3> QED
      BY <1>4, <3>1, <3>3 DEF Walk
  <2> QED
    BY <2>1, <2>2
<1>6. g = [n \in 0..Len(h) |-> IF n = 0 THEN start ELSE Heard(g[n - 1], h[n])]
  <2>1. \A n \in 0..Len(h) : n # 0 => n \in 1..Len(h)
    BY <1>1, SMTT(30)
  <2> HIDE DEF start
  <2> QED
    BY <1>5, <2>1
<1>7. after = [n \in 0..Len(h) |->
                 IF n = 0 THEN [minor \in 1..2 |-> V!Unseen]
                 ELSE LET r == h[n]
                          known == after[n - 1]
                      IN  IF ~r.stable THEN known
                          ELSE [known EXCEPT ![r.minor] =
                                 [patch |-> V!Max({@.patch, r.patch}),
                                  day |-> V!earliest(@.day, r.day)]]]
  <2> HIDE DEF step
  <2> QED
    BY <1>6, ZenonT(40) DEF Heard
<1>8. V!fetch_flutter_and_dart(h) = after[Len(h)]
  BY SMTT(30) DEF V!fetch_flutter_and_dart
<1>9. after = [n \in 0..Len(h) |-> IF n = 0 THEN start ELSE Heard(after[n - 1], h[n])]
  <2> HIDE DEF after
  <2> QED
    BY <1>7 DEF Heard
<1> HIDE DEF after, step
<1> DEFINE Bad == {n \in Nat : n <= Len(h) /\ ~(after[n] \in CyclesHeard /\ Right(n, after[n]))}
<1>10. ASSUME Bad # {} PROVE FALSE
  <2>1. PICK n \in Bad : \A m \in Bad : n <= m
    <3> Bad \subseteq Nat
      OBVIOUS
    <3> HIDE DEF Bad
    <3> QED
      BY <1>10, LeastOf
  <2> HIDE DEF start, Right
  <2>2. n \in Nat /\ n <= Len(h) /\ ~(after[n] \in CyclesHeard /\ Right(n, after[n]))
    OBVIOUS
  <2>3. CASE n = 0
    <3>1. after[0] = start
      BY <1>1, <1>9
    <3> QED
      BY <1>2, <2>2, <2>3, <3>1
  <2>4. CASE n # 0
    <3>1. n - 1 \in Nat /\ n - 1 <= Len(h) /\ n - 1 \notin Bad
      <4> HIDE DEF Bad
      <4> QED
        BY <1>1, <2>1, <2>2, <2>4
    <3>2. after[n - 1] \in CyclesHeard /\ Right(n - 1, after[n - 1])
      BY <3>1
    <3>3. n \in 1..Len(h) /\ after[n] = Heard(after[n - 1], h[n])
      BY <1>1, <1>9, <2>2, <2>4
    <3>4. after[n] \in CyclesHeard /\ Right(n, after[n])
      BY <3>2, <3>3, KnownStep DEF Right
    <3> QED
      BY <2>2, <3>4
  <2> QED
    BY <2>3, <2>4
<1> DEFINE known == after[Len(h)]
<1>11. known \in CyclesHeard /\ Right(Len(h), known)
  BY <1>1, <1>10
<1> HIDE DEF known
<1> DEFINE Of(minor) == {h[n] : n \in {m \in DOMAIN h : h[m].stable /\ h[m].minor = minor}}
           Days(minor) == {x.day : x \in Of(minor)} \ {V!None}
<1>12. ASSUME NEW minor \in 1..2
       PROVE  /\ known[minor].patch = IF Of(minor) = {} THEN V!None
                                      ELSE V!Max({x.patch : x \in Of(minor)})
              /\ known[minor].day = IF Days(minor) = {} THEN V!None ELSE V!Min(Days(minor))
  <2> DEFINE idx == Among(h, Len(h), minor)
             told == {m \in idx : h[m].day # V!None}
             of == Of(minor)
             patches == {x.patch : x \in Of(minor)}
             days == Days(minor)
             c == known[minor]
  <2>1. of = {h[m] : m \in idx} /\ patches = {h[m].patch : m \in idx}
        /\ days = {h[m].day : m \in told}
    BY <1>1 DEF Among
  <2>2. \A m \in idx : h[m].patch \in Nat /\ h[m].day \in Nat \union {V!None}
    <3>1. \A m \in idx : h[m] \in AnyRelease
      BY <1>1 DEF Among
    <3> HIDE DEF idx
    <3> QED
      BY <3>1 DEF AnyRelease
  <2>3. CycleKnown(h, Len(h), minor, c)
    BY <1>11
  <2>4. /\ IF idx = {} THEN c.patch = V!None
           ELSE /\ \E m \in idx : c.patch = h[m].patch
                /\ \A m \in idx : c.patch >= h[m].patch
        /\ IF told = {} THEN c.day = V!None
           ELSE /\ \E m \in told : c.day = h[m].day
                /\ \A m \in told : c.day =< h[m].day
    BY <2>3 DEF CycleKnown
  <2>5. \A m \in told : m \in idx
    OBVIOUS
  <2> HIDE DEF idx, told, of, patches, days, c, Of, Days
  <2>6. of = {} <=> idx = {}
    BY <2>1
  <2>7. days = {} <=> told = {}
    BY <2>1
  <2>8. c.patch = IF of = {} THEN V!None ELSE V!Max(patches)
    <3>1. CASE idx = {}
      BY <2>4, <2>6, <3>1
    <3>2. CASE idx # {}
      <4>1. c.patch \in patches /\ \A y \in patches : c.patch >= y
        BY <2>1, <2>4, <3>2
      <4>2. patches \in SUBSET Int
        BY <2>1, <2>2
      <4> QED
        BY <2>6, <3>2, <4>1, <4>2, MaxMinIs
    <3> QED
      BY <3>1, <3>2
  <2>9. c.day = IF days = {} THEN V!None ELSE V!Min(days)
    <3>1. CASE told = {}
      BY <2>4, <2>7, <3>1
    <3>2. CASE told # {}
      <4>1. c.day \in days /\ \A y \in days : c.day =< y
        BY <2>1, <2>4, <3>2
      <4>2. days \in SUBSET Int
        BY <2>1, <2>2, <2>5 DEF V!None
      <4> QED
        BY <2>7, <3>2, <4>1, <4>2, MaxMinIs
    <3> QED
      BY <3>1, <3>2
  <2> QED
    BY <2>8, <2>9 DEF of, patches, days, c
<1> QED
  BY <1>8, <1>12 DEF V!GatheredRightly, known

-----------------------------------------------------------------------------
(* runtimes/status.py                                                       *)
AnyCycle == [released : Int, ends : Int, is_eol : BOOLEAN, is_lts : BOOLEAN]
AnyUses == [language : {"nodejs", "python"}, cycle : 1..3, pinned : BOOLEAN,
            releases : AnyCycle \X AnyCycle]

(* What is recommended is a candidate, and the same to every user.          *)
LEMMA Recommended ==
  ASSUME NEW u \in AnyUses, NEW today \in Nat
  PROVE  LET c == V!recommended_release(u, today)
         IN  /\ c \in 0..2
             /\ c # 0 => ~u.releases[c].is_eol
             /\ \A n \in 1..3 :
                  V!recommended_release([u EXCEPT !.cycle = n, !.pinned = TRUE], today) = c
<1> DEFINE candidates(v) == {c \in 1..2 : /\ ~v.releases[c].is_eol
                                          /\ v.releases[c].is_lts \/ v.language # "nodejs"}
           settled(v) == {c \in candidates(v) :
                            \/ v.releases[c].released = V!None
                            \/ today - v.releases[c].released >= V!RECOMMEND_MIN_AGE_DAYS}
           taken(v) == IF settled(v) # {} THEN settled(v) ELSE candidates(v)
<1>1. \A v : V!recommended_release(v, today) = V!greatest(taken(v))
  BY DEF V!recommended_release
<1>2. ASSUME NEW n \in 1..3 PROVE taken([u EXCEPT !.cycle = n, !.pinned = TRUE]) = taken(u)
  <2> DEFINE v == [u EXCEPT !.cycle = n, !.pinned = TRUE]
  <2>1. v.releases = u.releases /\ v.language = u.language
    BY DEF AnyUses
  <2>2. taken(v) = taken(u)
    <3> HIDE DEF v
    <3>1. candidates(v) = candidates(u)
      BY <2>1
    <3>2. settled(v) = settled(u)
      <4> HIDE DEF candidates
      <4> QED
        BY <2>1, <3>1
    <3> HIDE DEF candidates, settled
    <3> QED
      BY <3>1, <3>2
  <2> HIDE DEF taken
  <2> QED
    BY <2>2
<1>3. taken(u) \subseteq 1..2 /\ \A c \in taken(u) : ~u.releases[c].is_eol
  <2>1. settled(u) \subseteq candidates(u)
    OBVIOUS
  <2>2. taken(u) \subseteq candidates(u)
    <3> HIDE DEF settled, candidates
    <3> QED
      BY <2>1
  <2>3. candidates(u) \subseteq 1..2 /\ \A c \in candidates(u) : ~u.releases[c].is_eol
    OBVIOUS
  <2> HIDE DEF taken, candidates
  <2> QED
    BY <2>2, <2>3
<1> HIDE DEF taken
<1>4. taken(u) = {} => V!greatest(taken(u)) = 0
  BY DEF V!greatest
<1>5. taken(u) # {} => V!greatest(taken(u)) \in taken(u)
  <2>1. SUFFICES ASSUME taken(u) # {} PROVE V!Max(taken(u)) \in taken(u)
    BY DEF V!greatest
  <2>2. taken(u) \in SUBSET Int
    BY <1>3
  <2>3. \E m \in taken(u) : \A y \in taken(u) : m >= y
    <3>1. CASE 2 \in taken(u)
      BY <1>3, <3>1
    <3>2. CASE 2 \notin taken(u)
      BY <1>3, <2>1, <3>2
    <3> QED
      BY <3>1, <3>2
  <2> QED
    BY <2>2, <2>3, MaxMinIs
<1> QED
  BY <1>1, <1>2, <1>3, <1>4, <1>5

(* Whatever is known of the cycles: one that has ended or is about to never *)
(* looks better on a later day; who follows what is recommended is not told *)
(* to update further; only a newer cycle is an update; and a lower bound    *)
(* only calls for no action.                                                *)
THEOREM UsesAreJudged == \A u \in AnyUses : V!JudgedRightly(u, V!outlook(u))
<1> SUFFICES ASSUME NEW u \in AnyUses PROVE V!JudgedRightly(u, V!outlook(u))
  OBVIOUS
<1> DEFINE r == V!outlook(u)
           x == u.releases[u.cycle]
           over(t) == x.is_eol \/ (x.ends # V!None /\ x.ends < t)
           soon(t) == ~x.is_eol /\ x.ends # V!None /\ x.ends - t \in 0..V!EOL_SOON_DAYS
           judged == u.pinned /\ u.cycle \in 1..2
<1>1. /\ V!None = -1 /\ V!EOL_SOON_DAYS = 2 /\ V!Today = 10 /\ V!Later = 0..3
      /\ u.cycle \in 1..3 /\ u.pinned \in BOOLEAN
  BY DEF V!None, V!EOL_SOON_DAYS, V!Today, V!Later, AnyUses
<1>2. \A d \in V!Later : /\ r[d].state = V!evaluate(u, V!Today + d)
                         /\ r[d].recommended = V!recommended_release(u, V!Today + d)
                         /\ V!Today + d \in Nat /\ d \in Int
  BY <1>1 DEF V!outlook
<1>3. u.cycle \in 1..2 => x.ends \in Int /\ x.is_eol \in BOOLEAN
  BY DEF AnyUses, AnyCycle
<1>4. ASSUME NEW t \in Nat
      PROVE  /\ V!evaluate(u, t) = "eol" <=> judged /\ over(t)
             /\ V!evaluate(u, t) = "eol_soon" => judged /\ soon(t)
             /\ judged /\ soon(t) /\ ~over(t) => V!evaluate(u, t) = "eol_soon"
             /\ V!evaluate(u, t) = "update_available" =>
                  V!recommended_release(u, t) > u.cycle
             /\ V!evaluate(u, t) \in V!NeedsAction => judged
  <2> DEFINE e == V!evaluate(u, t)
             w == V!recommended_release(u, t) > u.cycle
  <2>1. CASE ~judged
    <3>1. e \in {"reference", "unknown"}
      BY <1>1, <2>1 DEF V!evaluate
    <3> QED
      BY <2>1, <3>1 DEF V!NeedsAction
  <2>2. CASE judged
    <3>1. e = CASE over(t) -> "eol"
                [] soon(t) /\ ~over(t) -> "eol_soon"
                [] OTHER -> IF w THEN "update_available" ELSE "latest"
      <4>1. soon(t) => ~over(t)
        BY <1>1, <1>3, <2>2
      <4>2. CASE over(t)
        BY <2>2, <4>1, <4>2 DEF V!evaluate
      <4>3. CASE soon(t)
        BY <2>2, <4>1, <4>3 DEF V!evaluate
      <4>4. CASE ~over(t) /\ ~soon(t)
        BY <2>2, <4>4 DEF V!evaluate
      <4> QED
        BY <4>1, <4>2, <4>3, <4>4
    <3> HIDE DEF e, w, over, soon, judged
    <3>2. CASE over(t)
      BY <2>2, <3>1, <3>2 DEF e
    <3>3. CASE soon(t) /\ ~over(t)
      BY <2>2, <3>1, <3>3 DEF e
    <3>4. CASE ~over(t) /\ ~soon(t)
      BY <2>2, <3>1, <3>4 DEF e, w
    <3> QED
      BY <3>2, <3>3, <3>4
  <2> QED
    BY <2>1, <2>2
<1>5. ASSUME NEW d \in V!Later, NEW e \in V!Later, d < e
      PROVE  /\ r[d].state = "eol" => r[e].state = "eol"
             /\ r[d].state = "eol_soon" => r[e].state \in {"eol_soon", "eol"}
  <2>1. V!Today + d \in Nat /\ V!Today + e \in Nat /\ V!Today + d < V!Today + e
    BY <1>1, <1>5
  <2>2. judged /\ over(V!Today + d) => over(V!Today + e)
    BY <1>1, <1>3, <2>1
  <2>3. judged /\ soon(V!Today + d) => over(V!Today + e) \/ soon(V!Today + e)
    BY <1>1, <1>3, <2>1
  <2> HIDE DEF over, soon, judged, r
  <2> QED
    BY <1>2, <1>4, <2>1, <2>2, <2>3
<1>6. ASSUME NEW d \in V!Later, r[d].recommended # 0
      PROVE  /\ ~u.releases[r[d].recommended].is_eol
             /\ V!evaluate([u EXCEPT !.cycle = r[d].recommended, !.pinned = TRUE], V!Today + d)
                  # "update_available"
  <2> DEFINE c == r[d].recommended
             v == [u EXCEPT !.cycle = c, !.pinned = TRUE]
             t == V!Today + d
  <2>1. c = V!recommended_release(u, t) /\ t \in Nat
    BY <1>2, SMTT(30)
  <2>2. c \in 1..2 /\ c \in 1..3 /\ ~u.releases[c].is_eol /\ V!recommended_release(v, t) = c
    <3> HIDE DEF c, t, r
    <3>1. c \in 0..2 /\ c # 0
      BY <1>6, <2>1, Recommended DEF c
    <3>2. c \in 1..3 /\ c \in 1..2
      BY <3>1
    <3> QED
      BY <2>1, <3>1, <3>2, Recommended, ZenonT(40)
  <2>3. v.cycle = c
    BY DEF AnyUses
  <2>4. V!evaluate(v, t) = "update_available" => V!recommended_release(v, t) > v.cycle
    <3> HIDE DEF v, t, c
    <3> QED
      BY DEF V!evaluate
  <2> HIDE DEF v, t, c, r
  <2> QED
    BY <2>2, <2>3, <2>4 DEF v, t, c
<1>7. ASSUME NEW d \in V!Later
      PROVE  /\ r[d].state = "update_available" => r[d].recommended > u.cycle
             /\ u.cycle = 3 \/ ~u.pinned => r[d].state \notin V!NeedsAction
  BY <1>1, <1>2, <1>4, SMTT(30)
<1> HIDE DEF r, over, soon, judged
<1>8. V!JudgedRightly(u, r)
  BY <1>5, <1>6, <1>7 DEF V!JudgedRightly
<1> QED
  BY <1>8 DEF r

-----------------------------------------------------------------------------
Picture(h, A) == {h[x] : x \in A}
OneToOne(h, A) == \A x, y \in A : h[x] = h[y] => x = y

(* A picture of a finite set is finite, and as large when no two of its     *)
(* members look alike.                                                      *)
LEMMA Pictures ==
  ASSUME NEW A, IsFiniteSet(A), NEW h
  PROVE  /\ IsFiniteSet(Picture(h, A))
         /\ OneToOne(h, A) => Cardinality(Picture(h, A)) = Cardinality(A)
<1> PICK Y : Y = Picture(h, A)
  OBVIOUS
<1> PICK g : g = [x \in A |-> h[x]]
  OBVIOUS
<1>1. g \in Surjection(A, Y)
  BY DEF Surjection, Picture
<1>2. IsFiniteSet(Y) /\ (Cardinality(Y) = Cardinality(A) <=> g \in Injection(A, Y))
  BY <1>1, FS_Surjection
<1>3. OneToOne(h, A) => g \in Injection(A, Y)
  BY <1>1 DEF OneToOne, Surjection, Injection, IsInjective
<1> QED
  BY <1>2, <1>3

(* The order of a list: the greater value first, of two alike the one with  *)
(* the smaller number.                                                      *)
Before(value, number, x, y) == \/ value[x] > value[y]
                               \/ value[x] = value[y] /\ number[x] < number[y]

ListOf(A, value, number, f) ==
    /\ f \in [1..Cardinality(A) -> A]
    /\ \A i, j \in 1..Cardinality(A) : i < j => Before(value, number, f[i], f[j])

NumberedApart(A, value, number) ==
    /\ \A x \in A : value[x] \in Int /\ number[x] \in Int
    /\ \A x, y \in A : number[x] = number[y] => x = y

(* A finite set of numbered things can be listed in that order, and such a  *)
(* list leaves out nothing.                                                 *)
LEMMA Listed ==
  ASSUME NEW A, IsFiniteSet(A), NEW value, NEW number, NumberedApart(A, value, number)
  PROVE  /\ \E f : ListOf(A, value, number, f)
         /\ \A f : ListOf(A, value, number, f) => \A x \in A : \E i \in DOMAIN f : f[i] = x
<1> PICK n : n = Cardinality(A)
  OBVIOUS
<1>1. n \in Nat /\ IsFiniteSet(1..n) /\ Cardinality(1..n) = n
  BY FS_CardinalityType, FS_Interval
<1> DEFINE Y(x, y) == Before(value, number, x, y)
<1>2. /\ \A x \in A : ~Y(x, x)
      /\ \A x, y \in A : x # y => Y(x, y) \/ Y(y, x)
      /\ \A x, y, z \in A : Y(x, y) /\ Y(y, z) => Y(x, z)
  BY DEF Before, NumberedApart
<1> HIDE DEF Y
<1> DEFINE below(x) == {y \in A : Y(y, x)}
           rank == [x \in A |-> Cardinality(below(x)) + 1]
<1>3. ASSUME NEW x \in A, NEW z \in A, Y(x, z) PROVE rank[x] < rank[z]
  <2>1. below(x) \subseteq below(z) /\ x \in below(z) /\ x \notin below(x)
    BY <1>2, <1>3
  <2>2. IsFiniteSet(below(z))
    BY FS_Subset
  <2> HIDE DEF below
  <2>3. Cardinality(below(x)) <= Cardinality(below(z))
        /\ Cardinality(below(x)) # Cardinality(below(z))
    BY <2>1, <2>2, FS_Subset
  <2>4. Cardinality(below(x)) \in Nat /\ Cardinality(below(z)) \in Nat
    BY <2>1, <2>2, FS_Subset, FS_CardinalityType
  <2> QED
    BY <2>3, <2>4
<1>4. ASSUME NEW x \in A PROVE rank[x] \in 1..n
  <2>1. below(x) \in SUBSET A /\ below(x) # A
    BY <1>2
  <2> HIDE DEF below
  <2>2. Cardinality(below(x)) \in Nat /\ Cardinality(below(x)) <= n /\ Cardinality(below(x)) # n
    BY <2>1, FS_Subset, FS_CardinalityType
  <2> QED
    BY <1>1, <2>2
<1>5. rank \in [A -> 1..n]
  BY <1>4
<1> HIDE DEF rank
<1>6. \A x, y \in A : rank[x] = rank[y] => x = y
  BY <1>1, <1>2, <1>3, <1>4
<1>7. \A i \in 1..n : \E x \in A : rank[x] = i
  <2>1. rank \in Injection(A, 1..n)
    BY <1>5, <1>6 DEF Injection, IsInjective
  <2>2. rank \in Surjection(A, 1..n)
    BY <2>1, <1>1, FS_Injection
  <2> QED
    BY <2>2 DEF Surjection
<1>8. \E f : ListOf(A, value, number, f)
  <2> PICK f : f = [i \in 1..n |-> CHOOSE x \in A : rank[x] = i]
    OBVIOUS
  <2>1. \A i \in 1..n : f[i] \in A /\ rank[f[i]] = i
    BY <1>7
  <2>2. f \in [1..n -> A]
    BY <2>1
  <2>3. ASSUME NEW i \in 1..n, NEW j \in 1..n, i < j PROVE Y(f[i], f[j])
    BY <1>1, <1>2, <1>3, <2>1, <2>3
  <2>4. ListOf(A, value, number, f)
    BY <2>2, <2>3 DEF ListOf, Y
  <2> QED
    BY <2>4
<1>9. ASSUME NEW f, ListOf(A, value, number, f), NEW x \in A
      PROVE  \E i \in DOMAIN f : f[i] = x
  <2>1. f \in [1..n -> A] /\ \A i, j \in 1..n : i < j => Y(f[i], f[j])
    BY <1>9 DEF ListOf, Y
  <2>2. \A i, j \in 1..n : f[i] = f[j] => i = j
    BY <1>1, <1>2, <2>1
  <2>3. f \in Injection(1..n, A)
    BY <2>1, <2>2 DEF Injection, IsInjective
  <2>4. f \in Surjection(1..n, A)
    BY <2>3, <1>1, FS_Injection
  <2> QED
    BY <2>1, <2>4 DEF Surjection
<1> QED
  BY <1>8, <1>9

-----------------------------------------------------------------------------
(* sla/                                                                     *)
AnyFinding == [repo : {"a", "b"}, severity : {"CRITICAL", "MEDIUM", "N/A"}, kev : BOOLEAN,
               detected : Nat, resolved : {S!None} \cup Nat, excepted : BOOLEAN]

(* Any stored findings under any policy, whatever days the mean looks back. *)
AnyReports == {[rows |-> rows, policy |-> p, window |-> w] :
                 rows \in {f \in SUBSET (Nat \X AnyFinding) :
                             /\ IsFiniteSet(f)
                             /\ \A x, y \in f : x[1] = y[1] => x = y},
                 p \in [CRITICAL : Nat, MEDIUM : Nat, kev : Nat], w \in Nat}

(* The sums of the report are those of the lemmas.                          *)
LEMMA SlaSum == \A f : S!SumFunction(f) = SumFunctionOnSet(f, DOMAIN f)
BY DEF S!SumFunction, S!SumFunctionOnSet, SumFunctionOnSet, S!FoldFunctionOnSet,
       FoldFunctionOnSet, S!MapThenFoldSet, MapThenFoldSet

(* The sizes of the report are those of the lemmas.                         *)
LEMMA SlaCardinality == \A A : S!Cardinality(A) = Cardinality(A)
BY DEF S!Cardinality, Cardinality

(* What is counted key by key is what is counted at once.                   *)
StatsBy(key, items, now) ==
    [k \in Picture(key, items) |-> S!counts({x \in items : key[x] = k}, now)]

(* What the statistics by a key tell, added up, is what the counts of all   *)
(* items tell.                                                              *)
LEMMA StatsCount ==
  ASSUME NEW items, IsFiniteSet(items), NEW now, NEW key,
         NEW field \in {"open", "overdue", "resolved"},
         NEW stats, stats = StatsBy(key, items, now)
  PROVE  S!SumOver(stats, field) = S!counts(items, now)[field]
<1> DEFINE held(x) == CASE field = "open" -> x[2].resolved = S!None
                        [] field = "overdue" -> S!is_overdue(x[2], now)
                        [] OTHER -> x[2].resolved # S!None
<1>1. \A T : S!counts(T, now)[field] = Cardinality({x \in T : held(x)})
  <2>1. CASE field = "open"
    BY <2>1, SlaCardinality DEF S!counts
  <2>2. CASE field = "overdue"
    BY <2>2, SlaCardinality DEF S!counts
  <2>3. CASE field = "resolved"
    BY <2>3, SlaCardinality DEF S!counts
  <2> QED
    BY <2>1, <2>2, <2>3
<1> HIDE DEF held
<1> PICK rows : rows = {x \in items : held(x)}
  OBVIOUS
<1> PICK keys : keys = Picture(key, items)
  OBVIOUS
<1> PICK h : h = [k \in keys |-> stats[k][field]]
  OBVIOUS
<1>2. IsFiniteSet(rows) /\ IsFiniteSet(keys)
  BY FS_Subset, Pictures
<1>3. \A x \in rows : key[x] \in keys
  BY DEF Picture
<1>4. \A k \in keys : h[k] = Cardinality({x \in rows : key[x] = k})
  <2> TAKE k \in keys
  <2>1. h[k] = S!counts({x \in items : key[x] = k}, now)[field]
    BY DEF StatsBy
  <2>2. {x \in {y \in items : key[y] = k} : held(x)} = {x \in rows : key[x] = k}
    OBVIOUS
  <2>3. S!counts({x \in items : key[x] = k}, now)[field]
          = Cardinality({x \in {y \in items : key[y] = k} : held(x)})
    BY <1>1
  <2> QED
    BY <2>1, <2>2, <2>3
<1>5. SumFunctionOnSet(h, keys) = Cardinality(rows)
  <2>1. CountsKeys(rows, key, keys, h)
    BY <1>3, <1>4 DEF CountsKeys
  <2> QED
    BY <1>2, <2>1, CountedByKey
<1>6. DOMAIN stats = keys /\ DOMAIN h = keys /\ h = [k \in DOMAIN stats |-> stats[k][field]]
  BY DEF StatsBy
<1>7. S!SumOver(stats, field) = SumFunctionOnSet(h, keys)
  BY <1>6, SlaSum DEF S!SumOver
<1> QED
  BY <1>1, <1>5, <1>7

ItemsOf(q) ==
    [r \in q.rows |-> <<r[1], [repo |-> r[2].repo, severity |-> r[2].severity,
                               detected |-> r[2].detected, resolved |-> r[2].resolved,
                               deadline |-> S!deadline_days(q.policy, r[2].severity, r[2].kev)]>>]

ReadOff(q, item) ==
    \A r \in q.rows :
       /\ item[r][1] = r[1] /\ item[r][1] \in Nat
       /\ item[r][2].resolved = r[2].resolved /\ item[r][2].detected = r[2].detected
       /\ item[r][2].deadline \in {S!None} \cup Nat
       /\ r[2].kev => item[r][2].deadline \in 0..q.policy.kev
       /\ r[2].severity # "N/A" => item[r][2].deadline \in 0..q.policy[r[2].severity]

(* The item of a finding, and what can be read off it.                      *)
LEMMA ItemOf ==
  ASSUME NEW q \in AnyReports, NEW item, item = ItemsOf(q)
  PROVE  /\ IsFiniteSet(q.rows) /\ q.rows \subseteq Nat \X AnyFinding
         /\ q.window \in Nat /\ q.policy \in [CRITICAL : Nat, MEDIUM : Nat, kev : Nat]
         /\ \A x, y \in q.rows : x[1] = y[1] => x = y
         /\ S!to_items(q) = Picture(item, {x \in S!selected(q) :
                                             ~(x[2].resolved = S!None /\ x[2].excepted)})
         /\ ReadOff(q, item)
<1>1. /\ IsFiniteSet(q.rows) /\ q.rows \subseteq Nat \X AnyFinding
      /\ q.window \in Nat /\ q.policy \in [CRITICAL : Nat, MEDIUM : Nat, kev : Nat]
      /\ \A x, y \in q.rows : x[1] = y[1] => x = y
  BY DEF AnyReports
<1>2. S!to_items(q) = Picture(item, {x \in S!selected(q) :
                                             ~(x[2].resolved = S!None /\ x[2].excepted)})
  BY DEF ItemsOf, S!to_items, S!selected, Picture
<1>3. ASSUME NEW r \in q.rows
      PROVE  /\ item[r][1] = r[1] /\ item[r][1] \in Nat
             /\ item[r][2].resolved = r[2].resolved /\ item[r][2].detected = r[2].detected
             /\ item[r][2].deadline = S!deadline_days(q.policy, r[2].severity, r[2].kev)
  BY <1>1 DEF ItemsOf
<1>4. ASSUME NEW s \in {"CRITICAL", "MEDIUM", "N/A"}, NEW k \in BOOLEAN
      PROVE  LET d == S!deadline_days(q.policy, s, k)
             IN  /\ d \in {S!None} \cup Nat
                 /\ k => d \in 0..q.policy.kev
                 /\ s # "N/A" => d \in 0..q.policy[s]
  <2> PICK own : own = S!days_for_severity(q.policy, s)
    OBVIOUS
  <2> PICK kev : kev = q.policy.kev
    OBVIOUS
  <2>1. /\ kev \in Nat /\ S!None = -1
        /\ s = "N/A" => own = S!None
        /\ s # "N/A" => own \in Nat /\ own = q.policy[s]
    BY <1>1 DEF S!days_for_severity, S!None
  <2>2. CASE ~k
    BY <2>1, <2>2 DEF S!deadline_days
  <2>3. CASE k /\ own = S!None
    BY <2>1, <2>3 DEF S!deadline_days
  <2>4. CASE k /\ own # S!None
    <3>1. S!deadline_days(q.policy, s, k) = S!Min({own, kev})
      BY <2>4 DEF S!deadline_days
    <3>2. own \in Nat /\ own = q.policy[s]
      BY <2>1, <2>4
    <3>3. \E m \in {own, kev} : \A y \in {own, kev} : m =< y
      BY <3>2, <2>1
    <3>4. S!Min({own, kev}) \in {own, kev} /\ \A y \in {own, kev} : S!Min({own, kev}) =< y
      BY <3>3 DEF S!Min
    <3> QED
      BY <3>1, <3>2, <3>4, <2>1
  <2> QED
    BY <2>2, <2>3, <2>4
<1>5. \A r \in q.rows : r[2].severity \in {"CRITICAL", "MEDIUM", "N/A"} /\ r[2].kev \in BOOLEAN
  BY <1>1 DEF AnyFinding
<1>6. ReadOff(q, item)
  BY <1>3, <1>4, <1>5 DEF ReadOff
<1> QED
  BY <1>1, <1>2, <1>6

-----------------------------------------------------------------------------
(* Whatever findings are stored and whatever the policy: the three views of *)
(* a report count the same findings, in none of them is what is excepted,   *)
(* and everything that is due is in the list of what is overdue.            *)
THEOREM FindingsAreReported ==
  \A q \in AnyReports : S!ReportedRightly(q, S!build_report(q))
<1> SUFFICES ASSUME NEW q \in AnyReports PROVE S!ReportedRightly(q, S!build_report(q))
  OBVIOUS
<1> PICK r : r = S!build_report(q)
  OBVIOUS
<1> PICK items : items = S!to_items(q)
  OBVIOUS
<1> PICK item : item = ItemsOf(q)
  OBVIOUS
<1> DEFINE kept(x) == /\ x[2].resolved = S!None \/ x[2].resolved >= S!Now - q.window * S!Day
                      /\ ~(x[2].resolved = S!None /\ x[2].excepted)
           late(x) == S!is_overdue(x[2], S!Now)
           due == {x \in items : late(x)}
<1>1. /\ IsFiniteSet(q.rows) /\ q.rows \subseteq Nat \X AnyFinding
      /\ q.window \in Nat /\ q.policy \in [CRITICAL : Nat, MEDIUM : Nat, kev : Nat]
      /\ \A x, y \in q.rows : x[1] = y[1] => x = y
  BY ItemOf
<1>2. items = Picture(item, {y \in q.rows : kept(y)})
  <2>1. {x \in S!selected(q) : ~(x[2].resolved = S!None /\ x[2].excepted)}
          = {y \in q.rows : kept(y)}
    BY DEF S!selected
  <2> QED
    BY <2>1, ItemOf
<1>3. \A x \in q.rows :
         /\ item[x][1] = x[1] /\ item[x][1] \in Nat
         /\ item[x][2].resolved = x[2].resolved /\ item[x][2].detected = x[2].detected
         /\ item[x][2].deadline \in {S!None} \cup Nat
         /\ x[2].kev => item[x][2].deadline \in 0..q.policy.kev
         /\ x[2].severity # "N/A" => item[x][2].deadline \in 0..q.policy[x[2].severity]
  <2>1. ReadOff(q, item)
    BY ItemOf
  <2> QED
    BY <2>1 DEF ReadOff
<1>4. \A x \in q.rows : /\ x[2].resolved \in {S!None} \cup Nat /\ x[2].detected \in Nat
                        /\ x[2].kev \in BOOLEAN /\ x[2].excepted \in BOOLEAN
                        /\ x[2].severity \in {"CRITICAL", "MEDIUM", "N/A"}
  BY <1>1 DEF AnyFinding
<1>5. S!None = -1 /\ S!Now = 12 /\ S!Day = 2 /\ S!MaxShown = 1
  BY DEF S!None, S!Now, S!Day, S!MaxShown
<1> HIDE DEF kept
<1>6. \A T \in SUBSET q.rows : /\ IsFiniteSet(T) /\ IsFiniteSet(Picture(item, T))
                               /\ Cardinality(Picture(item, T)) = Cardinality(T)
                               /\ Cardinality(T) \in Nat
  <2> TAKE T \in SUBSET q.rows
  <2>1. IsFiniteSet(T)
    BY <1>1, FS_Subset
  <2>2. OneToOne(item, T)
    BY <1>1, <1>3 DEF OneToOne
  <2> QED
    BY <2>1, <2>2, Pictures, FS_CardinalityType
<1>7. IsFiniteSet(items) /\ \A T \in SUBSET items : IsFiniteSet(T) /\ Cardinality(T) \in Nat
  <2>1. {y \in q.rows : kept(y)} \in SUBSET q.rows
    OBVIOUS
  <2>2. IsFiniteSet(items)
    BY <1>2, <1>6, <2>1
  <2> QED
    BY <2>2, FS_Subset, FS_CardinalityType
<1>8. /\ r.summary.counts = S!counts(items, S!Now)
      /\ r.summary.with_deadline = Cardinality({x \in items : x[2].resolved = S!None
                                                                /\ x[2].deadline # S!None})
      /\ r.by_severity = S!severity_stats(items, S!Now)
      /\ r.by_repo = S!repo_stats(items, S!Now)
      /\ r.overdue = S!overdue_items(items, S!Now)
      /\ r.excluded = {x[1] : x \in {y \in q.rows : y[2].resolved = S!None /\ y[2].excepted}}
  BY SlaCardinality DEF S!build_report, S!excepted_osv_ids
<1> PICK total : total = S!counts(items, S!Now)
  OBVIOUS
<1>9. /\ total.open = Cardinality({x \in items : x[2].resolved = S!None})
      /\ total.overdue = Cardinality(due)
      /\ total.resolved = Cardinality({x \in items : x[2].resolved # S!None})
      /\ total.mttr = S!mttr(items)
  BY SlaCardinality DEF S!counts
<1>10. \A field \in {"open", "overdue", "resolved"} :
          /\ S!SumOver(r.by_severity, field) = total[field]
          /\ S!SumOver(r.by_repo, field) = total[field]
  <2> TAKE field \in {"open", "overdue", "resolved"}
  <2> PICK bySeverity : bySeverity = [x \in items |-> x[2].severity]
    OBVIOUS
  <2> PICK byRepo : byRepo = [x \in items |-> x[2].repo]
    OBVIOUS
  <2>1. r.by_severity = StatsBy(bySeverity, items, S!Now)
    <3>1. Picture(bySeverity, items) = {x[2].severity : x \in items}
      BY DEF Picture
    <3>2. \A k : {x \in items : bySeverity[x] = k} = {x \in items : x[2].severity = k}
      OBVIOUS
    <3>3. \A k : S!counts({x \in items : bySeverity[x] = k}, S!Now)
                  = S!counts({x \in items : x[2].severity = k}, S!Now)
      BY <3>2
    <3>4. StatsBy(bySeverity, items, S!Now)
            = [k \in {x[2].severity : x \in items} |->
                 S!counts({x \in items : x[2].severity = k}, S!Now)]
      BY <3>1, <3>3 DEF StatsBy
    <3> QED
      BY <1>8, <3>4 DEF S!severity_stats
  <2>2. r.by_repo = StatsBy(byRepo, items, S!Now)
    <3>1. Picture(byRepo, items) = {x[2].repo : x \in items}
      BY DEF Picture
    <3>2. \A k : {x \in items : byRepo[x] = k} = {x \in items : x[2].repo = k}
      OBVIOUS
    <3>3. \A k : S!counts({x \in items : byRepo[x] = k}, S!Now)
                  = S!counts({x \in items : x[2].repo = k}, S!Now)
      BY <3>2
    <3>4. StatsBy(byRepo, items, S!Now)
            = [k \in {x[2].repo : x \in items} |-> S!counts({x \in items : x[2].repo = k}, S!Now)]
      BY <3>1, <3>3 DEF StatsBy
    <3> QED
      BY <1>8, <3>4 DEF S!repo_stats
  <2> QED
    BY <1>7, <2>1, <2>2, StatsCount
<1>11. /\ ListOf(due, [x \in due |-> S!overdue_days(x[2], S!Now)], [x \in due |-> x[1]], r.overdue)
       /\ \A x \in due : \E i \in DOMAIN r.overdue : r.overdue[i] = x
       /\ r.overdue \in [1..Cardinality(due) -> due]
  <2> PICK value : value = [x \in due |-> S!overdue_days(x[2], S!Now)]
    OBVIOUS
  <2> PICK number : number = [x \in due |-> x[1]]
    OBVIOUS
  <2>1. \A x \in items : \E y \in q.rows : x = item[y]
    BY <1>2 DEF Picture
  <2>2. NumberedApart(due, value, number)
    <3>1. ASSUME NEW x \in due PROVE value[x] \in Int /\ number[x] \in Int
      <4>1. PICK y \in q.rows : x = item[y]
        BY <2>1
      <4>2. x[1] \in Nat /\ x[2].deadline \in {S!None} \cup Nat /\ x[2].detected \in Nat
        BY <4>1, <1>3, <1>4
      <4>3. S!overdue_days(x[2], S!Now) \in Int
        BY <4>2, <1>5 DEF S!overdue_days, S!due_at, S!is_overdue
      <4> QED
        BY <4>2, <4>3
    <3>2. ASSUME NEW x \in due, NEW y \in due, number[x] = number[y] PROVE x = y
      <4>1. PICK v \in q.rows : x = item[v]
        BY <2>1
      <4>2. PICK w \in q.rows : y = item[w]
        BY <2>1
      <4> QED
        BY <3>2, <4>1, <4>2, <1>1, <1>3
    <3> QED
      BY <3>1, <3>2 DEF NumberedApart
  <2>3. IsFiniteSet(due)
    BY <1>7
  <2>4. PICK f : ListOf(due, value, number, f)
    BY <2>2, <2>3, Listed
  <2>5. r.overdue = CHOOSE g \in [1..Cardinality(due) -> due] :
                      \A i, j \in 1..Cardinality(due) : i < j =>
                        \/ S!overdue_days(g[i][2], S!Now) > S!overdue_days(g[j][2], S!Now)
                        \/ /\ S!overdue_days(g[i][2], S!Now) = S!overdue_days(g[j][2], S!Now)
                           /\ g[i][1] < g[j][1]
    BY <1>8, SlaCardinality, ZenonT(40) DEF S!overdue_items
  <2> HIDE DEF due
  <2>6. \A g \in [1..Cardinality(due) -> due] : ListOf(due, value, number, g) <=>
           \A i, j \in 1..Cardinality(due) : i < j =>
                        \/ S!overdue_days(g[i][2], S!Now) > S!overdue_days(g[j][2], S!Now)
                        \/ /\ S!overdue_days(g[i][2], S!Now) = S!overdue_days(g[j][2], S!Now)
                           /\ g[i][1] < g[j][1]
    BY DEF ListOf, Before
  <2>7. f \in [1..Cardinality(due) -> due]
    BY <2>4 DEF ListOf
  <2>8. ListOf(due, value, number, r.overdue)
    BY <2>4, <2>5, <2>6, <2>7
  <2>9. r.overdue \in [1..Cardinality(due) -> due]
    BY <2>8 DEF ListOf
  <2> QED
    BY <2>2, <2>3, <2>8, <2>9, Listed
<1>12. Cardinality(due) \in Nat /\ DOMAIN r.overdue = 1..Cardinality(due)
       /\ Cardinality(DOMAIN r.overdue) = total.overdue
  <2>1. Cardinality(due) \in Nat
    BY <1>7
  <2>2. DOMAIN r.overdue = 1..Cardinality(due)
    <3>1. r.overdue \in [1..Cardinality(due) -> due]
      BY <1>11
    <3> QED
      BY <3>1
  <2>3. total.overdue = Cardinality(due)
    BY <1>9
  <2>4. Cardinality(1..Cardinality(due)) = Cardinality(due)
    BY <2>1, FS_Interval
  <2> QED
    BY <2>1, <2>2, <2>3, <2>4
<1>13. total.overdue <= r.summary.with_deadline /\ r.summary.with_deadline <= total.open
  <2> DEFINE dated == {x \in items : x[2].resolved = S!None /\ x[2].deadline # S!None}
             open == {x \in items : x[2].resolved = S!None}
  <2>1. due \subseteq dated /\ dated \subseteq open
    BY DEF S!is_overdue, S!due_at
  <2>2. IsFiniteSet(dated) /\ IsFiniteSet(open)
    BY <1>7
  <2> QED
    BY <1>8, <1>9, <2>1, <2>2, FS_Subset
<1>14. {r.overdue[i][1] : i \in DOMAIN r.overdue} \cap r.excluded = {}
  <2>1. SUFFICES ASSUME NEW i \in DOMAIN r.overdue,
                        NEW y \in q.rows, y[2].resolved = S!None, y[2].excepted,
                        r.overdue[i][1] = y[1]
                 PROVE  FALSE
    BY <1>8
  <2>2. r.overdue[i] \in items
    BY <1>11
  <2>3. PICK x \in q.rows : kept(x) /\ r.overdue[i] = item[x]
    BY <2>2, <1>2 DEF Picture
  <2>4. x = y
    BY <2>1, <2>3, <1>1, <1>3
  <2> QED
    BY <2>1, <2>3, <2>4 DEF kept
<1>15. Cardinality(r.excluded) + total.open = Cardinality({x \in q.rows : x[2].resolved = S!None})
  <2> DEFINE all == {x \in q.rows : x[2].resolved = S!None}
             out == {y \in q.rows : y[2].resolved = S!None /\ y[2].excepted}
             in == {y \in q.rows : y[2].resolved = S!None /\ ~y[2].excepted}
  <2>1. Cardinality(r.excluded) = Cardinality(out)
    <3> PICK h : h = [x \in out |-> x[1]]
      OBVIOUS
    <3>1. IsFiniteSet(out) /\ OneToOne(h, out)
      BY <1>1, <1>6 DEF OneToOne
    <3>2. r.excluded = Picture(h, out)
      BY <1>8 DEF Picture
    <3> QED
      BY <3>1, <3>2, Pictures
  <2>2. total.open = Cardinality(in)
    <3>1. {x \in items : x[2].resolved = S!None} = Picture(item, in)
      BY <1>2, <1>3 DEF kept, Picture
    <3>2. in \in SUBSET q.rows
      OBVIOUS
    <3> QED
      BY <3>1, <3>2, <1>6, <1>9
  <2>3. /\ out \union in = all /\ out \intersect in = {}
        /\ out \in SUBSET q.rows /\ in \in SUBSET q.rows
    OBVIOUS
  <2> HIDE DEF all, out, in
  <2>4. IsFiniteSet(out) /\ IsFiniteSet(in) /\ Cardinality(out) \in Nat /\ Cardinality(in) \in Nat
    BY <2>3, <1>6
  <2>5. Cardinality(all) = Cardinality(out) + Cardinality(in) - 0
    <3>1. Cardinality(all) = Cardinality(out) + Cardinality(in) - Cardinality(out \intersect in)
      BY <2>3, <2>4, FS_Union
    <3>2. Cardinality(out \intersect in) = 0
      BY <2>3, FS_EmptySet
    <3> QED
      BY <3>1, <3>2
  <2>6. Cardinality(all) = Cardinality(out) + Cardinality(in)
    BY <2>4, <2>5
  <2> QED
    BY <2>1, <2>2, <2>6 DEF all
<1>16. total.mttr # S!NoMean => total.mttr[2] = Cardinality(
          {x \in q.rows : x[2].resolved # S!None /\ x[2].resolved + q.window * S!Day >= S!Now})
  <2> DEFINE done == {x \in items : x[2].resolved # S!None}
             of == {x \in q.rows : x[2].resolved # S!None
                                   /\ x[2].resolved + q.window * S!Day >= S!Now}
  <2>1. done = Picture(item, of)
    <3>1. \A x \in q.rows : kept(x) /\ x[2].resolved # S!None
                            <=> x[2].resolved # S!None /\ x[2].resolved + q.window * S!Day >= S!Now
      BY <1>1, <1>4, <1>5 DEF kept
    <3>2. done = Picture(item, {x \in q.rows : kept(x) /\ x[2].resolved # S!None})
      BY <1>2, <1>3 DEF Picture
    <3>3. {x \in q.rows : kept(x) /\ x[2].resolved # S!None} = of
      BY <3>1
    <3> QED
      BY <3>2, <3>3
  <2>2. Cardinality(done) = Cardinality(of)
    <3>1. of \in SUBSET q.rows
      OBVIOUS
    <3> HIDE DEF done, of
    <3> QED
      BY <2>1, <3>1, <1>6
  <2>3. total.mttr # S!NoMean => total.mttr[2] = Cardinality(done)
    BY <1>9, SlaCardinality DEF S!mttr
  <2> QED
    BY <2>2, <2>3
<1>17. ASSUME NEW x \in q.rows, x[2].resolved = S!None, ~x[2].excepted,
              NEW d \in Nat, item[x][2].deadline \in 0..d,
              S!Now > x[2].detected + d * S!Day
       PROVE  \E i \in DOMAIN r.overdue : r.overdue[i][2].detected = x[2].detected
  <2>1. item[x] \in items
    BY <1>2, <1>17 DEF kept, Picture
  <2>2. S!is_overdue(item[x][2], S!Now)
    <3> PICK e : e = item[x][2].deadline
      OBVIOUS
    <3>1. e \in 0..d /\ x[2].detected \in Nat /\ 12 > x[2].detected + d * 2
      BY <1>4, <1>5, <1>17
    <3>2. 12 > x[2].detected + e * 2 /\ x[2].detected + e * 2 # -1
      BY <3>1
    <3>3. S!due_at(item[x][2]) = x[2].detected + e * 2
      BY <1>3, <1>5, <3>1 DEF S!due_at
    <3> QED
      BY <1>3, <1>5, <1>17, <3>2, <3>3 DEF S!is_overdue
  <2>3. item[x] \in due
    BY <2>1, <2>2
  <2> QED
    BY <2>3, <1>3, <1>11
<1>18. \A f \in {x[2] : x \in q.rows} :
          f.kev /\ f.resolved = S!None /\ ~f.excepted
            /\ S!Now > f.detected + q.policy.kev * S!Day
              => \E i \in DOMAIN r.overdue : r.overdue[i][2].detected = f.detected
  BY <1>1, <1>3, <1>17
<1>19. \A f \in {x[2] : x \in q.rows} :
          f.severity # "N/A" /\ f.resolved = S!None /\ ~f.excepted
            /\ S!Now > f.detected + q.policy[f.severity] * S!Day
              => \E i \in DOMAIN r.overdue : r.overdue[i][2].detected = f.detected
  <2>1. SUFFICES ASSUME NEW x \in q.rows,
                   x[2].severity # "N/A", x[2].resolved = S!None, ~x[2].excepted,
                   S!Now > x[2].detected + q.policy[x[2].severity] * S!Day
                 PROVE  \E i \in DOMAIN r.overdue : r.overdue[i][2].detected = x[2].detected
    OBVIOUS
  <2>2. q.policy[x[2].severity] \in Nat
    BY <1>1, <1>4, <2>1
  <2> QED
    BY <1>3, <1>17, <2>1, <2>2
<1>20. S!digest(q).shown + S!digest(q).more = total.overdue
  <2> PICK n : n = Cardinality(DOMAIN r.overdue)
    OBVIOUS
  <2>1. n \in Nat /\ n = total.overdue
    BY <1>9, <1>12
  <2>2. S!digest(q).shown = S!Min({n, 1}) /\ S!digest(q).more = IF n > 1 THEN n - 1 ELSE 0
    BY <1>5, SlaCardinality DEF S!digest
  <2>3. S!Min({n, 1}) = IF n > 1 THEN 1 ELSE n
    <3>1. \E m \in {n, 1} : \A y \in {n, 1} : m =< y
      BY <2>1
    <3>2. S!Min({n, 1}) \in {n, 1} /\ \A y \in {n, 1} : S!Min({n, 1}) =< y
      BY <3>1 DEF S!Min
    <3> QED
      BY <2>1, <3>2
  <2>4. CASE n > 1
    BY <2>1, <2>2, <2>3, <2>4
  <2>5. CASE ~(n > 1)
    <3>1. S!digest(q).shown = n /\ S!digest(q).more = 0
      BY <2>2, <2>3, <2>5
    <3> QED
      BY <3>1, <2>1
  <2> QED
    BY <2>4, <2>5
<1> HIDE DEF due
<1>21. total = r.summary.counts
  BY <1>8
<1> QED
  BY <1>10, <1>12, <1>13, <1>14, <1>15, <1>16, <1>18, <1>19, <1>20, <1>21, SlaCardinality
     DEF S!ReportedRightly

-----------------------------------------------------------------------------
(* repo_audit/                                                              *)
(* Whatever part of a set is summed up first, the whole sum is the same;    *)
(* and a sum of values of 1, 2 or 3 is bounded by how many there are.       *)
LEMMA SumParts ==
  ASSUME NEW f, NEW A, IsFiniteSet(A), \A x \in A : f[x] \in Int, NEW T \in SUBSET A
  PROVE  SumFunctionOnSet(f, A) = SumFunctionOnSet(f, T) + SumFunctionOnSet(f, A \ T)
<1> DEFINE Right(U) == SumFunctionOnSet(f, A) = SumFunctionOnSet(f, U) + SumFunctionOnSet(f, A \ U)
           Bad == {n \in Nat : \E U \in SUBSET A : Cardinality(A \ U) = n /\ ~Right(U)}
<1>1. \A U \in SUBSET A : IsFiniteSet(U) /\ \A x \in U : f[x] \in Int
  BY FS_Subset
<1>2. SumFunctionOnSet(f, {}) = 0 /\ \A U \in SUBSET A : SumFunctionOnSet(f, U) \in Int
  BY <1>1, Sums
<1>3. \A U \in SUBSET A : \A x \in U :
        SumFunctionOnSet(f, U) = f[x] + SumFunctionOnSet(f, U \ {x})
  BY <1>1, Sums
<1>4. ASSUME Bad # {} PROVE FALSE
  <2>1. PICK n \in Bad : \A m \in Bad : n <= m
    <3> Bad \subseteq Nat
      OBVIOUS
    <3> HIDE DEF Bad
    <3> QED
      BY <1>4, LeastOf
  <2>2. PICK U \in SUBSET A : Cardinality(A \ U) = n /\ ~Right(U)
    OBVIOUS
  <2>3. CASE U = A
    <3>1. A \ U = {}
      BY <2>3
    <3>2. SumFunctionOnSet(f, A \ U) = 0
      BY <3>1, <1>2
    <3> QED
      BY <2>2, <2>3, <3>2, <1>2
  <2>4. CASE U # A
    <3>1. PICK x \in A \ U : TRUE
      BY <2>4
    <3> PICK V1 : V1 = U \cup {x}
      OBVIOUS
    <3> PICK W : W = A \ U
      OBVIOUS
    <3>2. /\ V1 \in SUBSET A /\ W \in SUBSET A /\ A \ V1 = W \ {x} /\ V1 \ {x} = U
          /\ x \in V1 /\ x \in W
      BY <3>1
    <3>3. Cardinality(A \ V1) = n - 1 /\ n - 1 \in Nat /\ n \in Nat
      <4>1. IsFiniteSet(W) /\ IsFiniteSet(W \ {x})
        BY <1>1, <3>2
      <4>2. Cardinality(W \ {x}) = Cardinality(W) - 1 /\ Cardinality(W \ {x}) \in Nat
        BY <3>2, <4>1, FS_RemoveElement, FS_CardinalityType
      <4>3. Cardinality(W) \in Nat
        BY <4>1, FS_CardinalityType
      <4> QED
        BY <2>2, <3>2, <4>2, <4>3
    <3>4. Right(V1)
      <4>1. n - 1 \notin Bad
        <5> HIDE DEF Bad
        <5> QED
          BY <2>1, <3>3
      <4> HIDE DEF Right
      <4> QED
        BY <3>2, <3>3, <4>1
    <3>5. SumFunctionOnSet(f, V1) = f[x] + SumFunctionOnSet(f, U)
      BY <1>3, <3>2
    <3>6. SumFunctionOnSet(f, W) = f[x] + SumFunctionOnSet(f, A \ V1)
      BY <1>3, <3>2
    <3>7. /\ f[x] \in Int /\ SumFunctionOnSet(f, U) \in Int
          /\ SumFunctionOnSet(f, A \ V1) \in Int /\ SumFunctionOnSet(f, A) \in Int
      BY <1>2, <3>1, <3>2
    <3> QED
      BY <2>2, <3>4, <3>5, <3>6, <3>7
  <2> QED
    BY <2>3, <2>4
<1> QED
  BY <1>4, FS_Subset, FS_CardinalityType

(* A sum of values of 1, 2 or 3 is bounded by how many there are.           *)
LEMMA SumBounds ==
  ASSUME NEW f, NEW A, IsFiniteSet(A), \A x \in A : f[x] \in 1..3
  PROVE  /\ SumFunctionOnSet(f, A) \in Int
         /\ Cardinality(A) <= SumFunctionOnSet(f, A)
         /\ SumFunctionOnSet(f, A) <= 3 * Cardinality(A)
<1> DEFINE Right(U) == /\ Cardinality(U) <= SumFunctionOnSet(f, U)
                       /\ SumFunctionOnSet(f, U) <= 3 * Cardinality(U)
           Bad == {n \in Nat : \E U \in SUBSET A : Cardinality(U) = n /\ ~Right(U)}
<1>1. \A U \in SUBSET A : IsFiniteSet(U) /\ \A x \in U : f[x] \in Int
  BY FS_Subset
<1>2. SumFunctionOnSet(f, {}) = 0 /\ \A U \in SUBSET A : SumFunctionOnSet(f, U) \in Int
  BY <1>1, Sums
<1>3. \A U \in SUBSET A : \A x \in U :
        SumFunctionOnSet(f, U) = f[x] + SumFunctionOnSet(f, U \ {x})
  BY <1>1, Sums
<1>4. ASSUME Bad # {} PROVE FALSE
  <2>1. PICK n \in Bad : \A m \in Bad : n <= m
    <3> Bad \subseteq Nat
      OBVIOUS
    <3> HIDE DEF Bad
    <3> QED
      BY <1>4, LeastOf
  <2>2. PICK U \in SUBSET A : Cardinality(U) = n /\ ~Right(U)
    OBVIOUS
  <2>3. CASE U = {}
    BY <2>2, <2>3, <1>2, FS_EmptySet
  <2>4. CASE U # {}
    <3>1. PICK x \in U : TRUE
      BY <2>4
    <3> PICK W : W = U \ {x}
      OBVIOUS
    <3>2. /\ Cardinality(W) = n - 1 /\ n - 1 \in Nat /\ n \in Nat /\ W \in SUBSET A
      <4>1. IsFiniteSet(U) /\ IsFiniteSet(W) /\ W \in SUBSET A
        BY <1>1, <3>1
      <4>2. Cardinality(W) = Cardinality(U) - 1 /\ Cardinality(W) \in Nat
        BY <3>1, <4>1, FS_RemoveElement, FS_CardinalityType
      <4>3. Cardinality(U) \in Nat
        BY <4>1, FS_CardinalityType
      <4> QED
        BY <2>2, <4>1, <4>2, <4>3
    <3>3. Right(W)
      <4>1. n - 1 \notin Bad
        <5> HIDE DEF Bad
        <5> QED
          BY <2>1, <3>2
      <4> HIDE DEF Right
      <4> QED
        BY <3>2, <4>1
    <3>4. SumFunctionOnSet(f, U) = f[x] + SumFunctionOnSet(f, W) /\ f[x] \in 1..3
      BY <1>3, <3>1
    <3>5. SumFunctionOnSet(f, W) \in Int
      BY <1>2, <3>2
    <3> QED
      BY <2>2, <3>2, <3>3, <3>4, <3>5
  <2> QED
    BY <2>3, <2>4
<1> QED
  BY <1>2, <1>4, FS_CardinalityType

(* Division.                                                                *)
LEMMA Divided ==
  ASSUME NEW x \in Nat, NEW n \in Nat \ {0}
  PROVE  x = n * (x \div n) + (x % n) /\ x \div n \in Nat /\ x % n \in 0..(n - 1)
OBVIOUS

(* What is rounded is at most a half away, and on a tie it is even.         *)
LEMMA Rounded ==
  ASSUME NEW x \in Nat, NEW n \in Nat \ {0}
  PROVE  LET r == C!rounded(x, n)
         IN  /\ r \in Nat
             /\ 2 * x <= 2 * (n * r) + n
             /\ 2 * (n * r) <= 2 * x + n
             /\ 2 * x = 2 * (n * r) + n \/ 2 * (n * r) = 2 * x + n => r % 2 = 0
<1> PICK q : q = x \div n
  OBVIOUS
<1> PICK t : t = x % n
  OBVIOUS
<1>1. q \in Nat /\ t \in 0..(n - 1) /\ x = n * q + t
  BY Divided
<1>2. C!rounded(x, n) = IF 2 * t > n \/ (2 * t = n /\ q % 2 = 1) THEN q + 1 ELSE q
  BY DEF C!rounded
<1>3. n * (q + 1) = n * q + n
  BY <1>1
<1> PICK p : p = n * q
  OBVIOUS
<1>4. p \in Nat
  BY <1>1
<1>5. CASE 2 * t > n \/ (2 * t = n /\ q % 2 = 1)
  <2>1. C!rounded(x, n) = q + 1
    BY <1>2, <1>5
  <2>2. n * (q + 1) = p + n /\ x = p + t
    BY <1>1, <1>3
  <2>3. q % 2 = 1 => (q + 1) % 2 = 0
    BY <1>1
  <2> QED
    BY <1>1, <1>4, <1>5, <2>1, <2>2, <2>3
<1>6. CASE ~(2 * t > n \/ (2 * t = n /\ q % 2 = 1))
  <2>1. C!rounded(x, n) = q
    BY <1>2, <1>6
  <2>2. x = p + t
    BY <1>1
  <2>3. q % 2 = 1 \/ q % 2 = 0
    BY <1>1
  <2>4. /\ 2 * x <= 2 * p + n /\ 2 * p <= 2 * x + n
        /\ 2 * x = 2 * p + n \/ 2 * p = 2 * x + n => q % 2 = 0
    BY <1>1, <1>4, <1>6, <2>2, <2>3
  <2> QED
    BY <1>1, <2>1, <2>4
<1> QED
  BY <1>5, <1>6

(* A greater share is never rounded to less.                                *)
LEMMA RoundedUpward ==
  ASSUME NEW x \in Nat, NEW m \in Nat \ {0}, NEW y \in Nat, NEW n \in Nat \ {0}, x * n <= y * m
  PROVE  C!rounded(x, m) <= C!rounded(y, n)
<1> PICK r : r = C!rounded(x, m)
  OBVIOUS
<1> PICK s : s = C!rounded(y, n)
  OBVIOUS
<1>1. /\ r \in Nat /\ 2 * (m * r) <= 2 * x + m
      /\ 2 * (m * r) = 2 * x + m => r % 2 = 0
  BY Rounded
<1>2. /\ s \in Nat /\ 2 * y <= 2 * (n * s) + n
      /\ 2 * y = 2 * (n * s) + n => s % 2 = 0
  BY Rounded
<1>3. SUFFICES ASSUME s + 1 <= r PROVE FALSE
  BY <1>1, <1>2
<1> PICK k : k = 2 * s + 1
  OBVIOUS
<1>4. k \in Nat /\ 2 * y <= n * k
  BY <1>2
<1>5. m * k <= 2 * x
  <2>1. m * (s + 1) <= m * r
    BY <1>1, <1>2, <1>3
  <2>2. m * k = 2 * (m * (s + 1)) - m
    BY <1>2
  <2> QED
    BY <1>1, <2>1, <2>2, <1>2
<1>6. n * (m * k) <= n * (2 * x) /\ m * (2 * y) <= m * (n * k)
  BY <1>4, <1>5
<1>7. n * (2 * x) <= m * (2 * y)
  OBVIOUS
<1>8. n * (m * k) = m * (n * k)
  BY <1>4
<1>9. n * (m * k) = n * (2 * x) /\ m * (2 * y) = m * (n * k)
  BY <1>4, <1>6, <1>7, <1>8
<1>10. m * k = 2 * x /\ 2 * y = n * k
  BY <1>4, <1>9, SMTT(30)
<1>11. s % 2 = 0
  BY <1>2, <1>10
<1>12. r = s + 1
  <2>1. 2 * (m * r) <= m * k + m
    BY <1>1, <1>10
  <2>2. m * k + m = 2 * (m * (s + 1))
    BY <1>2
  <2>3. m * r <= m * (s + 1)
    BY <1>1, <1>2, <2>1, <2>2
  <2>4. r <= s + 1
    BY <1>1, <1>2, <2>3
  <2> QED
    BY <1>1, <1>2, <1>3, <2>4
<1>13. r % 2 = 0
  <2>1. m * k + m = 2 * (m * (s + 1))
    BY <1>2
  <2> QED
    BY <1>1, <1>10, <1>12, <2>1
<1> QED
  BY <1>2, <1>11, <1>12, <1>13

-----------------------------------------------------------------------------
(* Whatever GitHub answers of each setting, and of them all together.       *)
AnyAnswers ==
    [repo : {"hidden", "public", "private", "forkable"},
     analysis : C!Analyses, alerts : Nat,
     protection : {"full", "unchecked", "not protected", "not found", "upgrade", "refused"},
     keys : {C!None, "read only", "writable"}, hooks : {C!None, "https", "http", "unverified"}]

(* The sums and sizes of the audit are those of the lemmas.                 *)
LEMMA AuditSum ==
  /\ \A f, A : C!SumFunctionOnSet(f, A) = SumFunctionOnSet(f, A)
  /\ \A A : C!Cardinality(A) = Cardinality(A)
<1>1. \A f, A : C!SumFunctionOnSet(f, A) = SumFunctionOnSet(f, A)
  BY DEF C!SumFunctionOnSet, SumFunctionOnSet, C!FoldFunctionOnSet, FoldFunctionOnSet,
         C!MapThenFoldSet, MapThenFoldSet
<1>2. \A A : C!Cardinality(A) = Cardinality(A)
  BY DEF C!Cardinality, Cardinality
<1> QED
  BY <1>1, <1>2

(* A check weighs what it weighs, whatever the answer.                      *)
WeightOf(k) == CASE k \in {"secret_scanning", "dependabot_alerts", "branch_protection"} -> 3
                 [] k = "forking" -> 1
                 [] OTHER -> 2

(* Every check weighs as the table says.                                    *)
LEMMA Weighed ==
  ASSUME NEW a \in AnyAnswers, NEW k \in C!Keys(a)
  PROVE  C!evaluate(a)[k].weight = WeightOf(k) /\ WeightOf(k) \in 1..3
<1>1. k \in {"secret_scanning", "push_protection", "dependabot_alerts", "dependabot_updates",
             "branch_protection", "deploy_keys", "webhooks", "forking"}
  BY DEF C!Keys
<1>2. CASE k \in {"secret_scanning", "push_protection", "dependabot_alerts", "dependabot_updates"}
  BY <1>2 DEF C!evaluate, C!toggle, WeightOf
<1>3. CASE k = "branch_protection"
  BY <1>3 DEF C!evaluate, C!protection_check, WeightOf
<1>4. CASE k = "forking"
  BY <1>4 DEF C!evaluate, C!forking, WeightOf
<1>5. CASE k \in {"deploy_keys", "webhooks"}
  BY <1>5 DEF C!evaluate, C!deploy_keys, C!webhooks, WeightOf
<1> QED
  BY <1>1, <1>2, <1>3, <1>4, <1>5

(* What a check says, setting by setting.                                   *)
StatusOf(a, k) ==
    CASE k \in C!Features -> IF a.repo = "hidden" \/ k \notin DOMAIN a.analysis THEN "unavailable"
                             ELSE IF a.analysis[k] = "on" THEN "ok" ELSE "ng"
      [] k = "dependabot_alerts" -> IF a.alerts = 403 THEN "unavailable"
                                    ELSE IF a.alerts = 404 THEN "ng" ELSE "ok"
      [] k = "branch_protection" -> IF a.protection \in {"not found", "refused"} THEN "unavailable"
                                    ELSE IF a.protection = "upgrade" THEN "not_enforceable"
                                    ELSE IF a.protection = "full" THEN "ok" ELSE "ng"
      [] k = "forking" -> IF a.repo = "forkable" THEN "ng" ELSE "ok"
      [] k = "deploy_keys" -> IF a.keys = C!None THEN "unavailable"
                              ELSE IF a.keys = "writable" THEN "ng" ELSE "ok"
      [] k = "webhooks" -> IF a.hooks = C!None THEN "unavailable"
                           ELSE IF a.hooks \in {"http", "unverified"} THEN "ng" ELSE "ok"

(* What is told of a feature is that it is on or off.                       *)
LEMMA Toggled ==
  ASSUME NEW a \in AnyAnswers, NEW k \in DOMAIN a.analysis
  PROVE  a.analysis[k] \in {"on", "off"}
<1>1. a.analysis \in C!Analyses
  BY DEF AnyAnswers
<1>2. PICK told \in SUBSET C!Features : a.analysis \in [told -> {"on", "off"}]
  BY <1>1 DEF C!Analyses
<1> QED
  BY <1>2

(* A check says what was answered of its setting; what was not told it does *)
(* not judge.                                                               *)
LEMMA Checked ==
  ASSUME NEW a \in AnyAnswers, NEW k \in C!Keys(a)
  PROVE  C!evaluate(a)[k].status = StatusOf(a, k)
<1>1. k \in {"secret_scanning", "push_protection", "dependabot_alerts", "dependabot_updates",
             "branch_protection", "deploy_keys", "webhooks", "forking"}
  BY DEF C!Keys
<1> DEFINE told(e) == IF e = "none" THEN "unavailable" ELSE IF e = "on" THEN "ok" ELSE "ng"
<1>0. \A e, w : C!toggle(e, w).status = told(e)
  BY DEF C!toggle, C!None
<1>2. CASE k \in {"secret_scanning", "push_protection", "dependabot_updates"}
  <2>1. C!evaluate(a)[k].status = C!toggle(C!flag(a, k), WeightOf(k)).status
    BY <1>2 DEF C!evaluate, C!toggle
  <2>2. k \in C!Features
    BY <1>2 DEF C!Features
  <2>3. C!flag(a, k) = IF a.repo = "hidden" \/ k \notin DOMAIN a.analysis THEN "none"
                       ELSE IF a.analysis[k] = "on" THEN "on" ELSE "off"
    BY <2>2, Toggled DEF C!flag, C!None
  <2>4. StatusOf(a, k) = IF a.repo = "hidden" \/ k \notin DOMAIN a.analysis THEN "unavailable"
                         ELSE IF a.analysis[k] = "on" THEN "ok" ELSE "ng"
    BY <1>2, <2>2 DEF StatusOf
  <2> QED
    BY <1>0, <2>1, <2>3, <2>4
<1>3. CASE k = "dependabot_alerts"
  <2>1. C!evaluate(a)[k].status = C!toggle(C!vulnerability_alerts(a), 3).status
    BY <1>3 DEF C!evaluate
  <2>2. StatusOf(a, k) = IF a.alerts = 403 THEN "unavailable"
                                    ELSE IF a.alerts = 404 THEN "ng" ELSE "ok"
    BY <1>3 DEF StatusOf, C!Features
  <2>3. C!vulnerability_alerts(a) = IF a.alerts = 403 THEN "none"
                                    ELSE IF a.alerts = 404 THEN "off" ELSE "on"
    <3>1. CASE a.alerts = 403
      BY <3>1 DEF C!vulnerability_alerts, C!None
    <3>2. CASE a.alerts = 404
      BY <3>2 DEF C!vulnerability_alerts
    <3>3. CASE a.alerts # 403 /\ a.alerts # 404
      BY <3>3 DEF C!vulnerability_alerts
    <3> QED
      BY <3>1, <3>2, <3>3
  <2> QED
    BY <1>0, <2>1, <2>2, <2>3
<1>4. CASE k = "branch_protection"
  <2>1. C!evaluate(a)[k].status = C!protection_check(C!branch_protection(a)).status
    BY <1>4 DEF C!evaluate
  <2>2. StatusOf(a, k) = IF a.protection \in {"not found", "refused"} THEN "unavailable"
                                    ELSE IF a.protection = "upgrade" THEN "not_enforceable"
                                    ELSE IF a.protection = "full" THEN "ok" ELSE "ng"
    BY <1>4 DEF StatusOf, C!Features
  <2>3. a.protection \in {"full", "unchecked", "not protected", "not found", "upgrade", "refused"}
    BY DEF AnyAnswers
  <2> QED
    BY <2>1, <2>2, <2>3 DEF C!protection_check, C!branch_protection, C!None
<1>5. CASE k = "forking"
  BY <1>5 DEF C!evaluate, C!forking, StatusOf, C!Features
<1>6. CASE k = "deploy_keys"
  BY <1>6 DEF C!evaluate, C!deploy_keys, StatusOf, C!Features, C!None
<1>7. CASE k = "webhooks"
  BY <1>7 DEF C!evaluate, C!webhooks, C!is_insecure_hook, StatusOf, C!Features, C!None
<1> QED
  BY <1>1, <1>2, <1>3, <1>4, <1>5, <1>6, <1>7

(* The checks that say so, and what they weigh together.                    *)
Saying(a, states) == {k \in C!Keys(a) : StatusOf(a, k) \in states}
Weighing(a) == [k \in C!Keys(a) |-> WeightOf(k)]

(* There are at most eight checks, and they are of these names.             *)
LEMMA FewKeys ==
  ASSUME NEW a \in AnyAnswers
  PROVE  IsFiniteSet(C!Keys(a)) /\ Cardinality(C!Keys(a)) \in 0..8
<1> DEFINE all == {"secret_scanning", "push_protection", "dependabot_alerts", "dependabot_updates",
                   "branch_protection", "deploy_keys", "webhooks", "forking"}
           code(n) == CASE n = 1 -> "secret_scanning" [] n = 2 -> "push_protection"
                        [] n = 3 -> "dependabot_alerts" [] n = 4 -> "dependabot_updates"
                        [] n = 5 -> "branch_protection" [] n = 6 -> "deploy_keys"
                        [] n = 7 -> "webhooks" [] OTHER -> "forking"
<1> PICK g : g = [n \in 1..8 |-> code(n)]
  OBVIOUS
<1>1. g \in Surjection(1..8, all)
  <2>1. \A n \in 1..8 : g[n] \in all
    OBVIOUS
  <2>2. g \in [1..8 -> all]
    BY <2>1
  <2>3. \A k \in all : \E n \in 1..8 : g[n] = k
    <3>1. /\ g[1] = "secret_scanning" /\ g[2] = "push_protection" /\ g[3] = "dependabot_alerts"
          /\ g[4] = "dependabot_updates" /\ g[5] = "branch_protection" /\ g[6] = "deploy_keys"
          /\ g[7] = "webhooks" /\ g[8] = "forking"
      OBVIOUS
    <3> QED
      BY <3>1
  <2> QED
    BY <2>2, <2>3 DEF Surjection
<1>2. IsFiniteSet(all) /\ Cardinality(all) <= 8
  <2>1. IsFiniteSet(1..8) /\ Cardinality(1..8) = 8
    BY UpTo
  <2> HIDE DEF all
  <2> QED
    BY <1>1, <2>1, FS_Surjection
<1>3. C!Keys(a) \in SUBSET all
  BY DEF C!Keys
<1> HIDE DEF all
<1>4. IsFiniteSet(C!Keys(a)) /\ Cardinality(C!Keys(a)) <= Cardinality(all)
  BY <1>2, <1>3, FS_Subset
<1> QED
  BY <1>2, <1>4, FS_CardinalityType

(* The score is the share of what is in order in what could be seen.        *)
LEMMA Scored ==
  ASSUME NEW a \in AnyAnswers, NEW ok, NEW ng,
         ok = SumFunctionOnSet(Weighing(a), Saying(a, {"ok"})),
         ng = SumFunctionOnSet(Weighing(a), Saying(a, {"ng"}))
  PROVE  /\ ok \in Nat /\ ng \in Nat /\ ok + ng <= 24
         /\ ok = 0 <=> Saying(a, {"ok"}) = {}
         /\ ng = 0 <=> Saying(a, {"ng"}) = {}
         /\ C!score(C!evaluate(a)) = IF ok + ng = 0 THEN -1 ELSE C!rounded(100 * ok, ok + ng)
<1> PICK A : A = C!Keys(a)
  OBVIOUS
<1> PICK f : f = Weighing(a)
  OBVIOUS
<1>1. IsFiniteSet(A) /\ Cardinality(A) \in 0..8
  BY FewKeys
<1>2. \A k \in A : f[k] \in 1..3 /\ f[k] \in Int
  BY Weighed DEF Weighing
<1>3. ASSUME NEW T \in SUBSET A
      PROVE  /\ IsFiniteSet(T) /\ SumFunctionOnSet(f, T) \in Nat
             /\ Cardinality(T) \in Nat /\ (Cardinality(T) = 0 <=> T = {})
             /\ Cardinality(T) <= SumFunctionOnSet(f, T)
             /\ SumFunctionOnSet(f, T) <= 3 * Cardinality(T)
             /\ SumFunctionOnSet(f, T) <= 24
  <2>1. IsFiniteSet(T) /\ Cardinality(T) <= Cardinality(A)
    BY <1>1, FS_Subset
  <2>2. Cardinality(T) \in Nat /\ (Cardinality(T) = 0 <=> T = {})
    BY <2>1, FS_CardinalityType, FS_EmptySet
  <2>3. /\ SumFunctionOnSet(f, T) \in Int
        /\ Cardinality(T) <= SumFunctionOnSet(f, T)
        /\ SumFunctionOnSet(f, T) <= 3 * Cardinality(T)
    <3>1. \A k \in T : f[k] \in 1..3
      BY <1>2
    <3> QED
      BY <2>1, <3>1, SumBounds
  <2> QED
    BY <1>1, <2>1, <2>2, <2>3
<1> DEFINE both == Saying(a, {"ok", "ng"})
           fine == Saying(a, {"ok"})
           bad == Saying(a, {"ng"})
<1>4. both \in SUBSET A /\ fine \in SUBSET both /\ both \ fine = bad /\ fine \in SUBSET A
      /\ bad \in SUBSET A
  BY DEF Saying
<1>5. \A states : C!Weight(C!evaluate(a), states) = SumFunctionOnSet(f, Saying(a, states))
  <2> TAKE states
  <2>1. DOMAIN C!evaluate(a) = A
    BY DEF C!evaluate
  <2>2. [k \in A |-> C!evaluate(a)[k].weight] = f
    BY Weighed DEF Weighing
  <2>3. {k \in A : C!evaluate(a)[k].status \in states} = Saying(a, states)
    BY Checked DEF Saying
  <2> QED
    BY <2>1, <2>2, <2>3, AuditSum DEF C!Weight
<1>6. SumFunctionOnSet(f, both) = ok + ng
  <2>1. IsFiniteSet(both) /\ \A k \in both : f[k] \in Int
    BY <1>2, <1>3, <1>4
  <2>2. SumFunctionOnSet(f, both) = SumFunctionOnSet(f, fine) + SumFunctionOnSet(f, both \ fine)
    BY <1>4, <2>1, SumParts
  <2> QED
    BY <1>4, <2>2
<1>7. C!score(C!evaluate(a)) = IF ok + ng = 0 THEN -1 ELSE C!rounded(100 * ok, ok + ng)
  BY <1>5, <1>6 DEF C!score
<1> HIDE DEF both, fine, bad
<1>8. /\ SumFunctionOnSet(f, fine) = ok /\ SumFunctionOnSet(f, bad) = ng
  BY DEF fine, bad
<1>9. ok \in Nat /\ ng \in Nat /\ (ok = 0 <=> fine = {}) /\ (ng = 0 <=> bad = {})
  <2>1. /\ ok \in Nat /\ Cardinality(fine) <= ok /\ ok <= 3 * Cardinality(fine)
        /\ Cardinality(fine) \in Nat /\ (Cardinality(fine) = 0 <=> fine = {})
    BY <1>3, <1>4, <1>8
  <2>2. /\ ng \in Nat /\ Cardinality(bad) <= ng /\ ng <= 3 * Cardinality(bad)
        /\ Cardinality(bad) \in Nat /\ (Cardinality(bad) = 0 <=> bad = {})
    BY <1>3, <1>4, <1>8
  <2> QED
    BY <2>1, <2>2
<1>10. ok + ng <= 24
  BY <1>3, <1>4, <1>6
<1> QED
  BY <1>7, <1>9, <1>10 DEF fine, bad

-----------------------------------------------------------------------------
(* What was in order stays so, and nothing else gets out of order.          *)
LEMMA MendingMends ==
  ASSUME NEW a \in AnyAnswers, ~C!Fails(a), NEW b \in C!Mended(a)
  PROVE  /\ b \in AnyAnswers /\ ~C!Fails(b)
         /\ C!Keys(b) = C!Keys(a)
         /\ Saying(a, {"ok"}) \subseteq Saying(b, {"ok"})
         /\ Saying(b, {"ng"}) \subseteq Saying(a, {"ng"})
<1>1. /\ b \in AnyAnswers
      /\ b.analysis = a.analysis /\ (b.repo = "hidden" <=> a.repo = "hidden")
      /\ (b.repo = "forkable" => a.repo = "forkable")
      /\ (a.repo \in {"private", "forkable"} <=> b.repo \in {"private", "forkable"})
      /\ b.alerts \in {a.alerts, 204} /\ a.alerts \in Nat /\ b.alerts \in Nat
      /\ b.protection \in {a.protection, "full"}
      /\ b.keys \in {a.keys, "read only"} /\ b.hooks \in {a.hooks, "https"}
  <2>1. CASE b = [a EXCEPT !.alerts = 204]
    <3>1. /\ b.repo = a.repo /\ b.analysis = a.analysis /\ b.protection = a.protection
          /\ b.keys = a.keys /\ b.hooks = a.hooks /\ b.alerts = 204 /\ a.alerts \in Nat
      BY <2>1 DEF AnyAnswers
    <3>2. b = [repo |-> a.repo, analysis |-> a.analysis, alerts |-> 204,
               protection |-> a.protection, keys |-> a.keys, hooks |-> a.hooks]
      BY <2>1 DEF AnyAnswers
    <3>3. /\ a.repo \in {"hidden", "public", "private", "forkable"}
          /\ a.analysis \in C!Analyses
          /\ a.protection \in {"full", "unchecked", "not protected", "not found", "upgrade",
                               "refused"}
          /\ a.keys \in {C!None, "read only", "writable"}
          /\ a.hooks \in {C!None, "https", "http", "unverified"}
      BY DEF AnyAnswers
    <3>4. 204 \in Nat
      OBVIOUS
    <3>5. b \in AnyAnswers
      BY <3>2, <3>3, <3>4, Zenon DEF AnyAnswers
    <3> QED
      BY <3>1, <3>5
  <2>2. CASE b = [a EXCEPT !.protection = "full"]
    BY <2>2 DEF AnyAnswers
  <2>3. CASE b = [a EXCEPT !.keys = "read only"]
    BY <2>3 DEF AnyAnswers
  <2>4. CASE b = [a EXCEPT !.hooks = "https"]
    BY <2>4 DEF AnyAnswers
  <2>5. CASE b = [a EXCEPT !.repo = IF @ = "forkable" THEN "private" ELSE @]
    BY <2>5 DEF AnyAnswers
  <2> QED
    BY <2>1, <2>2, <2>3, <2>4, <2>5 DEF C!Mended
<1>2. C!Keys(b) = C!Keys(a)
  BY <1>1 DEF C!Keys
<1>3. ~C!Fails(b)
  <2>1. b.alerts \in {a.alerts, 204}
    BY <1>1
  <2>2. a.alerts # 500
    BY DEF C!Fails
  <2> QED
    BY <2>1, <2>2 DEF C!Fails
<1>4. ASSUME NEW k \in C!Keys(a)
      PROVE  /\ StatusOf(a, k) = "ok" => StatusOf(b, k) = "ok"
             /\ StatusOf(b, k) = "ng" => StatusOf(a, k) = "ng"
  <2>0. k \in C!Features \cup {"dependabot_alerts", "branch_protection", "forking",
                               "deploy_keys", "webhooks"}
    BY DEF C!Keys, C!Features
  <2>1. CASE k \in C!Features
    BY <1>1, <2>1, ZenonT(40) DEF StatusOf, C!Features
  <2>2. CASE k = "dependabot_alerts"
    <3>1. /\ StatusOf(a, k) = IF a.alerts = 403 THEN "unavailable"
                               ELSE IF a.alerts = 404 THEN "ng" ELSE "ok"
          /\ StatusOf(b, k) = IF b.alerts = 403 THEN "unavailable"
                               ELSE IF b.alerts = 404 THEN "ng" ELSE "ok"
      BY <2>2 DEF StatusOf, C!Features
    <3>2. b.alerts \in {a.alerts, 204}
      BY <1>1
    <3> QED
      BY <3>1, <3>2
  <2>3. CASE k = "branch_protection"
    <3>1. \A c : StatusOf(c, k) = IF c.protection \in {"not found", "refused"} THEN "unavailable"
                                   ELSE IF c.protection = "upgrade" THEN "not_enforceable"
                                   ELSE IF c.protection = "full" THEN "ok" ELSE "ng"
      BY <2>3 DEF StatusOf, C!Features
    <3>2. b.protection \in {a.protection, "full"}
      BY <1>1
    <3> QED
      BY <3>1, <3>2
  <2>4. CASE k = "forking"
    BY <1>1, <2>4 DEF StatusOf, C!Features
  <2>5. CASE k = "deploy_keys"
    BY <1>1, <2>5, ZenonT(40) DEF StatusOf, C!Features, C!None
  <2>6. CASE k = "webhooks"
    BY <1>1, <2>6, ZenonT(40) DEF StatusOf, C!Features, C!None
  <2> QED
    BY <2>0, <2>1, <2>2, <2>3, <2>4, <2>5, <2>6
<1> QED
  BY <1>1, <1>2, <1>3, <1>4 DEF Saying

(* So the score does not fall.                                              *)
LEMMA MendingRaises ==
  ASSUME NEW a \in AnyAnswers, ~C!Fails(a), NEW b \in C!Mended(a),
         NEW s, s = C!score(C!evaluate(a)), NEW t, t = C!score(C!evaluate(b))
  PROVE  s = -1 \/ t = -1 \/ s <= t
<1> PICK f : f = Weighing(a)
  OBVIOUS
<1> PICK ok : ok = SumFunctionOnSet(f, Saying(a, {"ok"}))
  OBVIOUS
<1> PICK ng : ng = SumFunctionOnSet(f, Saying(a, {"ng"}))
  OBVIOUS
<1> PICK better : better = SumFunctionOnSet(f, Saying(b, {"ok"}))
  OBVIOUS
<1> PICK less : less = SumFunctionOnSet(f, Saying(b, {"ng"}))
  OBVIOUS
<1>1. /\ b \in AnyAnswers /\ C!Keys(b) = C!Keys(a) /\ Weighing(b) = f
      /\ Saying(a, {"ok"}) \subseteq Saying(b, {"ok"})
      /\ Saying(b, {"ng"}) \subseteq Saying(a, {"ng"})
  BY MendingMends DEF Weighing
<1>2. /\ ok \in Nat /\ ng \in Nat
      /\ s = IF ok + ng = 0 THEN -1 ELSE C!rounded(100 * ok, ok + ng)
  BY Scored
<1>3. /\ better \in Nat /\ less \in Nat
      /\ t = IF better + less = 0 THEN -1 ELSE C!rounded(100 * better, better + less)
  BY <1>1, Scored
<1>4. \A T, U : T \in SUBSET U /\ U \in SUBSET C!Keys(a)
                  => SumFunctionOnSet(f, T) <= SumFunctionOnSet(f, U)
  <2> TAKE T, U
  <2> HAVE T \in SUBSET U /\ U \in SUBSET C!Keys(a)
  <2>1. \A V1 \in SUBSET C!Keys(a) : IsFiniteSet(V1) /\ \A k \in V1 : f[k] \in 1..3 /\ f[k] \in Int
    BY FewKeys, FS_Subset, Weighed DEF Weighing
  <2>2. \A V1 \in SUBSET C!Keys(a) : SumFunctionOnSet(f, V1) \in Nat
    <3> TAKE V1 \in SUBSET C!Keys(a)
    <3>1. IsFiniteSet(V1) /\ \A k \in V1 : f[k] \in 1..3
      BY <2>1
    <3>2. SumFunctionOnSet(f, V1) \in Int /\ Cardinality(V1) <= SumFunctionOnSet(f, V1)
      BY <3>1, SumBounds
    <3>3. Cardinality(V1) \in Nat
      BY <3>1, FS_CardinalityType
    <3> QED
      BY <3>2, <3>3
  <2> PICK rest : rest = U \ T
    OBVIOUS
  <2>3. IsFiniteSet(U) /\ \A k \in U : f[k] \in Int
    BY <2>1
  <2>4. SumFunctionOnSet(f, U) = SumFunctionOnSet(f, T) + SumFunctionOnSet(f, rest)
    BY <2>3, SumParts
  <2>5. T \in SUBSET C!Keys(a) /\ rest \in SUBSET C!Keys(a)
    OBVIOUS
  <2> QED
    BY <2>2, <2>4, <2>5
<1>5. ok <= better /\ less <= ng
  BY <1>1, <1>4 DEF Saying
<1>6. CASE ok + ng = 0 \/ better + less = 0
  BY <1>2, <1>3, <1>6
<1>7. CASE ok + ng # 0 /\ better + less # 0
  <2>1. ok + ng \in Nat \ {0} /\ better + less \in Nat \ {0}
        /\ 100 * ok \in Nat /\ 100 * better \in Nat
    BY <1>2, <1>3, <1>7
  <2>2. ok * less <= better * ng
    <3>1. ok * less <= better * less
      BY <1>2, <1>3, <1>5
    <3>2. better * less <= better * ng
      BY <1>2, <1>3, <1>5
    <3> QED
      BY <1>2, <1>3, <3>1, <3>2
  <2>3. (100 * ok) * (better + less) <= (100 * better) * (ok + ng)
    <3>1. (100 * ok) * (better + less) = 100 * (ok * better) + 100 * (ok * less)
      BY <1>2, <1>3
    <3>2. (100 * better) * (ok + ng) = 100 * (ok * better) + 100 * (better * ng)
      BY <1>2, <1>3
    <3> QED
      BY <1>2, <1>3, <2>2, <3>1, <3>2
  <2>4. C!rounded(100 * ok, ok + ng) <= C!rounded(100 * better, better + less)
    BY <2>1, <2>3, RoundedUpward
  <2> QED
    BY <1>2, <1>3, <1>7, <2>4
<1> QED
  BY <1>6, <1>7

(* At most a half away.                                                     *)
Near(s, x, n) == s \in Nat /\ 2 * x <= 2 * (n * s) + n /\ 2 * (n * s) <= 2 * x + n

(* Whatever GitHub answers of the settings of a repository: what cannot be  *)
(* seen neither lowers the score nor is called off, the full score means    *)
(* that nothing seen is amiss, and mending a setting never lowers it.       *)
THEOREM RepositoriesAreAudited ==
  \A a \in AnyAnswers : C!AuditedRightly(a, C!audited(a))
<1> SUFFICES ASSUME NEW a \in AnyAnswers PROVE C!AuditedRightly(a, C!audited(a))
  OBVIOUS
<1>0. ASSUME NEW x \in Nat, NEW n \in Nat \ {0}
      PROVE  Near(C!rounded(x, n), x, n)
  <2>1. /\ C!rounded(x, n) \in Nat
        /\ 2 * x <= 2 * (n * C!rounded(x, n)) + n
        /\ 2 * (n * C!rounded(x, n)) <= 2 * x + n
    BY Rounded
  <2> QED
    BY <2>1 DEF Near
<1> PICK r : r = C!audited(a)
  OBVIOUS
<1>1. CASE C!Fails(a)
  BY <1>1 DEF C!audited, C!AuditedRightly
<1>2. CASE ~C!Fails(a)
  <2> PICK ok : ok = SumFunctionOnSet(Weighing(a), Saying(a, {"ok"}))
    OBVIOUS
  <2> PICK ng : ng = SumFunctionOnSet(Weighing(a), Saying(a, {"ng"}))
    OBVIOUS
  <2>1. /\ ok \in Nat /\ ng \in Nat /\ ok + ng <= 24
        /\ (ok = 0 <=> Saying(a, {"ok"}) = {})
        /\ (ng = 0 <=> Saying(a, {"ng"}) = {})
        /\ C!score(C!evaluate(a)) = IF ok + ng = 0 THEN -1 ELSE C!rounded(100 * ok, ok + ng)
    BY Scored
  <2>2. /\ r.checks = C!evaluate(a) /\ r.score = C!score(C!evaluate(a))
        /\ r.issues = C!Cardinality({k \in C!Keys(a) : C!evaluate(a)[k].status = "ng"})
    BY <1>2 DEF C!audited
  <2>3. \A k \in C!Keys(a) : r.checks[k].status = StatusOf(a, k)
    BY <2>2, Checked
  <2>4. r.issues = 0 <=> ng = 0
    <3> PICK bad : bad = {k \in C!Keys(a) : C!evaluate(a)[k].status = "ng"}
      OBVIOUS
    <3>1. bad = Saying(a, {"ng"})
      BY Checked DEF Saying
    <3>2. IsFiniteSet(bad)
      BY FewKeys, FS_Subset
    <3>3. r.issues = Cardinality(bad)
      BY <2>2, AuditSum
    <3> QED
      BY <2>1, <3>1, <3>2, <3>3, FS_EmptySet
  <2>5. (\E k \in C!Keys(a) : r.checks[k].status = "ok") <=> ok # 0
    BY <2>1, <2>3 DEF Saying
  <2>6. (\A k \in C!Keys(a) : r.checks[k].status \notin {"ok", "ng"}) <=> ok = 0 /\ ng = 0
    BY <2>1, <2>3 DEF Saying
  <2>7. /\ r.score \in -1..100
        /\ r.score = -1 <=> ok = 0 /\ ng = 0
        /\ r.score = 100 <=> ng = 0 /\ ok # 0
    <3>1. CASE ok + ng = 0
      BY <2>1, <2>2, <3>1
    <3>2. CASE ok + ng # 0
      <4> PICK n \in Nat \ {0} : n = ok + ng
        BY <2>1, <3>2
      <4> PICK s : s = C!rounded(100 * ok, n)
        OBVIOUS
      <4>1. r.score = s /\ n <= 24 /\ 100 * ok \in Nat
        BY <2>1, <2>2, <3>2
      <4>2. /\ s \in Nat /\ 2 * (100 * ok) <= 2 * (n * s) + n
            /\ 2 * (n * s) <= 2 * (100 * ok) + n
        <5> PICK x \in Nat : x = 100 * ok
          BY <4>1
        <5>1. s = C!rounded(x, n)
          OBVIOUS
        <5>2. Near(s, x, n)
          BY <1>0, <5>1
        <5> QED
          BY <5>2 DEF Near
      <4>3. s <= 100
        <5>1. SUFFICES ASSUME 101 <= s PROVE FALSE
          BY <4>2
        <5>2. n * 101 <= n * s
          BY <4>2, <5>1
        <5> QED
          BY <2>1, <4>2, <5>2
      <4>4. ng = 0 => s = 100
        <5>1. SUFFICES ASSUME ng = 0, s <= 99 PROVE FALSE
          BY <4>2, <4>3
        <5>2. n * s <= n * 99
          BY <4>2, <5>1
        <5>3. n = ok
          BY <2>1, <5>1
        <5> PICK p : p = n * s
          OBVIOUS
        <5>4. p \in Nat
          BY <4>2
        <5>5. p <= n * 99
          BY <5>2
        <5>6. 2 * (100 * n) <= 2 * p + n
          <6>1. 2 * (100 * ok) <= 2 * p + n
            BY <4>2
          <6> QED
            BY <6>1, <5>3
        <5> QED
          BY <5>4, <5>5, <5>6
      <4>5. s = 100 => ng = 0
        <5>1. SUFFICES ASSUME s = 100, ng >= 1 PROVE FALSE
          BY <2>1
        <5>2. n * s = 100 * n
          BY <5>1
        <5> QED
          BY <2>1, <4>1, <4>2, <5>1, <5>2
      <4>6. ok = 0 => s # 100
        <5>1. SUFFICES ASSUME ok = 0, s = 100 PROVE FALSE
          OBVIOUS
        <5>2. n * s = 100 * n
          BY <5>1
        <5> QED
          BY <2>1, <4>1, <4>2, <5>1, <5>2
      <4>7. s = 100 <=> ng = 0 /\ ok # 0
        BY <2>1, <3>2, <4>4, <4>5, <4>6
      <4>8. s \in -1..100 /\ s # -1 /\ ~(ok = 0 /\ ng = 0)
        <5>1. s \in Nat
          BY <4>2
        <5>2. ~(ok = 0 /\ ng = 0)
          BY <2>1, <3>2
        <5> QED
          BY <4>3, <5>1, <5>2
      <4>9. r.score = s
        BY <4>1
      <4>10. /\ s \in -1..100
             /\ s = -1 <=> ok = 0 /\ ng = 0
             /\ s = 100 <=> ng = 0 /\ ok # 0
        BY <4>7, <4>8
      <4> QED
        BY <4>9, <4>10
    <3> QED
      BY <3>1, <3>2
  <2>8. ASSUME NEW k \in C!Keys(a), r.checks[k].status = "ng"
        PROVE  CASE k = "branch_protection" -> a.protection \in {"not protected", "unchecked"}
                 [] k = "dependabot_alerts" -> a.alerts = 404
                 [] k = "deploy_keys" -> a.keys = "writable"
                 [] k = "webhooks" -> a.hooks \in {"http", "unverified"}
                 [] k = "forking" -> a.repo = "forkable"
                 [] OTHER -> k \in DOMAIN a.analysis /\ a.analysis[k] = "off"
    <3>0. StatusOf(a, k) = "ng"
      BY <2>3, <2>8
    <3>1. CASE k \in C!Features
      <4>0. StatusOf(a, k) = IF a.repo = "hidden" \/ k \notin DOMAIN a.analysis
                             THEN "unavailable" ELSE IF a.analysis[k] = "on" THEN "ok" ELSE "ng"
        BY <3>1, Zenon DEF StatusOf, C!Features
      <4>1. k \in DOMAIN a.analysis /\ a.analysis[k] # "on"
        BY <3>0, <4>0, Zenon
      <4>2. a.analysis[k] = "off"
        BY <4>1, Toggled
      <4> QED
        BY <3>1, <4>1, <4>2, Zenon DEF C!Features
    <3>2. CASE k = "dependabot_alerts"
      BY <3>0, <3>2 DEF StatusOf, C!Features
    <3>3. CASE k = "branch_protection"
      BY <3>0, <3>3 DEF StatusOf, C!Features, AnyAnswers
    <3>4. CASE k = "forking"
      BY <3>0, <3>4 DEF StatusOf, C!Features
    <3>5. CASE k = "deploy_keys"
      BY <3>0, <3>5 DEF StatusOf, C!Features
    <3>6. CASE k = "webhooks"
      BY <3>0, <3>6 DEF StatusOf, C!Features
    <3>7. k \in C!Features \cup {"dependabot_alerts", "branch_protection", "forking",
                               "deploy_keys", "webhooks"}
      BY DEF C!Keys, C!Features
    <3> QED
      BY <3>1, <3>2, <3>3, <3>4, <3>5, <3>6, <3>7
  <2>9. ASSUME NEW b \in C!Mended(a) PROVE ~C!listed_before(C!audited(b), r) \/ r.score = -1
    <3>1. C!audited(b).score = C!score(C!evaluate(b)) /\ b \in AnyAnswers
      BY <1>2, MendingMends DEF C!audited
    <3>2. C!score(C!evaluate(a)) = -1 \/ C!score(C!evaluate(b)) = -1
            \/ C!score(C!evaluate(a)) <= C!score(C!evaluate(b))
      BY <1>2, MendingRaises
    <3>3. C!score(C!evaluate(b)) = -1 \/ C!score(C!evaluate(b)) \in Nat
      <4> PICK x : x = SumFunctionOnSet(Weighing(b), Saying(b, {"ok"}))
        OBVIOUS
      <4> PICK y : y = SumFunctionOnSet(Weighing(b), Saying(b, {"ng"}))
        OBVIOUS
      <4>1. /\ x \in Nat /\ y \in Nat
            /\ C!score(C!evaluate(b)) = IF x + y = 0 THEN -1 ELSE C!rounded(100 * x, x + y)
        BY <3>1, Scored
      <4>2. CASE x + y = 0
        BY <4>1, <4>2
      <4>3. CASE x + y # 0
        <5>1. x + y \in Nat \ {0} /\ 100 * x \in Nat
          BY <4>1, <4>3
        <5> QED
          BY <4>1, <4>3, <5>1, Rounded, ZenonT(40)
      <4> QED
        BY <4>2, <4>3
    <3> QED
      BY <2>2, <2>7, <3>1, <3>2, <3>3 DEF C!listed_before
  <2>10. C!AuditedRightly(a, r)
    BY <1>2, <2>4, <2>5, <2>6, <2>7, <2>8, <2>9 DEF C!AuditedRightly
  <2> QED
    BY <2>10
<1> QED
  BY <1>1, <1>2

-----------------------------------------------------------------------------
(* external_monitor/probes.py                                               *)
AnyLooks ==
    [at : {"url", "http", "address"}, first : SUBSET {"public", "internal"},
     second : SUBSET {"public", "internal"},
     cert : DOMAIN P!Days \cup {"invalid", "unreachable"},
     top : {"200", "unclaimed", "unclaimed 500", "down"}, headers : SUBSET P!Headers,
     paths : [P!Paths -> P!Contents], stops : Nat, firestore : {P!None, "open", "closed"}]

(* What is found is told apart by the part of the look it is of.            *)
TlsRules == {"tls-invalid", "tls-unreachable", "tls-expired", "tls-expiring"}
ExposureRules == {"exposed-env", "exposed-git", "exposed-firebase-json", "exposed-backup"}
TakeoverRules == {"dangling-dns", "subdomain-takeover"}
HeaderRules == {"missing-csp", "missing-hsts", "missing-nosniff", "missing-frame-protection",
                "missing-referrer-policy"}

(* A set of findings that a rule names one of, all of them of these rules.  *)
OneOfEach(findings, rules) == /\ IsFiniteSet(findings)
                              /\ \A f \in findings : f.rule \in rules
                              /\ \A f, g \in findings : f.rule = g.rule => f = g

(* Of the certificate at most one thing is found, and it is at no path.     *)
LEMMA TlsTold ==
  ASSUME NEW q \in AnyLooks
  PROVE  /\ OneOfEach(P!check_tls(q), TlsRules)
         /\ \A f \in P!check_tls(q) : f.at = P!None
<1>1. ASSUME NEW rule \in TlsRules, NEW severity
      PROVE  /\ OneOfEach({P!Found(rule, severity, P!None)}, TlsRules)
             /\ \A f \in {P!Found(rule, severity, P!None)} : f.at = P!None
  <2> PICK f : f = P!Found(rule, severity, P!None)
    OBVIOUS
  <2>1. f.rule = rule /\ f.at = P!None
    BY DEF P!Found
  <2>2. IsFiniteSet({f})
    BY FS_Singleton
  <2> QED
    BY <2>1, <2>2 DEF OneOfEach
<1>2. OneOfEach({}, TlsRules)
  BY FS_EmptySet DEF OneOfEach
<1>3. ASSUME NEW days \in Int
      PROVE  \/ P!evaluate_tls(days) = {}
             \/ \E rule \in TlsRules, severity \in {"ERROR", "WARNING"} :
                  P!evaluate_tls(days) = {P!Found(rule, severity, P!None)}
  <2>0. P!TLS_ERROR_DAYS = 7 /\ P!TLS_WARN_DAYS = 30
    BY DEF P!TLS_ERROR_DAYS, P!TLS_WARN_DAYS
  <2>1. CASE days < 0
    <3>1. P!evaluate_tls(days) = {P!Found("tls-expired", "ERROR", P!None)}
      BY <2>0, <2>1 DEF P!evaluate_tls
    <3> QED
      BY <3>1 DEF TlsRules
  <2>2. CASE days \in 0..7
    <3>1. P!evaluate_tls(days) = {P!Found("tls-expiring", "ERROR", P!None)}
      BY <2>0, <2>2 DEF P!evaluate_tls
    <3> QED
      BY <3>1 DEF TlsRules
  <2>3. CASE days \in 8..30
    <3>1. P!evaluate_tls(days) = {P!Found("tls-expiring", "WARNING", P!None)}
      BY <2>0, <2>3 DEF P!evaluate_tls
    <3> QED
      BY <3>1 DEF TlsRules
  <2>4. CASE days > 30
    BY <2>0, <2>4 DEF P!evaluate_tls
  <2> QED
    BY <2>1, <2>2, <2>3, <2>4
<1>4. \A c \in DOMAIN P!Days : P!Days[c] \in Int
  BY DEF P!Days
<1>5. CASE q.cert = "invalid"
  <2>1. P!check_tls(q) = {P!Found("tls-invalid", "ERROR", P!None)}
    BY <1>5 DEF P!check_tls
  <2> QED
    BY <1>1, <2>1 DEF TlsRules
<1>6. CASE q.cert = "unreachable"
  <2>1. P!check_tls(q) = {P!Found("tls-unreachable", "WARNING", P!None)}
    BY <1>6 DEF P!check_tls
  <2> QED
    BY <1>1, <2>1 DEF TlsRules
<1>7. CASE q.cert \notin {"invalid", "unreachable"}
  <2>1. P!check_tls(q) = P!evaluate_tls(P!Days[q.cert]) /\ q.cert \in DOMAIN P!Days
    BY <1>7 DEF P!check_tls, AnyLooks
  <2>2. P!Days[q.cert] \in Int
    BY <1>4, <2>1
  <2> QED
    <3> PICK days \in Int : days = P!Days[q.cert]
      BY <2>2
    <3>1. CASE P!evaluate_tls(days) = {}
      BY <1>2, <2>1, <3>1
    <3>2. CASE P!evaluate_tls(days) # {}
      BY <1>1, <1>3, <2>1, <3>2, SMTT(30)
    <3> QED
      BY <3>1, <3>2
<1> QED
  BY <1>5, <1>6, <1>7

(* A certificate with fewer days left is told of with no less weight.       *)
LEMMA TlsWorsens ==
  ASSUME NEW c \in DOMAIN P!Days, NEW d \in DOMAIN P!Days, P!Days[c] <= P!Days[d]
  PROVE  /\ (\E f \in P!evaluate_tls(P!Days[d]) : f.severity = "ERROR")
              => \E f \in P!evaluate_tls(P!Days[c]) : f.severity = "ERROR"
         /\ (\E f \in P!evaluate_tls(P!Days[d]) : f.severity = "WARNING")
              => \E f \in P!evaluate_tls(P!Days[c]) : f.severity \in {"ERROR", "WARNING"}
<1> PICK m : m = P!Days[c]
  OBVIOUS
<1> PICK n : n = P!Days[d]
  OBVIOUS
<1>1. m \in Int /\ n \in Int /\ m <= n
  BY DEF P!Days
<1>2. ASSUME NEW t \in Int
      PROVE  /\ (\E f \in P!evaluate_tls(t) : f.severity = "ERROR") <=> t <= 7
             /\ (\E f \in P!evaluate_tls(t) : f.severity = "WARNING") <=> t \in 8..30
  <2>0. P!TLS_ERROR_DAYS = 7 /\ P!TLS_WARN_DAYS = 30
    BY DEF P!TLS_ERROR_DAYS, P!TLS_WARN_DAYS
  <2>1. CASE t < 0
    <3>1. P!evaluate_tls(t) = {P!Found("tls-expired", "ERROR", P!None)}
      BY <2>0, <2>1 DEF P!evaluate_tls
    <3> QED
      BY <2>1, <3>1 DEF P!Found
  <2>2. CASE t \in 0..7
    <3>1. P!evaluate_tls(t) = {P!Found("tls-expiring", "ERROR", P!None)}
      BY <2>0, <2>2 DEF P!evaluate_tls
    <3> QED
      BY <2>2, <3>1 DEF P!Found
  <2>3. CASE t \in 8..30
    <3>1. P!evaluate_tls(t) = {P!Found("tls-expiring", "WARNING", P!None)}
      BY <2>0, <2>3 DEF P!evaluate_tls
    <3> QED
      BY <2>3, <3>1 DEF P!Found
  <2>4. CASE t > 30
    BY <2>0, <2>4 DEF P!evaluate_tls
  <2> QED
    BY <2>1, <2>2, <2>3, <2>4
<1>3. m <= 7 \/ m \in 8..30 \/ n > 30
  BY <1>1
<1>4. n <= 7 => m <= 7
  BY <1>1
<1> QED
  BY <1>1, <1>2, <1>3, <1>4

(* The paths, and the rule of each.                                         *)
LEMMA PathsTold ==
  /\ P!Paths = 1..5
  /\ \A i \in 1..5 : /\ P!ExposurePaths[i][2] \in ExposureRules
                     /\ P!ExposurePaths[i][1] # P!None
<1>1. /\ P!ExposurePaths[1] = <<"/.env", "exposed-env">>
      /\ P!ExposurePaths[2] = <<"/.git/HEAD", "exposed-git">>
      /\ P!ExposurePaths[3] = <<"/.git/config", "exposed-git">>
      /\ P!ExposurePaths[4] = <<"/firebase.json", "exposed-firebase-json">>
      /\ P!ExposurePaths[5] = <<"/backup.zip", "exposed-backup">>
  BY DEF P!ExposurePaths
<1>2. P!Paths = 1..5
  BY DEF P!Paths, P!ExposurePaths
<1> QED
  BY <1>1, <1>2 DEF ExposureRules, P!None

(* What is exposed is told once, and where it was met.                      *)
LEMMA ExposuresTold ==
  ASSUME NEW q \in AnyLooks
  PROVE  /\ OneOfEach(P!probe_exposure(q), ExposureRules)
         /\ \A f \in P!probe_exposure(q) :
              \E i \in P!Paths : P!ExposurePaths[i][1] = f.at /\ q.paths[i] \in {"file", "encoded"}
         /\ \A i \in P!Paths : q.paths[i] = "file" /\ i <= q.stops =>
              \E f \in P!probe_exposure(q) : f.rule = P!ExposurePaths[i][2]
<1> DEFINE exposes(j) == P!looks_like_exposure(P!ExposurePaths[j][2], q.paths[j])
           first == {j \in P!Paths :
                       /\ j <= q.stops
                       /\ exposes(j)
                       /\ ~\E k \in 1..j - 1 : /\ P!ExposurePaths[k][2] = P!ExposurePaths[j][2]
                                               /\ exposes(k)}
           told(i) == P!Found(P!ExposurePaths[i][2], "ERROR", P!ExposurePaths[i][1])
<1> PICK h : h = [i \in 1..5 |-> told(i)]
  OBVIOUS
<1>1. P!probe_exposure(q) = {told(i) : i \in first}
  BY DEF P!probe_exposure
<1>2. \A j \in 1..5 : exposes(j) => q.paths[j] \in {"file", "encoded"}
  BY DEF P!looks_like_exposure
<1>3. \A j \in 1..5 : q.paths[j] = "file" => exposes(j)
  BY DEF P!looks_like_exposure
<1> HIDE DEF exposes
<1>4. q.stops \in Nat
  BY DEF AnyLooks
<1>5. \A i, j \in first : P!ExposurePaths[i][2] = P!ExposurePaths[j][2] => i = j
  <2>1. \A i, j \in first : P!ExposurePaths[i][2] = P!ExposurePaths[j][2] => ~(i < j)
    BY PathsTold
  <2> QED
    BY <2>1, PathsTold
<1>6. \A i \in first : i \in 1..5 /\ exposes(i)
  BY PathsTold
<1>7. \A i : told(i).rule = P!ExposurePaths[i][2] /\ told(i).at = P!ExposurePaths[i][1]
  BY DEF P!Found
<1>8. \A i \in 1..5 : exposes(i) /\ i <= q.stops =>
         \E j \in first : P!ExposurePaths[j][2] = P!ExposurePaths[i][2]
  <2> TAKE i \in 1..5
  <2> HAVE exposes(i) /\ i <= q.stops
  <2> DEFINE same == {j \in Nat : /\ j \in 1..5 /\ exposes(j)
                                  /\ P!ExposurePaths[j][2] = P!ExposurePaths[i][2]}
  <2>1. same \subseteq Nat /\ i \in same
    OBVIOUS
  <2>2. PICK j \in same : \A k \in same : j <= k
    <3> HIDE DEF same
    <3> QED
      BY <2>1, LeastOf
  <2>3. j \in 1..5 /\ exposes(j) /\ P!ExposurePaths[j][2] = P!ExposurePaths[i][2] /\ j <= i
    BY <2>1, <2>2
  <2>4. j \in first
    BY <1>4, <2>2, <2>3, PathsTold
  <2> QED
    BY <2>3, <2>4
<1> HIDE DEF told, first
<1>9. IsFiniteSet(P!probe_exposure(q))
  <2>1. IsFiniteSet(1..5)
    BY UpTo
  <2>2. first \in SUBSET (1..5)
    BY <1>6
  <2>3. IsFiniteSet(first)
    BY <2>1, <2>2, FS_Subset
  <2>4. P!probe_exposure(q) = Picture(h, first)
    BY <1>1, <2>2 DEF Picture
  <2> QED
    BY <2>3, <2>4, Pictures
<1>10. OneOfEach(P!probe_exposure(q), ExposureRules)
  BY <1>1, <1>5, <1>6, <1>7, <1>9, PathsTold DEF OneOfEach
<1>11. \A f \in P!probe_exposure(q) :
         \E i \in P!Paths : P!ExposurePaths[i][1] = f.at /\ q.paths[i] \in {"file", "encoded"}
  BY <1>1, <1>2, <1>6, <1>7, PathsTold
<1>12. \A i \in P!Paths : q.paths[i] = "file" /\ i <= q.stops =>
         \E f \in P!probe_exposure(q) : f.rule = P!ExposurePaths[i][2]
  BY <1>1, <1>3, <1>7, <1>8, PathsTold
<1> QED
  BY <1>10, <1>11, <1>12

-----------------------------------------------------------------------------
(* What is missing of the headers; one more of them is at most one reason   *)
(* fewer.                                                                   *)
LEMMA HeadersTold ==
  ASSUME NEW h, NEW x
  PROVE  /\ OneOfEach(P!evaluate_headers(h), HeaderRules)
         /\ \A f \in P!evaluate_headers(h) : f.at = P!None
         /\ P!evaluate_headers(h \cup {x}) \subseteq P!evaluate_headers(h)
<1> DEFINE all(g) == {<<{"csp"}, "missing-csp", "WARNING">>,
                      <<{"hsts"}, "missing-hsts", "WARNING">>,
                      <<{"nosniff"}, "missing-nosniff", "INFO">>,
                      <<{"x-frame-options"} \cup ({"frame-ancestors"} \cap
                           (IF "csp" \in g THEN g ELSE {})), "missing-frame-protection", "INFO">>,
                      <<{"referrer-policy"}, "missing-referrer-policy", "INFO">>}
           told(f) == P!Found(f[2], f[3], P!None)
           lacking(g) == {f \in all(g) : f[1] \cap g = {}}
<1>1. \A g : P!evaluate_headers(g) = {told(f) : f \in lacking(g)}
  BY DEF P!evaluate_headers
<1>2. \A f : told(f).rule = f[2] /\ told(f).severity = f[3] /\ told(f).at = P!None
  BY DEF P!Found
<1>3. \A f, e \in all(h) : f[2] \in HeaderRules /\ (f[2] = e[2] => f = e)
  BY DEF HeaderRules
<1>4. \A f \in lacking(h \cup {x}) : \E e \in lacking(h) : e[2] = f[2] /\ e[3] = f[3]
  <2> PICK g : g = h \cup {x}
    OBVIOUS
  <2> DEFINE a1 == <<{"csp"}, "missing-csp", "WARNING">>
             a2 == <<{"hsts"}, "missing-hsts", "WARNING">>
             a3 == <<{"nosniff"}, "missing-nosniff", "INFO">>
             a4(s) == <<{"x-frame-options"} \cup ({"frame-ancestors"} \cap
                           (IF "csp" \in s THEN s ELSE {})), "missing-frame-protection", "INFO">>
             a5 == <<{"referrer-policy"}, "missing-referrer-policy", "INFO">>
  <2>1. SUFFICES ASSUME NEW f \in lacking(g)
                 PROVE  \E e \in lacking(h) : e[2] = f[2] /\ e[3] = f[3]
    OBVIOUS
  <2>2. f \in {a1, a2, a3, a4(g), a5} /\ f[1] \cap g = {}
    OBVIOUS
  <2>3. f[1] \cap h = {}
    BY <2>2
  <2>4. CASE f \in {a1, a2, a3, a5}
    <3>1. f \in lacking(h)
      BY <2>3, <2>4
    <3> QED
      BY <3>1
  <2>5. CASE f = a4(g)
    <3>1. "x-frame-options" \notin h /\ ~("csp" \in h /\ "frame-ancestors" \in h)
      BY <2>2, <2>5
    <3>2. a4(h)[1] \cap h = {}
      BY <3>1
    <3>3. a4(h) \in lacking(h)
      BY <3>2
    <3> QED
      BY <2>5, <3>3
  <2> QED
    BY <2>2, <2>4, <2>5
<1>5. IsFiniteSet(P!evaluate_headers(h))
  <2> DEFINE name(n) == CASE n = 1 -> told(<<{"csp"}, "missing-csp", "WARNING">>)
                          [] n = 2 -> told(<<{"hsts"}, "missing-hsts", "WARNING">>)
                          [] n = 3 -> told(<<{"nosniff"}, "missing-nosniff", "INFO">>)
                          [] n = 4 ->
                               told(<<{"x-frame-options"}, "missing-frame-protection", "INFO">>)
                          [] OTHER ->
                               told(<<{"referrer-policy"}, "missing-referrer-policy", "INFO">>)
  <2> PICK n : n = [i \in 1..5 |-> name(i)]
    OBVIOUS
  <2>1. IsFiniteSet(Picture(n, 1..5))
    BY UpTo, Pictures
  <2>2. \A f \in all(h) : \E i \in 1..5 : told(f) = n[i]
    <3>1. /\ n[1] = told(<<{"csp"}, "missing-csp", "WARNING">>)
          /\ n[2] = told(<<{"hsts"}, "missing-hsts", "WARNING">>)
          /\ n[3] = told(<<{"nosniff"}, "missing-nosniff", "INFO">>)
          /\ n[4] = told(<<{"x-frame-options"}, "missing-frame-protection", "INFO">>)
          /\ n[5] = told(<<{"referrer-policy"}, "missing-referrer-policy", "INFO">>)
      OBVIOUS
    <3> HIDE DEF name
    <3> QED
      BY <3>1
  <2>3. P!evaluate_headers(h) \in SUBSET Picture(n, 1..5)
    <3> HIDE DEF told, name, all
    <3> QED
      BY <1>1, <2>2 DEF Picture
  <2> QED
    BY <2>1, <2>3, FS_Subset
<1> HIDE DEF told, all
<1>6. \A f, e : f[2] = e[2] /\ f[3] = e[3] => told(f) = told(e)
  BY DEF told
<1>7. \A f \in P!evaluate_headers(h) : \E e \in all(h) : f = told(e)
  BY <1>1
<1>8. /\ \A f \in P!evaluate_headers(h) : f.rule \in HeaderRules /\ f.at = P!None
      /\ \A f, g \in P!evaluate_headers(h) : f.rule = g.rule => f = g
  BY <1>2, <1>3, <1>7
<1>9. P!evaluate_headers(h \cup {x}) \subseteq P!evaluate_headers(h)
  <2> PICK g : g = h \cup {x}
    OBVIOUS
  <2>1. \A f \in lacking(g) : \E e \in lacking(h) : told(e) = told(f)
    BY <1>4, <1>6
  <2> HIDE DEF lacking
  <2> QED
    BY <1>1, <2>1
<1> QED
  BY <1>5, <1>8, <1>9 DEF OneOfEach

(* The parts of a look at a site that is asked twice.                       *)
TopRules == HeaderRules \cup {"unreachable"}

AtTheTop(q) == IF q.top = "down" THEN {P!Found("unreachable", "WARNING", P!None)}
               ELSE P!evaluate_headers(q.headers)

(* The other parts of a look find at most one thing each, of rules of their *)
(* own; and a look is made of its parts.                                    *)
LEMMA PartsTold ==
  ASSUME NEW q \in AnyLooks
  PROVE  /\ OneOfEach(P!probe_firestore(q), {"firestore-public-read"})
         /\ OneOfEach(P!evaluate_takeover(q), TakeoverRules)
         /\ OneOfEach(AtTheTop(q), TopRules)
         /\ \A f \in P!probe_firestore(q) \cup P!evaluate_takeover(q) \cup AtTheTop(q) :
              f.at = P!None
         /\ P!is_safe_target(q) /\ q.second # {} =>
              P!probe_site(q).asked /\ P!probe_site(q).visited = q.second /\
              P!probe_site(q).findings = P!check_tls(q) \cup P!probe_exposure(q)
                \cup P!probe_firestore(q) \cup P!evaluate_takeover(q) \cup AtTheTop(q)
         /\ P!is_safe_target(q) /\ q.second = {} =>
              P!probe_site(q) =
                [asked |-> TRUE, visited |-> {}, findings |-> P!evaluate_takeover(q)]
         /\ ~P!is_safe_target(q) =>
              P!probe_site(q) = [asked |-> FALSE, visited |-> {}, findings |-> {}]
<1>1. \A rule, severity : /\ OneOfEach({P!Found(rule, severity, P!None)}, {rule})
                          /\ \A f \in {P!Found(rule, severity, P!None)} : f.at = P!None
  <2> TAKE rule, severity
  <2> PICK f : f = P!Found(rule, severity, P!None)
    OBVIOUS
  <2>1. f.rule = rule /\ f.at = P!None
    BY DEF P!Found
  <2>2. IsFiniteSet({f})
    BY FS_Singleton
  <2> QED
    BY <2>1, <2>2 DEF OneOfEach
<1>2. \A rules : OneOfEach({}, rules)
  BY FS_EmptySet DEF OneOfEach
<1>3. \A findings, some, rules : OneOfEach(findings, some) /\ some \subseteq rules
                                   => OneOfEach(findings, rules)
  BY DEF OneOfEach
<1>4. OneOfEach(P!probe_firestore(q), {"firestore-public-read"})
      /\ \A f \in P!probe_firestore(q) : f.at = P!None
  BY <1>1, <1>2 DEF P!probe_firestore
<1>5. OneOfEach(P!evaluate_takeover(q), TakeoverRules)
      /\ \A f \in P!evaluate_takeover(q) : f.at = P!None
  <2>1. CASE q.second = {}
    <3>1. P!evaluate_takeover(q) = {P!Found("dangling-dns", "ERROR", P!None)}
      BY <2>1 DEF P!evaluate_takeover
    <3>2. {"dangling-dns"} \subseteq TakeoverRules
      BY DEF TakeoverRules
    <3> PICK found : found = {P!Found("dangling-dns", "ERROR", P!None)}
      OBVIOUS
    <3>3. OneOfEach(found, {"dangling-dns"}) /\ \A f \in found : f.at = P!None
      BY <1>1
    <3>4. OneOfEach(found, TakeoverRules)
      BY <3>2, <3>3, <1>3
    <3> QED
      BY <3>1, <3>3, <3>4
  <2>2. CASE q.second # {} /\ q.top = "unclaimed"
    <3>1. P!evaluate_takeover(q) = {P!Found("subdomain-takeover", "ERROR", P!None)}
      BY <2>2 DEF P!evaluate_takeover
    <3>2. {"subdomain-takeover"} \subseteq TakeoverRules
      BY DEF TakeoverRules
    <3> PICK found : found = {P!Found("subdomain-takeover", "ERROR", P!None)}
      OBVIOUS
    <3>3. OneOfEach(found, {"subdomain-takeover"}) /\ \A f \in found : f.at = P!None
      BY <1>1
    <3>4. OneOfEach(found, TakeoverRules)
      BY <3>2, <3>3, <1>3
    <3> QED
      BY <3>1, <3>3, <3>4
  <2>3. CASE q.second # {} /\ q.top # "unclaimed"
    <3>1. P!evaluate_takeover(q) = {}
      BY <2>3 DEF P!evaluate_takeover
    <3> QED
      BY <3>1, <1>2
  <2> QED
    BY <2>1, <2>2, <2>3
<1>6. OneOfEach(AtTheTop(q), TopRules) /\ \A f \in AtTheTop(q) : f.at = P!None
  <2>1. CASE q.top = "down"
    <3>1. AtTheTop(q) = {P!Found("unreachable", "WARNING", P!None)}
      BY <2>1 DEF AtTheTop
    <3>2. {"unreachable"} \subseteq TopRules
      BY DEF TopRules
    <3> PICK found : found = {P!Found("unreachable", "WARNING", P!None)}
      OBVIOUS
    <3>3. OneOfEach(found, {"unreachable"}) /\ \A f \in found : f.at = P!None
      BY <1>1
    <3>4. OneOfEach(found, TopRules)
      BY <3>2, <3>3, <1>3
    <3> QED
      BY <3>1, <3>3, <3>4
  <2>2. CASE q.top # "down"
    <3>1. AtTheTop(q) = P!evaluate_headers(q.headers)
      BY <2>2 DEF AtTheTop
    <3>2. HeaderRules \subseteq TopRules
      BY DEF TopRules
    <3>3. OneOfEach(P!evaluate_headers(q.headers), HeaderRules)
          /\ \A f \in P!evaluate_headers(q.headers) : f.at = P!None
      BY HeadersTold
    <3> QED
      BY <3>1, <3>2, <3>3, <1>3
  <2> QED
    BY <2>1, <2>2
<1>7. P!is_safe_target(q) /\ q.second # {} =>
        P!probe_site(q).asked /\ P!probe_site(q).visited = q.second /\
        P!probe_site(q).findings = P!check_tls(q) \cup P!probe_exposure(q)
                \cup P!probe_firestore(q) \cup P!evaluate_takeover(q) \cup AtTheTop(q)
  BY DEF P!probe_site, AtTheTop
<1>8. P!is_safe_target(q) /\ q.second = {} =>
        P!probe_site(q) = [asked |-> TRUE, visited |-> {}, findings |-> P!evaluate_takeover(q)]
  BY DEF P!probe_site
<1>9. ~P!is_safe_target(q) => P!probe_site(q) = [asked |-> FALSE, visited |-> {}, findings |-> {}]
  BY DEF P!probe_site
<1> QED
  BY <1>4, <1>5, <1>6, <1>7, <1>8, <1>9

-----------------------------------------------------------------------------
(* Findings of which there is a graver one weigh no less.                   *)
LEMMA Graver ==
  ASSUME NEW F, NEW G,
         (\E f \in F : f.severity = "ERROR") => \E g \in G : g.severity = "ERROR",
         (\E f \in F : f.severity = "WARNING") => \E g \in G : g.severity \in {"ERROR", "WARNING"}
  PROVE  P!Gravity(G) >= P!Gravity(F)
<1> DEFINE error(A) == \E f \in A : f.severity = "ERROR"
           warning(A) == \E f \in A : f.severity = "WARNING"
<1>1. \A A : P!Gravity(A) = IF error(A) THEN 2 ELSE IF warning(A) THEN 1 ELSE 0
  <2> TAKE A
  <2>1. CASE error(A)
    BY <2>1 DEF P!Gravity
  <2>2. CASE ~error(A) /\ warning(A)
    BY <2>2 DEF P!Gravity
  <2>3. CASE ~error(A) /\ ~warning(A)
    BY <2>3 DEF P!Gravity
  <2> QED
    BY <2>1, <2>2, <2>3
<1>2. (error(F) => error(G)) /\ (warning(F) => error(G) \/ warning(G))
  OBVIOUS
<1> HIDE DEF error, warning
<1> QED
  BY <1>1, <1>2

(* Findings of parts that share no rule.                                    *)
LEMMA Joined ==
  ASSUME NEW F, NEW G, NEW some, NEW others,
         OneOfEach(F, some), OneOfEach(G, others), some \cap others = {}
  PROVE  OneOfEach(F \cup G, some \cup others)
<1>1. IsFiniteSet(F \cup G)
  BY FS_Union DEF OneOfEach
<1>2. \A f \in F : f.rule \in some /\ f.rule \notin others
  BY DEF OneOfEach
<1>3. \A g \in G : g.rule \in others /\ g.rule \notin some
  BY DEF OneOfEach
<1>4. \A f, g \in F \cup G : f.rule = g.rule => f = g
  BY <1>2, <1>3 DEF OneOfEach
<1> QED
  BY <1>1, <1>2, <1>3, <1>4 DEF OneOfEach

(* Whatever the look meets: a rule names one finding; a certificate that    *)
(* runs out never looks better; a file that is exposed within the time is   *)
(* found, and no page of an application taken for one; what is not safe to  *)
(* ask is not asked.                                                        *)
THEOREM SitesAreProbed == \A q \in AnyLooks : P!ProbedRightly(q, P!probe_site(q))
<1> SUFFICES ASSUME NEW q \in AnyLooks PROVE P!ProbedRightly(q, P!probe_site(q))
  OBVIOUS
<1> PICK r : r = P!probe_site(q)
  OBVIOUS
<1> DEFINE safe == P!is_safe_target(q)
           twice == safe /\ q.second # {}
<1>0. safe \in BOOLEAN
  BY DEF P!is_safe_target
<1>1. twice => r.asked /\ r.findings = P!check_tls(q) \cup P!probe_exposure(q)
                \cup P!probe_firestore(q) \cup P!evaluate_takeover(q) \cup AtTheTop(q)
  BY PartsTold
<1>2. safe /\ q.second = {} => r.asked /\ r.findings = P!evaluate_takeover(q)
  BY PartsTold
<1>3. ~safe => ~r.asked /\ r.findings = {}
  BY PartsTold
<1>4. \A f, g \in r.findings : f.rule = g.rule => f = g
  <2>1. CASE twice
    <3>1. OneOfEach(P!check_tls(q) \cup P!probe_exposure(q), TlsRules \cup ExposureRules)
      <4>1. TlsRules \cap ExposureRules = {}
        BY DEF TlsRules, ExposureRules
      <4> QED
        BY <4>1, TlsTold, ExposuresTold, Joined
    <3>2. OneOfEach((P!check_tls(q) \cup P!probe_exposure(q)) \cup P!probe_firestore(q),
                    (TlsRules \cup ExposureRules) \cup {"firestore-public-read"})
      <4>1. (TlsRules \cup ExposureRules) \cap {"firestore-public-read"} = {}
        BY DEF TlsRules, ExposureRules
      <4> QED
        BY <3>1, <4>1, PartsTold, Joined
    <3>3. OneOfEach(((P!check_tls(q) \cup P!probe_exposure(q)) \cup P!probe_firestore(q))
                      \cup P!evaluate_takeover(q),
                    ((TlsRules \cup ExposureRules) \cup {"firestore-public-read"})
                      \cup TakeoverRules)
      <4>1. ((TlsRules \cup ExposureRules) \cup {"firestore-public-read"}) \cap TakeoverRules = {}
        BY DEF TlsRules, ExposureRules, TakeoverRules
      <4> QED
        BY <3>2, <4>1, PartsTold, Joined
    <3>4. OneOfEach((((P!check_tls(q) \cup P!probe_exposure(q)) \cup P!probe_firestore(q))
                       \cup P!evaluate_takeover(q)) \cup AtTheTop(q),
                    (((TlsRules \cup ExposureRules) \cup {"firestore-public-read"})
                       \cup TakeoverRules) \cup TopRules)
      <4>1. (((TlsRules \cup ExposureRules) \cup {"firestore-public-read"}) \cup TakeoverRules)
              \cap TopRules = {}
        BY DEF TlsRules, ExposureRules, TakeoverRules, TopRules, HeaderRules
      <4> QED
        BY <3>3, <4>1, PartsTold, Joined
    <3> QED
      BY <2>1, <3>4, <1>1 DEF OneOfEach
  <2>2. CASE safe /\ q.second = {}
    BY <2>2, <1>2, PartsTold DEF OneOfEach
  <2>3. CASE ~safe
    BY <2>3, <1>3
  <2> QED
    BY <2>1, <2>2, <2>3
<1>5. ASSUME NEW c \in DOMAIN P!Days, q.cert \in DOMAIN P!Days, P!Days[c] <= P!Days[q.cert], r.asked
      PROVE  P!Gravity(P!probe_site([q EXCEPT !.cert = c]).findings) >= P!Gravity(r.findings)
  <2> PICK b : b = [q EXCEPT !.cert = c]
    OBVIOUS
  <2>1. /\ b \in AnyLooks /\ b.cert = c
        /\ b.at = q.at /\ b.first = q.first /\ b.second = q.second /\ b.top = q.top
        /\ b.headers = q.headers /\ b.paths = q.paths /\ b.stops = q.stops
        /\ b.firestore = q.firestore
    BY DEF AnyLooks
  <2>2. /\ P!is_safe_target(b) = safe
        /\ P!probe_exposure(b) = P!probe_exposure(q)
        /\ P!probe_firestore(b) = P!probe_firestore(q)
        /\ P!evaluate_takeover(b) = P!evaluate_takeover(q)
        /\ AtTheTop(b) = AtTheTop(q)
    BY <2>1 DEF P!is_safe_target, P!probe_exposure, P!probe_firestore, P!evaluate_takeover, AtTheTop
  <2>3. /\ P!check_tls(q) = P!evaluate_tls(P!Days[q.cert])
        /\ P!check_tls(b) = P!evaluate_tls(P!Days[c])
    <3>1. \A d \in DOMAIN P!Days : d \notin {"invalid", "unreachable"}
      BY DEF P!Days
    <3> QED
      BY <1>5, <2>1, <3>1 DEF P!check_tls
  <2>4. CASE twice
    <3> PICK rest : rest = P!probe_exposure(q) \cup P!probe_firestore(q)
                             \cup P!evaluate_takeover(q) \cup AtTheTop(q)
      OBVIOUS
    <3>1. r.findings = P!evaluate_tls(P!Days[q.cert]) \cup rest
      BY <1>1, <2>3, <2>4
    <3>2. P!probe_site(b).findings = P!evaluate_tls(P!Days[c]) \cup rest
      <4>1. P!is_safe_target(b) /\ b.second # {}
        BY <2>1, <2>2, <2>4
      <4>2. P!probe_site(b).findings = P!check_tls(b) \cup P!probe_exposure(b)
                \cup P!probe_firestore(b) \cup P!evaluate_takeover(b) \cup AtTheTop(b)
        BY <2>1, <4>1, PartsTold
      <4> QED
        BY <2>2, <2>3, <4>2
    <3> PICK F : F = r.findings
      OBVIOUS
    <3> PICK G : G = P!probe_site(b).findings
      OBVIOUS
    <3>3. (\E f \in F : f.severity = "ERROR") => \E g \in G : g.severity = "ERROR"
      BY <1>5, <3>1, <3>2, TlsWorsens
    <3>4. (\E f \in F : f.severity = "WARNING")
             => \E g \in G : g.severity \in {"ERROR", "WARNING"}
      BY <1>5, <3>1, <3>2, TlsWorsens
    <3> QED
      BY <3>3, <3>4, Graver
  <2>5. CASE safe /\ q.second = {}
    <3>1. P!probe_site(b).findings = r.findings
      <4>1. P!is_safe_target(b) /\ b.second = {}
        BY <2>1, <2>2, <2>5
      <4>2. P!probe_site(b) = [asked |-> TRUE, visited |-> {}, findings |-> P!evaluate_takeover(b)]
        BY <2>1, <4>1, PartsTold
      <4> QED
        BY <1>2, <2>2, <2>5, <4>2
    <3> PICK F : F = r.findings
      OBVIOUS
    <3>2. P!Gravity(F) >= P!Gravity(F)
      BY Graver
    <3> QED
      BY <3>1, <3>2
  <2> QED
    BY <1>3, <1>5, <2>4, <2>5
<1>6. r.asked /\ q.second # {} =>
         \A i \in P!Paths : q.paths[i] = "file" /\ i <= q.stops =>
            \E f \in r.findings : f.rule = P!ExposurePaths[i][2]
  BY <1>1, <1>3, ExposuresTold
<1>7. \A f \in r.findings : f.at # P!None =>
         \E i \in P!Paths : P!ExposurePaths[i][1] = f.at /\ q.paths[i] \in {"file", "encoded"}
  <2>1. CASE twice
    <3>1. SUFFICES ASSUME NEW f \in r.findings, f.at # P!None
                   PROVE  f \in P!probe_exposure(q)
      BY ExposuresTold
    <3> QED
      BY <1>1, <2>1, <3>1, TlsTold, PartsTold
  <2> QED
    BY <1>2, <1>3, <2>1, PartsTold
<1>8. q.top = "down" /\ q.second # {} =>
         \A f \in P!check_tls(q) : r.asked => f \in r.findings
  BY <1>1, <1>3
<1>9. ASSUME NEW h \in P!Headers, r.asked, q.top # "down"
      PROVE  P!Cardinality(P!probe_site([q EXCEPT !.headers = @ \cup {h}]).findings)
               <= P!Cardinality(r.findings)
  <2> PICK b : b = [q EXCEPT !.headers = @ \cup {h}]
    OBVIOUS
  <2>1. /\ b \in AnyLooks /\ b.headers = q.headers \cup {h}
        /\ b.at = q.at /\ b.first = q.first /\ b.second = q.second /\ b.top = q.top
        /\ b.cert = q.cert /\ b.paths = q.paths /\ b.stops = q.stops
        /\ b.firestore = q.firestore
    BY DEF AnyLooks
  <2>2. /\ P!is_safe_target(b) = safe
        /\ P!probe_exposure(b) = P!probe_exposure(q)
        /\ P!probe_firestore(b) = P!probe_firestore(q)
        /\ P!evaluate_takeover(b) = P!evaluate_takeover(q)
        /\ P!check_tls(b) = P!check_tls(q)
    BY <2>1 DEF P!is_safe_target, P!probe_exposure, P!probe_firestore,
               P!evaluate_takeover, P!check_tls
  <2>3. AtTheTop(b) \subseteq AtTheTop(q)
    <3>1. P!evaluate_headers(q.headers \cup {h}) \subseteq P!evaluate_headers(q.headers)
      BY HeadersTold
    <3> QED
      BY <1>9, <2>1, <3>1 DEF AtTheTop
  <2>4. P!probe_site(b).findings \subseteq r.findings
    <3>1. CASE twice
      <4>1. P!is_safe_target(b) /\ b.second # {}
        BY <2>1, <2>2, <3>1
      <4>2. P!probe_site(b).findings = P!check_tls(b) \cup P!probe_exposure(b)
                \cup P!probe_firestore(b) \cup P!evaluate_takeover(b) \cup AtTheTop(b)
        BY <2>1, <4>1, PartsTold
      <4> QED
        BY <1>1, <2>2, <2>3, <3>1, <4>2
    <3>2. CASE safe /\ q.second = {}
      <4>0. P!is_safe_target(b) /\ b.second = {}
        BY <2>1, <2>2, <3>2
      <4>1. P!probe_site(b) = [asked |-> TRUE, visited |-> {}, findings |-> P!evaluate_takeover(b)]
        BY <2>1, <4>0, PartsTold
      <4> QED
        BY <1>2, <2>2, <3>2, <4>1
    <3> QED
      BY <1>3, <1>9, <3>1, <3>2
  <2>5. IsFiniteSet(r.findings)
    <3>1. CASE twice
      <4>1. /\ IsFiniteSet(P!check_tls(q)) /\ IsFiniteSet(P!probe_exposure(q))
            /\ IsFiniteSet(P!probe_firestore(q)) /\ IsFiniteSet(P!evaluate_takeover(q))
            /\ IsFiniteSet(AtTheTop(q))
        BY TlsTold, ExposuresTold, PartsTold DEF OneOfEach
      <4>2. IsFiniteSet(P!check_tls(q) \cup P!probe_exposure(q))
        BY <4>1, FS_Union
      <4>3. IsFiniteSet(P!check_tls(q) \cup P!probe_exposure(q) \cup P!probe_firestore(q))
        BY <4>1, <4>2, FS_Union
      <4>4. IsFiniteSet(P!check_tls(q) \cup P!probe_exposure(q)
                \cup P!probe_firestore(q) \cup P!evaluate_takeover(q))
        BY <4>1, <4>3, FS_Union
      <4>5. IsFiniteSet(P!check_tls(q) \cup P!probe_exposure(q)
                \cup P!probe_firestore(q) \cup P!evaluate_takeover(q) \cup AtTheTop(q))
        BY <4>1, <4>4, FS_Union
      <4> QED
        BY <1>1, <3>1, <4>5
    <3>2. CASE safe /\ q.second = {}
      BY <1>2, <3>2, PartsTold DEF OneOfEach
    <3> QED
      BY <1>3, <1>9, <3>1, <3>2
  <2>6. \A A : P!Cardinality(A) = Cardinality(A)
    BY DEF P!Cardinality, Cardinality
  <2> PICK G : G = P!probe_site(b).findings
    OBVIOUS
  <2>7. Cardinality(G) <= Cardinality(r.findings)
    BY <2>4, <2>5, FS_Subset
  <2> QED
    BY <2>6, <2>7
<1>11. "internal" \in r.visited =>
          q.at = "url" /\ q.first = {"public"} /\ q.second # q.first
  <2>4. twice => r.visited = q.second
    BY PartsTold
  <2>5. safe /\ q.second = {} => r.visited = {}
    BY PartsTold
  <2>6. ~safe => r.visited = {}
    BY PartsTold
  <2>1. r.visited = (IF twice THEN q.second ELSE {})
    BY <1>0, <2>4, <2>5, <2>6
  <2>2. safe => q.at = "url" /\ q.first # {} /\ q.first \subseteq {"public"}
    BY DEF P!is_safe_target
  <2>3. "internal" # "public"
    OBVIOUS
  <2> QED
    BY <2>1, <2>2, <2>3
<1> HIDE DEF safe, twice
<1>10. ~r.asked => r.findings = {}
  BY <1>0, <1>1, <1>2, <1>3 DEF twice
<1> QED
  BY <1>4, <1>5, <1>6, <1>7, <1>8, <1>9, <1>10, <1>11 DEF P!ProbedRightly

-----------------------------------------------------------------------------
(* runtimes/detector.py                                                     *)
Languages == {"python", "nodejs", "flutter", "dart"}
Versions == {<<>>} \cup {<<a>> : a \in Nat} \cup {<<a, b>> : a, b \in Nat}

AnyFile == [kind : DOMAIN V!Tells \cup {"README"}, had : {"read", "failed", "huge"},
            vendored : BOOLEAN, lines : Seq(Languages \X Versions)]

(* However many files there are, the last is a Dockerfile.                  *)
AnyTrees == {t \in [seen : BOOLEAN, files : Seq(AnyFile)] :
               Len(t.files) > 0 /\ t.files[Len(t.files)] = V!Dockerfile}

Bounds == {"package.json", "pubspec.yaml", "pyproject.toml"}

(* Only manifests tell a bound; a Dockerfile tells of Python.               *)
LEMMA KindsTell ==
  /\ \A k \in DOMAIN V!Tells : V!Tells[k].pinned <=> k \notin Bounds
  /\ "Dockerfile" \in DOMAIN V!Tells
  /\ V!Tells["Dockerfile"].languages = {"python", "nodejs"}
  /\ ~V!Tells["Dockerfile"].first
<1>1. ASSUME NEW k \in DOMAIN V!Tells PROVE V!Tells[k].pinned <=> k \notin Bounds
  BY DEF V!Tells, V!Told, Bounds
<1>2. V!Tells["Dockerfile"] = V!Told({"python", "nodejs"}, FALSE, TRUE)
  BY DEF V!Tells
<1> QED
  BY <1>1, <1>2 DEF V!Tells, V!Told

(* What is found in a file comes from one of its lines, under the name of   *)
(* the file, with a cycle of the form that releases are stored by.          *)
LEMMA FoundInLines ==
  ASSUME NEW t \in AnyTrees, NEW i \in DOMAIN t.files, V!is_candidate(t.files[i])
  PROVE  \A d \in V!detect_runtimes(t, i) :
           /\ d.source = i /\ d.pinned = V!Tells[t.files[i].kind].pinned
           /\ d = [language |-> d.language, cycle |-> d.cycle, source |-> i, pinned |-> d.pinned]
           /\ Len(d.cycle) = IF d.language = "nodejs" THEN 1 ELSE 2
<1> PICK f \in AnyFile : f = t.files[i]
  BY DEF AnyTrees
<1>1. f.lines \in Seq(Languages \X Versions)
  BY DEF AnyFile
<1> PICK told : told = {n \in DOMAIN f.lines : f.lines[n][1] \in V!Tells[f.kind].languages}
  OBVIOUS
<1>2. told \subseteq DOMAIN f.lines
  BY Zenon
<1>3. told # {} => V!Min(told) \in told
  <2>1. DOMAIN f.lines = 1..Len(f.lines) /\ Len(f.lines) \in Nat
    BY <1>1
  <2>2. IsFiniteSet(1..Len(f.lines))
    BY <2>1, UpTo
  <2>3. told \in SUBSET Int /\ IsFiniteSet(told)
    BY <1>2, <2>1, <2>2, FS_Subset, SMTT(30)
  <2> QED
    BY <2>3, Extremes DEF V!Min
<1>4. ASSUME NEW d \in V!detect_runtimes(t, i)
      PROVE  \E n \in told : d = [language |-> f.lines[n][1],
                                  cycle |-> V!to_cycle(f.lines[n][1], f.lines[n][2]),
                                  source |-> i, pinned |-> V!Tells[f.kind].pinned]
                             /\ d.cycle # <<>>
  BY <1>3 DEF V!detect_runtimes
<1>5. ASSUME NEW l, NEW v \in Versions, V!to_cycle(l, v) # <<>>
      PROVE  Len(V!to_cycle(l, v)) = IF l = "nodejs" THEN 1 ELSE 2
  <2>1. v # <<>>
    BY <1>5 DEF V!to_cycle
  <2>2. CASE l = "nodejs"
    <3>1. V!to_cycle(l, v) = <<v[1]>>
      BY <2>1, <2>2 DEF V!to_cycle
    <3> QED
      BY <2>2, <3>1
  <2>3. CASE l # "nodejs"
    <3>1. V!to_cycle(l, v) = IF Len(v) = 2 THEN v ELSE <<>>
      BY <2>1, <2>3 DEF V!to_cycle
    <3> QED
      BY <1>5, <2>3, <3>1
  <2> QED
    BY <2>2, <2>3
<1>6. \A n \in told : f.lines[n][2] \in Versions
  BY <1>1, <1>2
<1> TAKE d \in V!detect_runtimes(t, i)
<1>7. PICK n \in told : d = [language |-> f.lines[n][1],
                             cycle |-> V!to_cycle(f.lines[n][1], f.lines[n][2]),
                             source |-> i, pinned |-> V!Tells[f.kind].pinned]
                        /\ d.cycle # <<>>
  BY <1>4, SMTT(30)
<1>8. Len(V!to_cycle(f.lines[n][1], f.lines[n][2])) = IF f.lines[n][1] = "nodejs" THEN 1 ELSE 2
  BY <1>5, <1>6, <1>7
<1> QED
  BY <1>7, <1>8

(* The Dockerfile tells its Python.                                         *)
LEMMA DockerfileTells ==
  ASSUME NEW t \in AnyTrees
  PROVE  /\ Len(t.files) \in V!candidates(t)
         /\ t.files[Len(t.files)].had = "read"
         /\ V!detect_runtimes(t, Len(t.files)) # {}
<1>1. /\ Len(t.files) \in DOMAIN t.files /\ t.files[Len(t.files)] = V!Dockerfile
      /\ V!Dockerfile.kind = "Dockerfile" /\ V!Dockerfile.had = "read"
      /\ V!Dockerfile.vendored = FALSE
      /\ V!Dockerfile.lines = <<<<"python", <<3, 13>>>>>>
  BY DEF AnyTrees, V!Dockerfile, V!Plain
<1> PICK f : f = V!Dockerfile
  OBVIOUS
<1>2. /\ 1 \in DOMAIN f.lines /\ f.lines[1][1] = "python" /\ f.lines[1][2] = <<3, 13>>
  BY <1>1
<1>3. V!to_cycle("python", <<3, 13>>) = <<3, 13>>
  BY DEF V!to_cycle
<1> PICK told : told = {n \in DOMAIN f.lines : f.lines[n][1] \in V!Tells[f.kind].languages}
  OBVIOUS
<1>4. 1 \in told
  BY <1>1, <1>2, KindsTell
<1>5. V!detect_runtimes(t, Len(t.files)) =
        {d \in {[language |-> f.lines[n][1],
                 cycle |-> V!to_cycle(f.lines[n][1], f.lines[n][2]),
                 source |-> Len(t.files), pinned |-> V!Tells[f.kind].pinned] : n \in told} :
           d.cycle # <<>>}
  <2>1. t.files[Len(t.files)] = f /\ ~V!Tells[f.kind].first
    BY <1>1, KindsTell
  <2> QED
    BY <2>1 DEF V!detect_runtimes
<1>5a. PICK d : d = [language |-> f.lines[1][1],
                     cycle |-> V!to_cycle(f.lines[1][1], f.lines[1][2]),
                     source |-> Len(t.files), pinned |-> V!Tells[f.kind].pinned]
  OBVIOUS
<1>5b. d.cycle = <<3, 13>>
  BY <1>2, <1>3, <1>5a
<1>5c. d.cycle # <<>>
  BY <1>5b
<1>5d. d \in V!detect_runtimes(t, Len(t.files))
  BY <1>4, <1>5, <1>5a, <1>5c, Zenon
<1>6. Len(t.files) \in V!candidates(t)
  BY <1>1, KindsTell DEF V!is_candidate, V!candidates
<1> QED
  BY <1>1, <1>5d, <1>6

(* No more files are fetched than the limit allows, and the last one is     *)
(* unless the candidates before it are as many.                             *)
LEMMA FewAreFetched ==
  ASSUME NEW t \in AnyTrees
  PROVE  /\ V!fetched(t) \subseteq V!candidates(t)
         /\ IsFiniteSet(V!fetched(t))
         /\ V!Cardinality(V!fetched(t)) <= V!MAX_FILES_PER_REPO
         /\ Len(t.files) \in V!fetched(t)
              <=> V!Cardinality(V!candidates(t) \ {Len(t.files)}) < V!MAX_FILES_PER_REPO
<1> PICK A : A = V!candidates(t)
  OBVIOUS
<1> PICK F : F = V!fetched(t)
  OBVIOUS
<1> PICK most \in Nat : most = V!MAX_FILES_PER_REPO
  BY DEF V!MAX_FILES_PER_REPO
<1>1. Len(t.files) \in Nat /\ DOMAIN t.files = 1..Len(t.files)
  BY DEF AnyTrees
<1>2. A \in SUBSET (1..Len(t.files)) /\ Len(t.files) \in A
  BY <1>1, DockerfileTells DEF V!candidates
<1>3. IsFiniteSet(A) /\ A \in SUBSET Int
  <2>1. IsFiniteSet(1..Len(t.files))
    BY <1>1, UpTo
  <2>2. IsFiniteSet(A)
    BY <1>2, <2>1, FS_Subset
  <2> QED
    BY <1>1, <1>2, <2>2
<1>4. F = {i \in A : V!Cardinality({k \in A : k < i}) < most}
  BY DEF V!fetched
<1>5. \A files : V!Cardinality(files) = Cardinality(files)
  BY DEF V!Cardinality, Cardinality
<1>6. F \subseteq A /\ IsFiniteSet(F)
  BY <1>3, <1>4, FS_Subset
<1>7. {k \in A : k < Len(t.files)} = A \ {Len(t.files)}
  BY <1>1, <1>2
<1>8. Len(t.files) \in F <=> V!Cardinality(A \ {Len(t.files)}) < most
  BY <1>2, <1>4, <1>7
<1>9. Cardinality(F) <= most
  <2>1. CASE F = {}
    BY <2>1, FS_EmptySet
  <2>2. CASE F # {}
    <3>1. PICK m \in F : \A y \in F : m >= y
      BY <1>3, <1>6, <2>2, Extremes
    <3> PICK below : below = {k \in A : k < m}
      OBVIOUS
    <3>2. Cardinality(below) < most
      BY <1>4, <1>5, <3>1
    <3>3. IsFiniteSet(below)
      BY <1>3, FS_Subset
    <3>4. F \in SUBSET (below \cup {m})
      BY <1>3, <1>6, <3>1
    <3>5. /\ IsFiniteSet(below \cup {m})
          /\ Cardinality(below \cup {m})
               = IF m \in below THEN Cardinality(below) ELSE Cardinality(below) + 1
      BY <3>3, FS_AddElement
    <3>6. Cardinality(F) <= Cardinality(below \cup {m})
      BY <3>4, <3>5, FS_Subset
    <3>7. Cardinality(F) \in Nat /\ Cardinality(below) \in Nat
      BY <1>6, <3>3, FS_CardinalityType
    <3> QED
      BY <3>2, <3>5, <3>6, <3>7
  <2> QED
    BY <2>1, <2>2
<1> QED
  BY <1>5, <1>6, <1>8, <1>9

(* The runtimes of a repository: of whatever files before a Dockerfile, one *)
(* row for each language, cycle and file, in the form releases are stored   *)
(* by; the Dockerfile is told of unless the limit is used up before it; no  *)
(* more files than the limit, none that is vendored, was not had or is too  *)
(* large, and nothing of a tree that was not seen.                          *)
THEOREM RuntimesAreDetected ==
  \A t \in AnyTrees : V!DetectedRightly(t, V!detect_repo_runtimes(t))
<1> SUFFICES ASSUME NEW t \in AnyTrees PROVE V!DetectedRightly(t, V!detect_repo_runtimes(t))
  OBVIOUS
<1> PICK r : r = V!detect_repo_runtimes(t)
  OBVIOUS
<1>1. ~t.seen => r.found = {}
  BY DEF V!detect_repo_runtimes
<1>2. t.seen => r.found = UNION {V!detect_runtimes(t, i) :
                                   i \in {j \in V!fetched(t) : t.files[j].had = "read"}}
  BY DEF V!detect_repo_runtimes
<1>3. ASSUME NEW d \in r.found
      PROVE  /\ t.seen /\ d.source \in V!fetched(t) /\ t.files[d.source].had = "read"
             /\ d.source \in DOMAIN t.files /\ V!is_candidate(t.files[d.source])
             /\ ~t.files[d.source].vendored
             /\ d.pinned = V!Tells[t.files[d.source].kind].pinned
             /\ d = [language |-> d.language, cycle |-> d.cycle, source |-> d.source,
                     pinned |-> d.pinned]
             /\ Len(d.cycle) = IF d.language = "nodejs" THEN 1 ELSE 2
  <2>1. t.seen
    BY <1>1, <1>3 DEF AnyTrees
  <2>2. PICK i \in V!fetched(t) : t.files[i].had = "read" /\ d \in V!detect_runtimes(t, i)
    BY <1>2, <1>3, <2>1
  <2>3. i \in DOMAIN t.files /\ V!is_candidate(t.files[i]) /\ ~t.files[i].vendored
    BY FewAreFetched DEF V!candidates
  <2> QED
    BY <2>1, <2>2, <2>3, FoundInLines
<1>4. \A d, e \in r.found : d.language = e.language /\ d.cycle = e.cycle /\ d.source = e.source
                              => d = e
  BY <1>3
<1>5. ASSUME t.seen, Len(t.files) \in V!fetched(t)
      PROVE  \E d \in r.found : d.source = Len(t.files)
  <2>1. Len(t.files) \in DOMAIN t.files /\ V!is_candidate(t.files[Len(t.files)])
    BY DockerfileTells DEF V!candidates
  <2>2. PICK d : d \in V!detect_runtimes(t, Len(t.files))
    BY DockerfileTells
  <2>3. d \in r.found
    BY <1>2, <1>5, <2>2, DockerfileTells
  <2> QED
    BY <2>1, <2>2, <2>3, FoundInLines
<1>7. (\E d \in r.found : d.source = Len(t.files))
        <=> /\ t.seen
            /\ V!Cardinality(V!candidates(t) \ {Len(t.files)}) < V!MAX_FILES_PER_REPO
  BY <1>3, <1>5, FewAreFetched
<1>8. V!Cardinality({d.source : d \in r.found}) <= V!MAX_FILES_PER_REPO
  <2> PICK files : files = {d.source : d \in r.found}
    OBVIOUS
  <2>1. files \in SUBSET V!fetched(t)
    BY <1>3
  <2>2. \A A : V!Cardinality(A) = Cardinality(A)
    BY DEF V!Cardinality, Cardinality
  <2>3. Cardinality(files) <= Cardinality(V!fetched(t))
    BY <2>1, FewAreFetched, FS_Subset
  <2>4. Cardinality(files) \in Nat /\ Cardinality(V!fetched(t)) \in Nat
    BY <2>1, FewAreFetched, FS_Subset, FS_CardinalityType
  <2>5. V!MAX_FILES_PER_REPO \in Nat
    BY DEF V!MAX_FILES_PER_REPO
  <2>6. V!Cardinality(files) = Cardinality(files)
    BY <2>2
  <2>7. V!Cardinality(V!fetched(t)) = Cardinality(V!fetched(t))
    BY <2>2
  <2>8. Cardinality(V!fetched(t)) <= V!MAX_FILES_PER_REPO
    BY <2>7, FewAreFetched
  <2>9. Cardinality(files) <= V!MAX_FILES_PER_REPO
    BY <2>3, <2>4, <2>5, <2>8
  <2> QED
    BY <2>6, <2>9
<1>6. \A d \in r.found : ~d.pinned =>
         t.files[d.source].kind \in {"package.json", "pubspec.yaml", "pyproject.toml"}
  BY <1>3, KindsTell DEF V!is_candidate, Bounds
<1>9. \A d \in r.found : Len(d.cycle) = IF d.language = "nodejs" THEN 1 ELSE 2
  BY <1>3
<1>10. \A d \in r.found : t.files[d.source].had = "read" /\ ~t.files[d.source].vendored
  BY <1>3
<1> QED
  BY <1>4, <1>6, <1>7, <1>8, <1>9, <1>10, Zenon DEF V!DetectedRightly

(* The trees that are asked about are among those.                          *)
LEMMA TreesAreAny == V!Trees \subseteq AnyTrees
<1>1. \A x \in V!Line : x \in Languages \X Versions
  BY DEF V!Line, Languages, Versions
<1>4. \A k \in DOMAIN V!Tells \cup {"README"}, x \in V!Line : V!Plain(k, x) \in AnyFile
  <2> TAKE k \in DOMAIN V!Tells \cup {"README"}, x \in V!Line
  <2>1. <<x>> \in Seq(Languages \X Versions)
    BY <1>1
  <2> QED
    BY <2>1 DEF V!Plain, AnyFile
<1>2. \A f \in V!File : f \in AnyFile
  <2> TAKE f \in V!File
  <2>1. f.lines \in Seq(Languages \X Versions)
    <3>1. \/ \E x \in V!Line : f.lines = <<x>>
          \/ \E x, y \in V!Line : f.lines = <<x, y>>
      BY DEF V!File
    <3>2. \A x \in V!Line : <<x>> \in Seq(Languages \X Versions)
      BY <1>1
    <3>3. \A x, y \in V!Line : <<x, y>> \in Seq(Languages \X Versions)
      BY <1>1
    <3> QED
      BY <3>1, <3>2, <3>3
  <2> QED
    BY <2>1 DEF V!File, AnyFile
<1>3. V!Dockerfile \in AnyFile
  <2>1. <<"python", <<3, 13>>>> \in V!Line
    BY DEF V!Line
  <2> QED
    BY <2>1, <1>4, KindsTell DEF V!Dockerfile
<1>5. \A k \in {"README", ".nvmrc"} : V!Plain(k, <<"nodejs", <<3>>>>) \in AnyFile
  <2>1. <<"nodejs", <<3>>>> \in V!Line
    BY DEF V!Line
  <2>2. \A k \in {"README", ".nvmrc"} : k \in DOMAIN V!Tells \cup {"README"}
    BY DEF V!Tells
  <2> QED
    BY <2>1, <2>2, <1>4
<1> QED
  <2>1. ASSUME NEW t \in V!Trees PROVE t \in AnyTrees
    <3>1. PICK s \in BOOLEAN, f \in {g \in V!File : V!Written(g)}, k \in {"README", ".nvmrc"} :
            t = [seen |-> s, files |-> <<f, V!Plain(k, <<"nodejs", <<3>>>>), V!Dockerfile>>]
      BY DEF V!Trees
    <3> PICK g : g = V!Plain(k, <<"nodejs", <<3>>>>)
      OBVIOUS
    <3> PICK h : h = <<f, g, V!Dockerfile>>
      OBVIOUS
    <3>2. h \in Seq(AnyFile)
      BY <1>2, <1>3, <1>5
    <3>3. Len(h) > 0 /\ h[Len(h)] = V!Dockerfile
      OBVIOUS
    <3>4. t = [seen |-> s, files |-> h]
      BY <3>1
    <3>5. t \in [seen : BOOLEAN, files : Seq(AnyFile)] /\ t.files = h
      BY <3>2, <3>4
    <3> QED
      BY <3>3, <3>5 DEF AnyTrees
  <2> QED
    BY <2>1

-----------------------------------------------------------------------------
(* depscan/                                                                 *)
(* Any advisory, whatever versions it names.                                *)
AnyAdvisory == [detail : BOOLEAN, fixed : SUBSET {2}, last : SUBSET (Nat \ {0}),
                others : SUBSET Int,
                kev : {"no", "listed", "likely"}]
AnyScans == [tree : BOOLEAN, file : BOOLEAN, advisory : AnyAdvisory, malicious : BOOLEAN,
             latest : Nat, source : {"imports", "silent", "empty", "refused"}]

(* The record of an advisory in a repository.                               *)
RecordOf(q, repo, id) == [repo |-> repo, id |-> id, severity |-> D!severity(id),
                          fixed |-> D!fixed_versions(q, id),
                          reachability |-> D!reachability(q, repo)]

(* The advisories that a scan knows of in a repository.                     *)
Due(q, repo, id) == /\ repo = "r1" => q.tree /\ q.file
                    /\ IF id = "MAL" THEN q.malicious ELSE q.advisory.detail

(* The records of a scan are those of what is due, and no other.            *)
LEMMA Recorded ==
  ASSUME NEW q \in AnyScans
  PROVE  /\ D!build(q) = {RecordOf(q, p[1], p[2]) :
                            p \in {x \in D!Repos \X {"GHSA", "MAL"} : Due(q, x[1], x[2])}}
         /\ D!inventory(q) = {repo \in D!Repos : repo = "r1" => q.tree /\ q.file}
<1>1. D!locations(q) = {repo \in D!Repos : repo = "r1" => q.tree /\ q.file}
  BY DEF D!locations, D!discover_manifests, AnyScans
<1>2. "r2" \in D!locations(q)
  BY <1>1 DEF D!Repos
<1>3. {i \in D!hits(q) : D!get_vuln(q, i)}
        = {i \in {"GHSA", "MAL"} : IF i = "MAL" THEN q.malicious ELSE q.advisory.detail}
  BY <1>2 DEF D!hits, D!get_vuln, AnyScans
<1>4. D!build(q) = {RecordOf(q, repo, id) : repo \in D!locations(q),
                                            id \in {i \in D!hits(q) : D!get_vuln(q, i)}}
  BY DEF D!build, RecordOf
<1>5. ASSUME NEW f PROVE
        f \in D!build(q) <=> \E x \in D!Repos \X {"GHSA", "MAL"} :
                                Due(q, x[1], x[2]) /\ f = RecordOf(q, x[1], x[2])
  <2>1. f \in D!build(q) <=>
          \E repo \in D!locations(q), id \in {i \in D!hits(q) : D!get_vuln(q, i)} :
                                f = RecordOf(q, repo, id)
    BY <1>4
  <2>2. \A repo, id : (repo \in D!locations(q) /\ id \in {i \in D!hits(q) : D!get_vuln(q, i)})
                        <=> (<<repo, id>> \in D!Repos \X {"GHSA", "MAL"} /\ Due(q, repo, id))
    BY <1>1, <1>3 DEF Due
  <2> HIDE DEF Due
  <2>3. ASSUME f \in D!build(q)
        PROVE  \E x \in D!Repos \X {"GHSA", "MAL"} :
                  Due(q, x[1], x[2]) /\ f = RecordOf(q, x[1], x[2])
    <3>1. PICK repo \in D!locations(q), id \in {i \in D!hits(q) : D!get_vuln(q, i)} :
                  f = RecordOf(q, repo, id)
      BY <2>1, <2>3
    <3>2. <<repo, id>> \in D!Repos \X {"GHSA", "MAL"} /\ Due(q, repo, id)
      BY <2>2
    <3> QED
      BY <3>1, <3>2
  <2>4. ASSUME NEW x \in D!Repos \X {"GHSA", "MAL"}, Due(q, x[1], x[2]), f = RecordOf(q, x[1], x[2])
        PROVE  f \in D!build(q)
    BY <2>1, <2>2, <2>4
  <2> QED
    BY <2>3, <2>4
<1> QED
  BY <1>1, <1>5 DEF D!inventory

(* A scan of the dependencies: whatever an advisory names as affected, what *)
(* was read is reported wherever it is used, once, and what was not read    *)
(* nowhere.                                                                 *)
THEOREM DependenciesAreReported ==
  \A q \in AnyScans : D!ScannedRightly(q, D!scan(q))
<1> SUFFICES ASSUME NEW q \in AnyScans PROVE D!ScannedRightly(q, D!scan(q))
  OBVIOUS
<1> PICK s : s = D!scan(q)
  OBVIOUS
<1>1. /\ s.findings = D!build(q) /\ s.inventory = D!inventory(q)
      /\ s.reasons = [f \in D!build(q) |-> D!compute_priority_reasons(q, f)]
  BY DEF D!scan
<1>0. /\ q.tree \in BOOLEAN /\ q.file \in BOOLEAN /\ q.malicious \in BOOLEAN
      /\ q.advisory.detail \in BOOLEAN /\ q.advisory.fixed \in SUBSET {2}
      /\ q.advisory.last \in SUBSET (Nat \ {0}) /\ q.latest \in Nat
  BY DEF AnyScans, AnyAdvisory
<1>2. ASSUME NEW f \in s.findings
      PROVE  \E repo \in D!Repos, id \in {"GHSA", "MAL"} :
                Due(q, repo, id) /\ f = RecordOf(q, repo, id) /\ f.repo = repo /\ f.id = id
  BY <1>1, Recorded DEF RecordOf
<1>3. ASSUME NEW repo \in D!Repos, NEW id \in {"GHSA", "MAL"}
      PROVE  {f \in s.findings : f.repo = repo /\ f.id = id}
               = IF Due(q, repo, id) THEN {RecordOf(q, repo, id)} ELSE {}
  <2>1. Due(q, repo, id) => RecordOf(q, repo, id) \in s.findings
    <3>1. <<repo, id>> \in D!Repos \X {"GHSA", "MAL"}
      OBVIOUS
    <3> QED
      BY <1>1, <3>1, Recorded
  <2>2. RecordOf(q, repo, id).repo = repo /\ RecordOf(q, repo, id).id = id
    BY DEF RecordOf
  <2> QED
    BY <1>2, <2>1, <2>2
<1>4. \A A : D!Cardinality(A) = Cardinality(A)
  BY DEF D!Cardinality, Cardinality
<1>5. ASSUME NEW repo \in D!Repos, NEW id \in {"GHSA", "MAL"}
      PROVE  D!Cardinality({f \in s.findings : f.repo = repo /\ f.id = id})
               = IF Due(q, repo, id) THEN 1 ELSE 0
  <2> PICK A : A = {f \in s.findings : f.repo = repo /\ f.id = id}
    OBVIOUS
  <2>1. Due(q, repo, id) => A = {RecordOf(q, repo, id)}
    BY <1>3
  <2>2. ~Due(q, repo, id) => A = {}
    BY <1>3
  <2>3. \A e : Cardinality({e}) = 1
    BY FS_Singleton
  <2>4. Cardinality(A) = IF Due(q, repo, id) THEN 1 ELSE 0
    BY <2>1, <2>2, <2>3, FS_EmptySet
  <2> QED
    BY <1>4, <2>4
<1>6. {f.repo : f \in s.findings} \subseteq s.inventory
  BY <1>1, <1>2, Recorded DEF Due
<1>7. ASSUME NEW f \in s.findings
      PROVE  /\ \A v \in f.fixed : q.advisory.others = {} /\ q.advisory.fixed = {} =>
                   v > D!Used /\ \A w \in q.advisory.last : v > w
             /\ f.reachability = "unreachable" => f.repo = "r1" /\ q.source = "silent"
             /\ f.id = "MAL" => f.severity = "CRITICAL" /\ "malicious_package" \in s.reasons[f]
             /\ "epss_high" \in s.reasons[f] => "kev_listed" \in s.reasons[f]
  <2>1. PICK repo \in D!Repos, id \in {"GHSA", "MAL"} :
                f = RecordOf(q, repo, id) /\ f.repo = repo /\ f.id = id
    BY <1>2
  <2>2. /\ f.severity = D!severity(id) /\ f.fixed = D!fixed_versions(q, id)
        /\ f.reachability = D!reachability(q, repo)
        /\ s.reasons[f] = D!compute_priority_reasons(q, f)
    BY <1>1, <2>1 DEF RecordOf
  <2>3. \A v \in f.fixed : q.advisory.others = {} /\ q.advisory.fixed = {} =>
                   v > D!Used /\ \A w \in q.advisory.last : v > w
    <3> SUFFICES ASSUME NEW v \in f.fixed, q.advisory.others = {}, q.advisory.fixed = {}
                 PROVE  v > D!Used /\ \A w \in q.advisory.last : v > w
      OBVIOUS
    <3>1. v \in D!infer_fixed_versions(q)
      BY <2>2 DEF D!fixed_versions
    <3>2. v = q.latest /\ q.advisory.last # {} /\ \A w \in q.advisory.last : q.latest > w
      BY <3>1 DEF D!infer_fixed_versions, D!is_newer_version
    <3>3. PICK w \in q.advisory.last : TRUE
      BY <3>2
    <3>4. w \in Nat /\ w > 0 /\ q.latest > w
      BY <1>0, <3>2
    <3> QED
      BY <1>0, <3>2, <3>4 DEF D!Used
  <2>4. f.reachability = "unreachable" => f.repo = "r1" /\ q.source = "silent"
    BY <2>1, <2>2 DEF D!reachability, D!Repos, AnyScans
  <2>5. f.id = "MAL" => f.severity = "CRITICAL" /\ "malicious_package" \in s.reasons[f]
    BY <2>1, <2>2 DEF D!severity, D!compute_priority_reasons
  <2>6. "epss_high" \in s.reasons[f] => "kev_listed" \in s.reasons[f]
    BY <2>2 DEF D!compute_priority_reasons
  <2> QED
    BY <2>3, <2>4, <2>5, <2>6
<1>8. ASSUME NEW repo \in s.inventory
      PROVE  D!search_dependencies(s)[repo] = 0 <=> ~\E f \in s.findings : f.repo = repo
  <2> PICK A : A = {f \in s.findings : f.repo = repo}
    OBVIOUS
  <2>1. D!search_dependencies(s)[repo] = Cardinality(A)
    BY <1>4 DEF D!search_dependencies
  <2>2. IsFiniteSet(A)
    <3> PICK I : I = {x \in D!Repos \X {"GHSA", "MAL"} : Due(q, x[1], x[2])}
      OBVIOUS
    <3>1. I \subseteq {<<"r1", "GHSA">>, <<"r1", "MAL">>, <<"r2", "GHSA">>, <<"r2", "MAL">>}
      BY DEF D!Repos
    <3>2. IsFiniteSet({<<"r1", "GHSA">>, <<"r1", "MAL">>, <<"r2", "GHSA">>, <<"r2", "MAL">>})
      <4>1. IsFiniteSet({<<"r1", "GHSA">>})
        BY FS_Singleton
      <4>2. IsFiniteSet({<<"r1", "GHSA">>} \cup {<<"r1", "MAL">>})
        BY <4>1, FS_AddElement
      <4>3. IsFiniteSet({<<"r1", "GHSA">>} \cup {<<"r1", "MAL">>} \cup {<<"r2", "GHSA">>})
        BY <4>2, FS_AddElement
      <4>4. IsFiniteSet({<<"r1", "GHSA">>} \cup {<<"r1", "MAL">>} \cup {<<"r2", "GHSA">>}
                          \cup {<<"r2", "MAL">>})
        BY <4>3, FS_AddElement
      <4>5. {<<"r1", "GHSA">>} \cup {<<"r1", "MAL">>} \cup {<<"r2", "GHSA">>}
              \cup {<<"r2", "MAL">>}
            = {<<"r1", "GHSA">>, <<"r1", "MAL">>, <<"r2", "GHSA">>, <<"r2", "MAL">>}
        OBVIOUS
      <4> QED
        BY <4>4, <4>5
    <3>3. IsFiniteSet(I)
      BY <3>1, <3>2, FS_Subset
    <3> PICK h : h = [x \in I |-> RecordOf(q, x[1], x[2])]
      OBVIOUS
    <3>4. IsFiniteSet(Picture(h, I))
      BY <3>3, Pictures
    <3>5. A \subseteq Picture(h, I)
      BY <1>1, Recorded DEF Picture
    <3> QED
      BY <3>4, <3>5, FS_Subset
  <2> QED
    BY <2>1, <2>2, FS_EmptySet
<1> QED
  BY <1>5, <1>6, <1>7, <1>8 DEF D!ScannedRightly, Due

(* The scans that are asked about are among those.                          *)
LEMMA ScansAreAny == D!Scans \subseteq AnyScans
<1>1. D!Advisory \subseteq AnyAdvisory
  BY DEF D!Advisory, AnyAdvisory
<1> QED
  BY <1>1 DEF D!Scans, AnyScans, D!None

-----------------------------------------------------------------------------
(* taxii/router.py                                                          *)
(* Pages of any length.                                                     *)
AnyReadings == [root : BOOLEAN, collection : X!Collections, updated : [X!Objects -> 0..3],
                limit : Nat \ {0}, object : X!Objects]

(* What is stored after a time, and of that what comes before an object.    *)
After(q, t) == {x \in X!Objects : q.updated[x] > t}
Ahead(q, t, x) == {y \in After(q, t) : X!later(q, x, y)}

(* How many objects come before one.                                        *)
LEMMA AheadCounted ==
  ASSUME NEW q \in AnyReadings, NEW t \in 0..3
  PROVE  /\ IsFiniteSet(After(q, t)) /\ Cardinality(After(q, t)) \in Nat
         /\ \A x \in After(q, t) : /\ IsFiniteSet(Ahead(q, t, x))
                                   /\ Cardinality(Ahead(q, t, x)) \in Nat
                                   /\ Cardinality(Ahead(q, t, x)) < Cardinality(After(q, t))
         /\ \A x, y \in After(q, t) : X!later(q, x, y) =>
               Cardinality(Ahead(q, t, y)) < Cardinality(Ahead(q, t, x))
         /\ X!query_objects(q, t)
              = {x \in After(q, t) : Cardinality(Ahead(q, t, x)) < q.limit}
<1>0. q.updated \in [X!Objects -> 0..3] /\ X!Objects = 1..4
  BY DEF AnyReadings, X!Objects
<1>1. IsFiniteSet(After(q, t))
  <2>1. IsFiniteSet(1..4)
    BY UpTo
  <2>2. After(q, t) \subseteq 1..4
    BY <1>0 DEF After
  <2> QED
    BY <2>1, <2>2, FS_Subset
<1>2. \A x \in After(q, t) : Ahead(q, t, x) \subseteq After(q, t) /\ x \notin Ahead(q, t, x)
  BY <1>0 DEF Ahead, After, X!later
<1>3. \A x, y \in After(q, t) : X!later(q, x, y) =>
         /\ Ahead(q, t, y) \subseteq Ahead(q, t, x)
         /\ y \in Ahead(q, t, x) /\ y \notin Ahead(q, t, y)
  BY <1>0 DEF Ahead, After, X!later
<1>4. \A A, E, z : IsFiniteSet(A) /\ E \subseteq A /\ z \in A /\ z \notin E =>
         /\ IsFiniteSet(E) /\ Cardinality(E) \in Nat /\ Cardinality(A) \in Nat
         /\ Cardinality(E) < Cardinality(A)
  BY FS_Subset, FS_CardinalityType
<1>5. \A x \in After(q, t) : /\ IsFiniteSet(Ahead(q, t, x))
                             /\ Cardinality(Ahead(q, t, x)) \in Nat
                             /\ Cardinality(Ahead(q, t, x)) < Cardinality(After(q, t))
  BY <1>1, <1>2, <1>4
<1>6. \A x, y \in After(q, t) : X!later(q, x, y) =>
               Cardinality(Ahead(q, t, y)) < Cardinality(Ahead(q, t, x))
  BY <1>3, <1>4, <1>5
<1>7. Cardinality(After(q, t)) \in Nat
  BY <1>1, FS_CardinalityType
<1>8. X!query_objects(q, t) = {x \in After(q, t) : Cardinality(Ahead(q, t, x)) < q.limit}
  <2>1. \A A : X!Cardinality(A) = Cardinality(A)
    BY DEF X!Cardinality, Cardinality
  <2>2. \A x : {y \in {z \in X!Objects : q.updated[z] > t} : X!later(q, x, y)} = Ahead(q, t, x)
    BY DEF Ahead, After
  <2>3. X!query_objects(q, t)
          = {x \in After(q, t) :
               X!Cardinality({y \in {z \in X!Objects : q.updated[z] > t} : X!later(q, x, y)})
                 < q.limit}
    BY DEF X!query_objects, After
  <2> QED
    BY <2>1, <2>2, <2>3
<1> QED
  BY <1>1, <1>5, <1>6, <1>7, <1>8

(* The last time of a page.                                                 *)
LastOf(q, t) == X!Max({q.updated[x] : x \in X!query_objects(q, t)})

(* A page holds something as long as there is something, and everything     *)
(* before its last time; what it leaves of that time comes behind what it   *)
(* holds; a page of one holds one.                                          *)
LEMMA PageTold ==
  ASSUME NEW q \in AnyReadings, NEW t \in 0..3
  PROVE  LET page == X!query_objects(q, t)
         IN  /\ page \subseteq After(q, t)
             /\ page = {} <=> After(q, t) = {}
             /\ page # {} => /\ LastOf(q, t) \in t + 1..3
                             /\ \E z \in page : q.updated[z] = LastOf(q, t)
                             /\ \A x \in After(q, t) : q.updated[x] < LastOf(q, t) => x \in page
                             /\ \A x \in After(q, t) \ page : q.updated[x] = LastOf(q, t) =>
                                  \E z \in page : /\ q.updated[z] = q.updated[x]
                                                 /\ X!later(q, x, z)
             /\ q.limit = 1 => \A x, y \in page : x = y
             /\ q.limit >= Cardinality(After(q, t)) => page = After(q, t)
<1> PICK page : page = X!query_objects(q, t)
  OBVIOUS
<1>0. q.updated \in [X!Objects -> 0..3] /\ X!Objects = 1..4 /\ q.limit \in Nat \ {0}
  BY DEF AnyReadings, X!Objects
<1>1. page = {x \in After(q, t) : Cardinality(Ahead(q, t, x)) < q.limit}
  BY AheadCounted
<1>2. ASSUME After(q, t) # {} PROVE page # {}
  <2>1. PICK n \in {Cardinality(Ahead(q, t, x)) : x \in After(q, t)} :
           \A m \in {Cardinality(Ahead(q, t, x)) : x \in After(q, t)} : n <= m
    <3> PICK Y : Y = {Cardinality(Ahead(q, t, x)) : x \in After(q, t)}
      OBVIOUS
    <3>1. Y \subseteq Nat /\ Y # {}
      BY <1>2, AheadCounted
    <3> QED
      BY <3>1, LeastOf
  <2>2. PICK x \in After(q, t) : \A y \in After(q, t) :
            Cardinality(Ahead(q, t, x)) <= Cardinality(Ahead(q, t, y))
    BY <2>1
  <2>3. Ahead(q, t, x) = {}
    <3> SUFFICES ASSUME NEW y \in Ahead(q, t, x) PROVE FALSE
      OBVIOUS
    <3>1. y \in After(q, t) /\ X!later(q, x, y)
      BY DEF Ahead
    <3>2. Cardinality(Ahead(q, t, y)) < Cardinality(Ahead(q, t, x))
      BY <3>1, AheadCounted
    <3> QED
      BY <2>2, <3>1, <3>2, AheadCounted
  <2>4. Cardinality(Ahead(q, t, x)) = 0
    BY <2>3, FS_EmptySet
  <2> QED
    BY <1>0, <1>1, <2>4
<1>3. ASSUME page # {}
      PROVE  /\ LastOf(q, t) \in t + 1..3
             /\ \E z \in page : q.updated[z] = LastOf(q, t)
  <2> PICK T : T = {q.updated[x] : x \in page}
    OBVIOUS
  <2>1. T \subseteq t + 1..3 /\ T # {}
    BY <1>0, <1>1, <1>3 DEF After
  <2>2. IsFiniteSet(T) /\ T \in SUBSET Int
    <3>1. IsFiniteSet(1..3)
      BY UpTo
    <3>2. T \subseteq 1..3
      <4>1. \A n \in t + 1..3 : n \in 1..3
        OBVIOUS
      <4> QED
        BY <2>1, <4>1
    <3> QED
      BY <3>1, <3>2, FS_Subset
  <2>3. X!Max(T) \in T
    BY <2>1, <2>2, Extremes DEF X!Max
  <2> QED
    BY <2>1, <2>3 DEF LastOf
<1>4. ASSUME NEW x \in After(q, t), page # {}, q.updated[x] < LastOf(q, t) PROVE x \in page
  <2>1. PICK z \in page : q.updated[z] = LastOf(q, t)
    BY <1>3, <1>4
  <2>2. z \in After(q, t) /\ Cardinality(Ahead(q, t, z)) < q.limit
    BY <1>1
  <2>3. X!later(q, z, x)
    BY <1>4, <2>1 DEF X!later
  <2>4. Cardinality(Ahead(q, t, x)) < Cardinality(Ahead(q, t, z))
    BY <2>2, <2>3, AheadCounted
  <2>5. Cardinality(Ahead(q, t, x)) \in Nat /\ Cardinality(Ahead(q, t, z)) \in Nat
    BY <2>2, AheadCounted
  <2> QED
    BY <1>0, <1>1, <2>2, <2>4, <2>5
<1>5. q.limit >= Cardinality(After(q, t)) => page = After(q, t)
  <2> SUFFICES ASSUME q.limit >= Cardinality(After(q, t)), NEW x \in After(q, t) PROVE x \in page
    BY <1>1
  <2>1. /\ Cardinality(Ahead(q, t, x)) < Cardinality(After(q, t))
        /\ Cardinality(Ahead(q, t, x)) \in Nat /\ Cardinality(After(q, t)) \in Nat
    BY AheadCounted
  <2> QED
    BY <1>0, <1>1, <2>1
<1>6. ASSUME NEW x \in After(q, t) \ page, page # {}, q.updated[x] = LastOf(q, t)
      PROVE  \E z \in page : q.updated[z] = q.updated[x] /\ X!later(q, x, z)
  <2>1. PICK z \in page : q.updated[z] = LastOf(q, t)
    BY <1>3, <1>6
  <2>2. z \in After(q, t) /\ Cardinality(Ahead(q, t, z)) < q.limit
    BY <1>1
  <2>3. ASSUME X!later(q, z, x) PROVE FALSE
    <3>1. Cardinality(Ahead(q, t, x)) < Cardinality(Ahead(q, t, z))
      BY <2>2, <2>3, AheadCounted
    <3>2. Cardinality(Ahead(q, t, x)) \in Nat /\ Cardinality(Ahead(q, t, z)) \in Nat
      BY <2>2, AheadCounted
    <3> QED
      BY <1>0, <1>1, <2>2, <3>1, <3>2
  <2>4. x # z /\ x \in 1..4 /\ z \in 1..4
    BY <1>0, <2>2 DEF After
  <2> QED
    BY <1>0, <1>6, <2>1, <2>3, <2>4 DEF X!later
<1>7. ASSUME q.limit = 1, NEW x \in page, NEW y \in page, x # y PROVE FALSE
  <2>1. /\ x \in After(q, t) /\ Cardinality(Ahead(q, t, x)) < 1
        /\ y \in After(q, t) /\ Cardinality(Ahead(q, t, y)) < 1
    BY <1>1, <1>7
  <2>2. X!later(q, x, y) \/ X!later(q, y, x)
    <3>1. x \in 1..4 /\ y \in 1..4
      BY <1>0, <2>1 DEF After
    <3>2. q.updated[x] \in 0..3 /\ q.updated[y] \in 0..3
      BY <1>0, <3>1
    <3> QED
      BY <1>7, <3>1, <3>2 DEF X!later
  <2>3. Cardinality(Ahead(q, t, x)) \in Nat /\ Cardinality(Ahead(q, t, y)) \in Nat
    BY <2>1, AheadCounted
  <2>4. \/ Cardinality(Ahead(q, t, x)) < Cardinality(Ahead(q, t, y))
        \/ Cardinality(Ahead(q, t, y)) < Cardinality(Ahead(q, t, x))
    BY <2>1, <2>2, AheadCounted
  <2> QED
    BY <2>1, <2>3, <2>4
<1> QED
  BY <1>1, <1>2, <1>3, <1>4, <1>5, <1>6, <1>7

(* What one turn of a client gets, if g is what it gets in the turns after. *)
Turn(q, g, t) == IF X!query_objects(q, t) = {} THEN {}
                 ELSE X!query_objects(q, t) \cup g[LastOf(q, t)]

(* The turns of a client are those of a function.                           *)
LEMMA TurnsTaken ==
  ASSUME NEW q \in AnyReadings
  PROVE  \E g : X!list_objects(q) = g[0] /\ \A t \in 0..3 : g[t] = Turn(q, g, t)
<1> DEFINE from[t \in 0..3] ==
             LET page == X!query_objects(q, t) IN
             IF page = {} THEN {} ELSE page \cup from[X!Max({q.updated[x] : x \in page})]
           s3 == [t \in 0..3 |-> {}]
           s2 == [t \in 0..3 |-> Turn(q, s3, t)]
           s1 == [t \in 0..3 |-> Turn(q, s2, t)]
           s0 == [t \in 0..3 |-> Turn(q, s1, t)]
<1>1. \A t \in 0..3 : X!query_objects(q, t) # {} => LastOf(q, t) \in t + 1..3
  BY PageTold
<1>2. ASSUME NEW g, NEW h, NEW t \in 0..3, \A m \in t + 1..3 : g[m] = h[m]
      PROVE  Turn(q, g, t) = Turn(q, h, t)
  BY <1>1, <1>2 DEF Turn
<1>3. s3[3] = s2[3] /\ s2[3] = s1[3] /\ s1[3] = s0[3]
  <2>1. X!query_objects(q, 3) = {}
    BY <1>1
  <2> QED
    BY <2>1 DEF Turn
<1>4. s2[2] = s1[2] /\ s1[2] = s0[2]
  <2>1. s2[2] = Turn(q, s3, 2) /\ s1[2] = Turn(q, s2, 2) /\ s0[2] = Turn(q, s1, 2)
    OBVIOUS
  <2>2. \A m \in 2 + 1..3 : m = 3
    OBVIOUS
  <2> HIDE DEF s3, s2, s1, s0
  <2>3. Turn(q, s3, 2) = Turn(q, s2, 2) /\ Turn(q, s2, 2) = Turn(q, s1, 2)
    BY <1>2, <1>3, <2>2
  <2> QED
    BY <2>1, <2>3
<1>5. s1[1] = s0[1]
  <2>1. s1[1] = Turn(q, s2, 1) /\ s0[1] = Turn(q, s1, 1)
    OBVIOUS
  <2>2. \A m \in 1 + 1..3 : m = 3 \/ m = 2
    OBVIOUS
  <2> HIDE DEF s3, s2, s1, s0
  <2>3. Turn(q, s2, 1) = Turn(q, s1, 1)
    BY <1>2, <1>3, <1>4, <2>2
  <2> QED
    BY <2>1, <2>3
<1>6. \A t \in 0..3 : s0[t] = Turn(q, s0, t)
  <2>1. \A t \in 0..3 : s0[t] = Turn(q, s1, t)
    OBVIOUS
  <2> HIDE DEF s3, s2, s1, s0
  <2>2. \A t \in 0..3 : \A m \in t + 1..3 : s1[m] = s0[m]
    BY <1>3, <1>4, <1>5
  <2>3. \A t \in 0..3 : Turn(q, s1, t) = Turn(q, s0, t)
    BY <1>2, <2>2, SMTT(30)
  <2> QED
    BY <2>1, <2>3
<1>7. s0 = [t \in 0..3 |-> LET page == X!query_objects(q, t) IN
             IF page = {} THEN {} ELSE page \cup s0[X!Max({q.updated[x] : x \in page})]]
  <2>1. s0 = [t \in 0..3 |-> Turn(q, s0, t)]
    <3>1. s0 = [t \in 0..3 |-> s0[t]]
      BY Zenon
    <3> HIDE DEF s0
    <3> QED
      BY <1>6, <3>1, Zenon
  <2> HIDE DEF s0
  <2> QED
    BY <2>1 DEF Turn, LastOf
<1>8. from = [t \in 0..3 |-> LET page == X!query_objects(q, t) IN
             IF page = {} THEN {} ELSE page \cup from[X!Max({q.updated[x] : x \in page})]]
  <2> HIDE DEF s0
  <2> QED
    BY <1>7
<1>9. X!list_objects(q) = from[0]
  BY DEF X!list_objects
<1> HIDE DEF from
<1>10. \A t \in 0..3 : from[t] = Turn(q, from, t)
  BY <1>8 DEF Turn, LastOf
<1> QED
  BY <1>9, <1>10

(* Reading a collection page by page, with pages of any length: what is     *)
(* missed comes behind an object of its own time that was got; one by one,  *)
(* one object of each time is got; and of what was updated at a time or     *)
(* later, what was updated at that very time is withheld.                   *)
THEOREM CollectionsAreServed ==
  \A q \in AnyReadings : X!ServedRightly(q, X!served(q))
<1> SUFFICES ASSUME NEW q \in AnyReadings PROVE X!ServedRightly(q, X!served(q))
  OBVIOUS
<1> PICK r : r = X!served(q)
  OBVIOUS
<1>0. q.updated \in [X!Objects -> 0..3] /\ q.object \in X!Objects
  BY DEF AnyReadings
<1> PICK g : X!list_objects(q) = g[0] /\ \A t \in 0..3 : g[t] = Turn(q, g, t)
  BY TurnsTaken
<1> DEFINE Fair(t) == /\ g[t] \subseteq After(q, t)
                      /\ \A x \in After(q, t) : \E y \in g[t] :
                           q.updated[y] = q.updated[x] /\ (y = x \/ X!later(q, x, y))
                      /\ q.limit = 1 => \A x, y \in g[t] : q.updated[x] = q.updated[y] => x = y
<1>1. ASSUME NEW t \in 0..3, \A m \in t + 1..3 : Fair(m) PROVE Fair(t)
  <2> PICK page : page = X!query_objects(q, t)
    OBVIOUS
  <2>1. CASE page = {}
    <3>1. g[t] = {} /\ After(q, t) = {}
      BY <2>1, PageTold DEF Turn
    <3> QED
      BY <3>1
  <2>2. CASE page # {}
    <3> PICK m : m = LastOf(q, t)
      OBVIOUS
    <3>1. /\ g[t] = page \cup g[m] /\ m \in t + 1..3 /\ page \subseteq After(q, t)
          /\ \E z \in page : q.updated[z] = m
          /\ \A x \in After(q, t) : q.updated[x] < m => x \in page
          /\ \A x \in After(q, t) \ page : q.updated[x] = m =>
               \E z \in page : q.updated[z] = q.updated[x] /\ X!later(q, x, z)
          /\ q.limit = 1 => \A x, y \in page : x = y
      BY <2>2, PageTold DEF Turn
    <3>2. Fair(m)
      BY <1>1, <3>1
    <3>3. After(q, m) \subseteq After(q, t)
      BY <1>0, <3>1 DEF After
    <3>4. g[t] \subseteq After(q, t)
      BY <3>1, <3>2, <3>3
    <3>5. ASSUME NEW x \in After(q, t)
          PROVE  \E y \in g[t] : q.updated[y] = q.updated[x] /\ (y = x \/ X!later(q, x, y))
      <4>1. q.updated[x] \in 0..3 /\ x \in X!Objects
        BY <1>0 DEF After
      <4>2. CASE q.updated[x] < m
        BY <3>1, <4>2
      <4>3. CASE q.updated[x] = m
        BY <3>1, <4>3
      <4>4. CASE q.updated[x] > m
        <5>1. x \in After(q, m)
          BY <4>1, <4>4 DEF After
        <5> QED
          BY <3>1, <3>2, <5>1
      <4> QED
        BY <3>1, <4>1, <4>2, <4>3, <4>4
    <3>6. ASSUME q.limit = 1, NEW x \in g[t], NEW y \in g[t], q.updated[x] = q.updated[y]
          PROVE  x = y
      <4>1. \A z \in page : q.updated[z] = m
        BY <3>1, <3>6
      <4>2. \A z \in g[m] : q.updated[z] > m
        BY <3>2 DEF After
      <4>3. m \in 0..3 /\ q.updated[x] \in 0..3
        BY <1>0, <3>1, <3>4 DEF After
      <4> QED
        BY <3>1, <3>2, <3>6, <4>1, <4>2, <4>3
    <3> QED
      BY <3>4, <3>5, <3>6
  <2> QED
    BY <2>1, <2>2
<1>2. Fair(0)
  <2> HIDE DEF Fair
  <2>1. Fair(3)
    BY <1>1
  <2>2. Fair(2)
    BY <1>1, <2>1
  <2>3. Fair(1)
    BY <1>1, <2>1, <2>2
  <2> QED
    BY <1>1, <2>1, <2>2, <2>3
<1> PICK stored : stored = {x \in X!Objects : q.updated[x] # 0}
  OBVIOUS
<1>3. stored = After(q, 0)
  BY <1>0 DEF After
<1>4. CASE ~(q.root /\ q.collection \in X!Known)
  <2>1. r.listed = {} /\ r.status = X!NotFound
    BY <1>4 DEF X!served, X!validate_root_and_collection
  <2> QED
    BY <1>4, <2>1 DEF X!ServedRightly
<1>5. CASE q.root /\ q.collection \in X!Known
  <2>1. r.listed = g[0] /\ (r.status = "200" <=> q.object \in stored)
    BY <1>0, <1>5 DEF X!served, X!validate_root_and_collection, X!get_object, X!NotFound
  <2>2. r.listed \subseteq stored
    BY <1>2, <1>3, <2>1
  <2> DEFINE missed == stored \ r.listed
             of(x) == {y \in stored : q.updated[y] = q.updated[x]}
  <2>3. \A x \in missed : \E y \in of(x) \cap r.listed : X!later(q, x, y)
    <3> TAKE x \in missed
    <3>1. PICK y \in g[0] : q.updated[y] = q.updated[x] /\ (y = x \/ X!later(q, x, y))
      BY <1>2, <1>3
    <3> QED
      BY <2>1, <2>2, <3>1
  <2>7. ASSUME q.limit = 1, NEW x \in stored PROVE X!Cardinality(of(x) \cap r.listed) = 1
    <3>1. PICK y \in g[0] : q.updated[y] = q.updated[x]
      BY <1>2, <1>3
    <3>2. \A z \in g[0] : q.updated[z] = q.updated[y] => z = y
      BY <1>2, <2>7
    <3> PICK Y : Y = of(x) \cap r.listed
      OBVIOUS
    <3>3. Y = {y}
      BY <2>1, <2>2, <3>1, <3>2
    <3>4. Cardinality({y}) = 1
      BY FS_Singleton
    <3>5. X!Cardinality(Y) = Cardinality(Y)
      BY DEF X!Cardinality, Cardinality
    <3>6. X!Cardinality(Y) = 1
      BY <3>3, <3>4, <3>5
    <3> HIDE DEF of
    <3> QED
      BY <3>6
  <2>8. ASSUME q.limit >= X!Cardinality(stored), NEW t \in 1..3
        PROVE  {x \in stored : q.updated[x] >= t} \ X!query_objects(q, t)
                 = {x \in stored : q.updated[x] = t}
    <3>1. /\ X!Cardinality(stored) = Cardinality(stored)
          /\ After(q, t) \in SUBSET stored /\ IsFiniteSet(stored)
      <4>1. X!Cardinality(stored) = Cardinality(stored)
        BY DEF X!Cardinality, Cardinality
      <4>2. After(q, t) \in SUBSET stored
        BY <1>0, <1>3 DEF After
      <4>3. IsFiniteSet(After(q, 0))
        BY AheadCounted
      <4> QED
        BY <1>3, <4>1, <4>2, <4>3
    <3>2. /\ Cardinality(After(q, t)) <= Cardinality(stored) /\ Cardinality(stored) \in Nat
          /\ Cardinality(After(q, t)) \in Nat
      BY <3>1, FS_Subset, FS_CardinalityType
    <3>3. q.limit \in Nat
      BY DEF AnyReadings
    <3>4. q.limit >= Cardinality(After(q, t))
      BY <2>8, <3>1, <3>2, <3>3
    <3>5. X!query_objects(q, t) = After(q, t)
      BY <3>4, PageTold
    <3>6. \A x \in stored : q.updated[x] \in Nat /\ x \in X!Objects
      BY <1>0, <1>3 DEF After
    <3> QED
      BY <3>5, <3>6 DEF After
  <2>4. (\A x \in stored : X!Cardinality(of(x)) = 1) => missed = {}
    <3> SUFFICES ASSUME \A x \in stored : X!Cardinality(of(x)) = 1, NEW x \in missed PROVE FALSE
      OBVIOUS
    <3> PICK A : A = of(x)
      OBVIOUS
    <3>1. \A Z : X!Cardinality(Z) = Cardinality(Z)
      BY DEF X!Cardinality, Cardinality
    <3>2. Cardinality(A) = 1
      BY <3>1
    <3>3. IsFiniteSet(A)
      <4>1. A \subseteq After(q, 0)
        BY <1>3
      <4>2. IsFiniteSet(After(q, 0))
        BY AheadCounted
      <4> QED
        BY <4>1, <4>2, FS_Subset
    <3>4. x \in A
      OBVIOUS
    <3>5. A = {x}
      <4>1. PICK y : A = {y}
        BY <3>2, <3>3, FS_Singleton
      <4> QED
        BY <3>4, <4>1
    <3> QED
      BY <2>3, <3>5
  <2>5. q.limit >= X!Cardinality(stored) => missed = {}
    <3>1. X!Cardinality(stored) = Cardinality(stored)
      BY DEF X!Cardinality, Cardinality
    <3>2. ASSUME q.limit >= Cardinality(stored) PROVE missed = {}
      <4>1. X!query_objects(q, 0) = After(q, 0)
        BY <1>3, <3>2, PageTold, SMTT(30)
      <4>2. After(q, 0) \subseteq g[0]
        BY <4>1 DEF Turn
      <4> QED
        BY <1>3, <2>1, <4>2
    <3> QED
      BY <3>1, <3>2
  <2> QED
    BY <1>5, <2>1, <2>2, <2>3, <2>4, <2>5, <2>7, <2>8 DEF X!ServedRightly
<1> QED
  BY <1>4, <1>5

(* The readings that are asked about are among those.                       *)
LEMMA ReadingsAreAny == X!Readings \subseteq AnyReadings
<1>1. \A n \in 1..3 : n \in Nat \ {0}
  OBVIOUS
<1> QED
  <2> SUFFICES ASSUME NEW q \in X!Readings PROVE q \in AnyReadings
    OBVIOUS
  <2>1. /\ q = [root |-> q.root, collection |-> q.collection, updated |-> q.updated,
                 limit |-> q.limit, object |-> q.object]
        /\ q.root \in BOOLEAN /\ q.collection \in X!Collections
        /\ q.updated \in [X!Objects -> 0..3] /\ q.limit \in 1..3 /\ q.object \in X!Objects
    BY DEF X!Readings
  <2>2. q.limit \in Nat \ {0} 
    BY <1>1, <2>1
  <2> QED
    BY <2>1, <2>2 DEF AnyReadings

-----------------------------------------------------------------------------
(* project_sync/                                                            *)
(* Lists of the open items of any length.                                   *)
AnyRuns == [board : B!Board, open : [1..2 -> Seq(B!Items)],
            unlisted : SUBSET {1, 2}, existing : SUBSET B!Items, refused : SUBSET B!Items]

BoardStates == [status : {"success", "error"}, existing : SUBSET B!Items, added : Nat, failed : Nat]

(* From one state of the board to a later one: what was there stays, what   *)
(* is new was listed and not refused, and is counted within the limit; of   *)
(* the items, all that were not refused are there, or the limit is reached. *)
Grown(q, items, s, t) ==
    /\ t \in BoardStates /\ t.status = s.status
    /\ s.existing \subseteq t.existing
    /\ t.existing \ s.existing \subseteq items \ q.refused
    /\ IsFiniteSet(t.existing \ s.existing)
    /\ t.added = s.added + Cardinality(t.existing \ s.existing)
    /\ (s.added <= B!MaxAdd => t.added <= B!MaxAdd)
    /\ (t.added < B!MaxAdd => items \ q.refused \subseteq t.existing)

(* Two sets that have nothing in common.                                    *)
LEMMA Disjoint ==
  ASSUME NEW A, NEW Y, IsFiniteSet(A), IsFiniteSet(Y), A \cap Y = {}
  PROVE  /\ IsFiniteSet(A \cup Y) /\ Cardinality(A) \in Nat /\ Cardinality(Y) \in Nat
         /\ Cardinality(A \cup Y) = Cardinality(A) + Cardinality(Y)
<1>1. Cardinality(A) \in Nat /\ Cardinality(Y) \in Nat /\ Cardinality({}) = 0
  BY FS_CardinalityType, FS_EmptySet
<1>2. /\ IsFiniteSet(A \cup Y)
      /\ Cardinality(A \cup Y) = Cardinality(A) + Cardinality(Y) - Cardinality(A \cap Y)
  BY FS_Union
<1>3. Cardinality(A \cap Y) = 0
  BY <1>1, Zenon
<1> QED
  BY <1>1, <1>2, <1>3

(* What one stretch adds and what the next one adds.                        *)
LEMMA GrownOn ==
  ASSUME NEW q \in AnyRuns, NEW I, NEW J,
         NEW s \in BoardStates, NEW t, NEW u, Grown(q, I, s, t), Grown(q, J, t, u)
  PROVE  Grown(q, I \cup J, s, u)
<1> PICK A : A = t.existing \ s.existing
  OBVIOUS
<1> PICK Y : Y = u.existing \ t.existing
  OBVIOUS
<1>1. /\ t \in BoardStates /\ t.status = s.status /\ s.existing \subseteq t.existing
      /\ A \subseteq I \ q.refused /\ IsFiniteSet(A)
      /\ t.added = s.added + Cardinality(A)
      /\ (s.added <= B!MaxAdd => t.added <= B!MaxAdd)
      /\ (t.added < B!MaxAdd => I \ q.refused \subseteq t.existing)
  BY DEF Grown
<1>2. /\ u \in BoardStates /\ u.status = t.status /\ t.existing \subseteq u.existing
      /\ Y \subseteq J \ q.refused /\ IsFiniteSet(Y)
      /\ u.added = t.added + Cardinality(Y)
      /\ (t.added <= B!MaxAdd => u.added <= B!MaxAdd)
      /\ (u.added < B!MaxAdd => J \ q.refused \subseteq u.existing)
  BY DEF Grown
<1>3. u.existing \ s.existing = A \cup Y /\ A \cap Y = {}
  BY <1>1, <1>2
<1>4. IsFiniteSet(A \cup Y) /\ Cardinality(A \cup Y) = Cardinality(A) + Cardinality(Y)
  BY <1>1, <1>2, <1>3, Disjoint
<1>5. Cardinality(A) \in Nat /\ Cardinality(Y) \in Nat /\ s.added \in Nat
  BY <1>1, <1>2, FS_CardinalityType DEF BoardStates
<1>6. u.added = s.added + Cardinality(A \cup Y)
  BY <1>1, <1>2, <1>4, <1>5
<1>7. u.added < B!MaxAdd => t.added < B!MaxAdd
  BY <1>1, <1>2, <1>5 DEF B!MaxAdd
<1> QED
  BY <1>1, <1>2, <1>3, <1>4, <1>6, <1>7 DEF Grown

(* One item.                                                                *)
LEMMA ItemAdded ==
  ASSUME NEW q \in AnyRuns, NEW i \in B!Items, NEW s \in BoardStates
  PROVE  Grown(q, {i}, s, B!add_item(q, s, i))
<1> PICK t : t = B!add_item(q, s, i)
  OBVIOUS
<1>0. s.added \in Nat /\ s.failed \in Nat /\ s.existing \in SUBSET B!Items /\ B!MaxAdd = 2
  BY DEF BoardStates, B!MaxAdd
<1>1. CASE i \in s.existing \/ s.added >= B!MaxAdd
  <2>1. t = s
    BY <1>0, <1>1 DEF B!add_item
  <2>2. t.existing \ s.existing = {} /\ IsFiniteSet({}) /\ Cardinality({}) = 0
    BY <2>1, FS_EmptySet
  <2> QED
    BY <1>0, <1>1, <2>1, <2>2 DEF Grown
<1>2. CASE i \notin s.existing /\ s.added < B!MaxAdd /\ i \in q.refused
  <2>1. t = [s EXCEPT !.failed = @ + 1]
    BY <1>0, <1>2 DEF B!add_item
  <2>2. t \in BoardStates /\ t.existing = s.existing /\ t.added = s.added /\ t.status = s.status
    BY <1>0, <2>1 DEF BoardStates
  <2>3. t.existing \ s.existing = {} /\ IsFiniteSet({}) /\ Cardinality({}) = 0
    BY <2>2, FS_EmptySet
  <2> QED
    BY <1>0, <1>2, <2>2, <2>3, SMTT(30) DEF Grown
<1>3. CASE i \notin s.existing /\ s.added < B!MaxAdd /\ i \notin q.refused
  <2>1. t = [s EXCEPT !.existing = @ \cup {i}, !.added = @ + 1]
    BY <1>0, <1>3 DEF B!add_item
  <2>2. /\ t \in BoardStates /\ t.existing = s.existing \cup {i} /\ t.added = s.added + 1
        /\ t.status = s.status
    <3>1. s.existing \cup {i} \in SUBSET B!Items /\ s.added + 1 \in Nat
      BY <1>0
    <3> PICK e : e = s.existing \cup {i}
      OBVIOUS
    <3> PICK a : a = s.added + 1
      OBVIOUS
    <3>2. t = [s EXCEPT !.existing = e, !.added = a]
      BY <2>1
    <3> QED
      BY <3>1, <3>2 DEF BoardStates
  <2>3. t.existing \ s.existing = {i} /\ IsFiniteSet({i}) /\ Cardinality({i}) = 1
    BY <1>3, <2>2, FS_Singleton
  <2> QED
    BY <1>0, <1>3, <2>2, <2>3, SMTT(30) DEF Grown
<1> QED
  BY <1>0, <1>1, <1>2, <1>3

(* One repository.                                                          *)
LEMMA RepoSynced ==
  ASSUME NEW q \in AnyRuns, NEW r \in {1, 2}, NEW s \in BoardStates
  PROVE  LET items == IF r \in q.unlisted THEN {}
                      ELSE {q.open[r][n] : n \in DOMAIN q.open[r]}
         IN  Grown(q, items, s, B!sync_repo(q, s, r))
<1> PICK o : o = q.open[r]
  OBVIOUS
<1>0. o \in Seq(B!Items) /\ Len(o) \in Nat /\ DOMAIN o = 1..Len(o)
  BY DEF AnyRuns
<1>1. s.added \in Nat /\ s.failed \in Nat /\ s.existing \in SUBSET B!Items /\ B!MaxAdd = 2
  BY DEF BoardStates, B!MaxAdd
<1>2. ASSUME NEW t \in BoardStates, t.existing = s.existing, t.added = s.added, t.status = s.status
      PROVE  Grown(q, {}, s, t)
  <2>1. t.existing \ s.existing = {} /\ IsFiniteSet({}) /\ Cardinality({}) = 0
    BY <1>2, FS_EmptySet
  <2> QED
    BY <1>1, <1>2, <2>1 DEF Grown
<1>3. CASE r \in q.unlisted
  <2>1. B!sync_repo(q, s, r) = [s EXCEPT !.failed = @ + 1]
    BY <1>3 DEF B!sync_repo
  <2> QED
    BY <1>1, <1>2, <1>3, <2>1 DEF BoardStates
<1>4. CASE r \notin q.unlisted
  <2> DEFINE after[n \in 0..Len(o)] == IF n = 0 THEN s ELSE B!add_item(q, after[n - 1], o[n])
             step == [p \in (1..Len(o)) \X BoardStates |-> B!add_item(q, p[2], o[p[1]])]
  <2>1. step \in [(1..Len(o)) \X BoardStates -> BoardStates]
    <3>1. ASSUME NEW p \in (1..Len(o)) \X BoardStates
          PROVE  B!add_item(q, p[2], o[p[1]]) \in BoardStates
      <4>1. p[2] \in BoardStates /\ o[p[1]] \in B!Items
        BY <1>0
      <4> QED
        BY <4>1, ItemAdded DEF Grown
    <3> QED
      BY <3>1
  <2>2. PICK g \in [0..Len(o) -> BoardStates] : Walk(g, step, s, Len(o))
    <3> HIDE DEF step
    <3> QED
      BY <1>0, <2>1, Walks
  <2>3. \A n \in 1..Len(o) : g[n] = B!add_item(q, g[n - 1], o[n])
    <3> TAKE n \in 1..Len(o)
    <3>1. n - 1 \in 0..Len(o)
      BY <1>0
    <3>2. <<n, g[n - 1]>> \in (1..Len(o)) \X BoardStates
      BY <3>1
    <3>3. step[<<n, g[n - 1]>>] = B!add_item(q, g[n - 1], o[n])
      BY <3>2
    <3> QED
      BY <2>2, <3>3 DEF Walk
  <2>4. g = [n \in 0..Len(o) |-> IF n = 0 THEN s ELSE B!add_item(q, g[n - 1], o[n])]
    <3>1. \A n \in 0..Len(o) : n # 0 => n \in 1..Len(o)
      BY <1>0
    <3> QED
      BY <2>2, <2>3, <3>1 DEF Walk
  <2>5. after = [n \in 0..Len(o) |-> IF n = 0 THEN s ELSE B!add_item(q, after[n - 1], o[n])]
    <3> HIDE DEF step
    <3> QED
      BY <2>4
  <2>6. B!sync_repo(q, s, r) = after[Len(o)]
    BY <1>4 DEF B!sync_repo
  <2> HIDE DEF after, step
  <2>7. after[0] = s /\ \A n \in 1..Len(o) : after[n] = B!add_item(q, after[n - 1], o[n])
    BY <1>0, <2>5, SMTT(30)
  <2> DEFINE Good(n) == Grown(q, {o[k] : k \in 1..n}, s, after[n])
             Bad == {n \in Nat : n <= Len(o) /\ ~Good(n)}
  <2>8. ASSUME Bad # {} PROVE FALSE
    <3>1. PICK n \in Bad : \A m \in Bad : n <= m
      <4> Bad \subseteq Nat
        OBVIOUS
      <4> HIDE DEF Bad
      <4> QED
        BY <2>8, LeastOf
    <3>2. n \in Nat /\ n <= Len(o) /\ ~Good(n)
      OBVIOUS
    <3>3. n # 0
      <4>1. {o[k] : k \in 1..0} = {}
        OBVIOUS
      <4>2. Grown(q, {}, s, s)
        BY <1>2
      <4>3. Good(0)
        BY <2>7, <4>1, <4>2
      <4> QED
        BY <3>2, <4>3
    <3>4. n - 1 \in Nat /\ n - 1 <= Len(o) /\ n - 1 \notin Bad /\ n \in 1..Len(o)
      <4> HIDE DEF Bad
      <4> QED
        BY <1>0, <3>1, <3>2, <3>3
    <3>5. Grown(q, {o[k] : k \in 1..n - 1}, s, after[n - 1])
      BY <3>4
    <3>6. Grown(q, {o[n]}, after[n - 1], after[n])
      <4>1. after[n - 1] \in BoardStates /\ o[n] \in B!Items
        BY <1>0, <3>4, <3>5 DEF Grown
      <4> QED
        BY <2>7, <3>4, <4>1, ItemAdded
    <3>7. {o[k] : k \in 1..n - 1} \cup {o[n]} = {o[k] : k \in 1..n}
      <4>1. \A k : k \in 1..n <=> (k \in 1..n - 1 \/ k = n)
        BY <3>2, <3>3
      <4> QED
        BY <4>1
    <3>8. Grown(q, {o[k] : k \in 1..n - 1} \cup {o[n]}, s, after[n])
      <4> PICK I : I = {o[k] : k \in 1..n - 1}
        OBVIOUS
      <4>1. Grown(q, I, s, after[n - 1])
        BY <3>5
      <4> QED
        BY <3>6, <4>1, GrownOn
    <3> QED
      BY <3>2, <3>7, <3>8
  <2>9. Good(Len(o))
    <3>1. Len(o) \in Nat /\ Len(o) <= Len(o) /\ Len(o) \notin Bad
      <4> HIDE DEF Bad
      <4> QED
        BY <1>0, <2>8
    <3> HIDE DEF Good
    <3> QED
      BY <3>1
  <2> QED
    BY <1>0, <1>4, <2>6, <2>9
<1> QED
  BY <1>3, <1>4

ListedIn(q, r) == IF r \in q.unlisted THEN {} ELSE {q.open[r][n] : n \in DOMAIN q.open[r]}

(* One run over both repositories, on a board that may be written.          *)
LEMMA RunSynced ==
  ASSUME NEW q \in AnyRuns, q.board = "on"
  PROVE  \E s \in BoardStates : /\ s.existing = q.existing /\ s.added = 0 /\ s.status = "success"
                                /\ Grown(q, B!Listed(q), s, B!execute(q))
<1> PICK s : s = [B!None EXCEPT !.existing = q.existing]
  OBVIOUS
<1>1. /\ s \in BoardStates /\ s.existing = q.existing /\ s.added = 0 /\ s.status = "success"
  BY DEF B!None, BoardStates, AnyRuns
<1> DEFINE next(t, r) == IF t.added >= B!MaxAdd THEN t ELSE B!sync_repo(q, t, r)
<1>2. B!execute(q) = next(next(s, 1), 2)
  BY DEF B!execute
<1>3. ASSUME NEW t \in BoardStates, NEW r \in {1, 2}
      PROVE  Grown(q, ListedIn(q, r), t, next(t, r))
  <2>1. CASE t.added >= B!MaxAdd
    <3>1. next(t, r) = t
      BY <2>1
    <3>2. t.existing \ t.existing = {} /\ IsFiniteSet({}) /\ Cardinality({}) = 0
      BY FS_EmptySet
    <3>3. t.added \in Nat
      BY DEF BoardStates
    <3> HIDE DEF next
    <3> QED
      BY <2>1, <3>1, <3>2, <3>3 DEF Grown, B!MaxAdd
  <2>2. CASE ~(t.added >= B!MaxAdd)
    BY <2>2, RepoSynced DEF ListedIn
  <2> QED
    BY <2>1, <2>2
<1> HIDE DEF next
<1>4. Grown(q, ListedIn(q, 1), s, next(s, 1)) /\ next(s, 1) \in BoardStates
  BY <1>1, <1>3 DEF Grown
<1>5. Grown(q, ListedIn(q, 2), next(s, 1), B!execute(q))
  BY <1>2, <1>3, <1>4
<1>6. Grown(q, ListedIn(q, 1) \cup ListedIn(q, 2), s, B!execute(q))
  <2> PICK t : t = next(s, 1)
    OBVIOUS
  <2> PICK I : I = ListedIn(q, 1)
    OBVIOUS
  <2> PICK J : J = ListedIn(q, 2)
    OBVIOUS
  <2>1. Grown(q, I, s, t) /\ Grown(q, J, t, B!execute(q))
    BY <1>4, <1>5
  <2>2. Grown(q, I \cup J, s, B!execute(q))
    BY <1>1, <2>1, GrownOn
  <2> QED
    BY <2>2
<1>7. ListedIn(q, 1) \cup ListedIn(q, 2) = B!Listed(q)
  BY DEF ListedIn, B!Listed
<1> QED
  BY <1>1, <1>6, <1>7

(* One run of the board: whatever is open, what is not refused goes on it   *)
(* once, within the limit, and what the limit leaves out on the next day.   *)
THEOREM BoardsAreSynced ==
  \A q \in AnyRuns : B!SyncedRightly(q, B!execute(q))
<1> SUFFICES ASSUME NEW q \in AnyRuns PROVE B!SyncedRightly(q, B!execute(q))
  OBVIOUS
<1> PICK s : s = B!execute(q)
  OBVIOUS
<1> PICK added : added = s.existing \ q.existing
  OBVIOUS
<1>0. \A A : B!Cardinality(A) = Cardinality(A)
  BY DEF B!Cardinality, Cardinality
<1>1. CASE q.board # "on"
  <2>1. /\ s.existing = q.existing /\ s.added = 0
        /\ s.status = IF q.board = "off" THEN "success" ELSE "error"
    BY <1>1 DEF B!execute, B!None, AnyRuns, B!Board
  <2>2. added = {} /\ Cardinality({}) = 0 /\ (s.status = "error" <=> q.board = "no scope")
    BY <1>1, <2>1, FS_EmptySet DEF AnyRuns, B!Board
  <2>3. s.added = B!Cardinality(added) /\ s.added <= B!MaxAdd
    <3>1. B!Cardinality(added) = 0
      BY <1>0, <2>2
    <3> QED
      BY <2>1, <3>1 DEF B!MaxAdd
  <2> QED
    BY <1>1, <2>1, <2>2, <2>3 DEF B!SyncedRightly
<1>2. CASE q.board = "on"
  <2>1. /\ q.existing \subseteq s.existing /\ added \subseteq B!Listed(q) \ q.refused
        /\ s.added = Cardinality(added) /\ s.added <= B!MaxAdd /\ s.status = "success"
        /\ s.added < B!MaxAdd => B!Listed(q) \ q.refused \subseteq s.existing
        /\ s.existing \in SUBSET B!Items /\ IsFiniteSet(added) /\ s.added \in Nat
    <3>1. PICK t \in BoardStates : /\ t.existing = q.existing /\ t.added = 0 /\ t.status = "success"
                                   /\ Grown(q, B!Listed(q), t, s)
      BY <1>2, RunSynced
    <3>2. Cardinality(added) \in Nat
      BY <3>1, FS_CardinalityType DEF Grown
    <3> QED
      BY <3>1, <3>2 DEF Grown, BoardStates, B!MaxAdd
  <2> PICK n : n = [q EXCEPT !.existing = s.existing]
    OBVIOUS
  <2> PICK u : u = B!execute(n)
    OBVIOUS
  <2>2. /\ n \in AnyRuns /\ n.board = "on" /\ n.existing = s.existing /\ n.refused = q.refused
        /\ n.open = q.open /\ n.unlisted = q.unlisted
    BY <1>2, <2>1 DEF AnyRuns
  <2>3. B!Listed(n) = B!Listed(q)
    BY <2>2 DEF B!Listed
  <2>4. /\ s.existing \subseteq u.existing /\ IsFiniteSet(u.existing \ s.existing)
        /\ u.added = Cardinality(u.existing \ s.existing)
        /\ u.added < B!MaxAdd => B!Listed(q) \ q.refused \subseteq u.existing
        /\ u.existing \in SUBSET B!Items
    <3>1. PICK t \in BoardStates : /\ t.existing = n.existing /\ t.added = 0 /\ t.status = "success"
                                   /\ Grown(n, B!Listed(n), t, u)
      BY <2>2, RunSynced
    <3>2. Cardinality(u.existing \ s.existing) \in Nat
      BY <2>2, <3>1, FS_CardinalityType DEF Grown
    <3> QED
      BY <2>2, <2>3, <3>1, <3>2 DEF Grown, BoardStates
  <2>5. B!Listed(q) \ q.refused \subseteq u.existing
    <3>1. CASE s.added < B!MaxAdd
      BY <2>1, <2>4, <3>1
    <3>2. CASE ~(s.added < B!MaxAdd)
      <4> PICK Z : Z = u.existing \ s.existing
        OBVIOUS
      <4>1. Cardinality(added) = 2
        BY <2>1, <3>2 DEF B!MaxAdd
      <4>2. /\ IsFiniteSet(added \cup Z) /\ added \cap Z = {}
            /\ Cardinality(added \cup Z) = Cardinality(added) + Cardinality(Z)
        <5>1. added \cap Z = {} /\ IsFiniteSet(added) /\ IsFiniteSet(Z)
          BY <2>1, <2>4
        <5> QED
          BY <5>1, Disjoint
      <4>3. IsFiniteSet(B!Items) /\ Cardinality(B!Items) = 3
        <5> PICK F : F = {"i1"}
          OBVIOUS
        <5> PICK G : G = {"i2"}
          OBVIOUS
        <5> PICK H : H = {"i3"}
          OBVIOUS
        <5>1. /\ IsFiniteSet(F) /\ Cardinality(F) = 1 /\ IsFiniteSet(G) /\ Cardinality(G) = 1
              /\ IsFiniteSet(H) /\ Cardinality(H) = 1
          BY FS_Singleton
        <5>2. F \cap G = {} /\ (F \cup G) \cap H = {}
          OBVIOUS
        <5>3. IsFiniteSet(F \cup G) /\ Cardinality(F \cup G) = 2
          BY <5>1, <5>2, Disjoint
        <5>4. IsFiniteSet((F \cup G) \cup H) /\ Cardinality((F \cup G) \cup H) = 3
          <6> PICK E : E = F \cup G
            OBVIOUS
          <6>1. E \cap H = {} /\ IsFiniteSet(E) /\ Cardinality(E) = 2
            BY <5>2, <5>3
          <6>2. /\ IsFiniteSet(E \cup H)
                /\ Cardinality(E \cup H) = Cardinality(E) + Cardinality(H)
            BY <5>1, <6>1, Disjoint
          <6> QED
            BY <5>1, <6>1, <6>2
        <5>5. B!Items = (F \cup G) \cup H
          BY DEF B!Items
        <5> QED
          BY <5>4, <5>5
      <4>4. Cardinality(added \cup Z) <= 3
        <5>1. added \cup Z \subseteq B!Items
          BY <2>1, <2>4
        <5> QED
          BY <4>3, <5>1, FS_Subset
      <4>5. Cardinality(Z) \in Nat
        BY <2>4, FS_CardinalityType
      <4>6. u.added < B!MaxAdd
        BY <2>4, <4>1, <4>2, <4>4, <4>5 DEF B!MaxAdd
      <4> QED
        BY <2>4, <4>6
    <3> QED
      BY <3>1, <3>2
  <2>6. s.added = B!Cardinality(added)
    BY <1>0, <2>1
  <2> QED
    BY <1>2, <2>1, <2>5, <2>6 DEF B!SyncedRightly
<1> QED
  BY <1>1, <1>2

(* The runs that are asked about are among those.                           *)
LEMMA RunsAreAny == B!Runs \subseteq AnyRuns
<1>1. {<<>>, <<"i1">>, <<"i1", "i2">>, <<"i2", "i3">>, <<"i1", "i2", "i3">>} \subseteq Seq(B!Items)
  <2>1. "i1" \in B!Items /\ "i2" \in B!Items /\ "i3" \in B!Items
    BY DEF B!Items
  <2>2. <<>> \in Seq(B!Items) /\ <<"i1">> \in Seq(B!Items) /\ <<"i1", "i2">> \in Seq(B!Items)
    BY <2>1
  <2>3. <<"i2", "i3">> \in Seq(B!Items)
    BY <2>1
  <2>4. <<"i1", "i2", "i3">> \in Seq(B!Items)
    BY <2>1
  <2> QED
    BY <2>2, <2>3, <2>4
<1>2. \A q \in B!Runs : q.open \in [1..2 -> Seq(B!Items)]
  BY <1>1 DEF B!Runs
<1> QED
  BY <1>2 DEF B!Runs, AnyRuns

-----------------------------------------------------------------------------
(* codescan/scanners/                                                       *)
(* The members of a set of numbers below a number, and its first m.         *)
Below(A, i) == {k \in A : k < i}
FirstFew(A, m) == {i \in A : Cardinality(Below(A, i)) < m}

(* The first m are m, as long as there are so many.                         *)
LEMMA FewAreFirst ==
  ASSUME NEW A \in SUBSET Nat, IsFiniteSet(A), NEW m \in Nat
  PROVE  /\ Cardinality(A) <= m => FirstFew(A, m) = A
         /\ \A i \in A \ FirstFew(A, m) : Cardinality(Below(FirstFew(A, m), i)) = m
<1> PICK value : value = [x \in A |-> 0]
  OBVIOUS
<1> PICK number : number = [x \in A |-> x]
  OBVIOUS
<1>1. NumberedApart(A, value, number)
  BY DEF NumberedApart
<1>2. PICK f : ListOf(A, value, number, f)
  BY <1>1, Listed
<1> PICK n : n = Cardinality(A)
  OBVIOUS
<1>3. n \in Nat
  BY FS_CardinalityType
<1>4. /\ \A i \in 1..n : f[i] \in A
      /\ \A i, j \in 1..n : i < j => f[i] < f[j]
      /\ \A x \in A : \E i \in 1..n : f[i] = x
  <2>1. f \in [1..n -> A] /\ \A i, j \in 1..n : i < j => Before(value, number, f[i], f[j])
    BY <1>2 DEF ListOf
  <2>2. \A x, y \in A : Before(value, number, x, y) => x < y
    BY DEF Before
  <2>3. \A x \in A : \E i \in DOMAIN f : f[i] = x
    BY <1>1, <1>2, Listed
  <2> QED
    BY <2>1, <2>2, <2>3
<1>5. \A i, j \in 1..n : f[i] < f[j] <=> i < j
  <2>1. \A i \in 1..n : f[i] \in Nat
    BY <1>4
  <2> QED
    BY <1>3, <1>4, <2>1
<1>6. ASSUME NEW k \in Nat, k <= n
      PROVE  Cardinality(Picture(f, 1..k)) = k
  <2>1. IsFiniteSet(1..k) /\ Cardinality(1..k) = k
    BY UpTo
  <2>2. \A i, j \in 1..k : f[i] = f[j] => i = j
    <3>1. \A i \in 1..k : i \in 1..n /\ f[i] \in Nat
      <4>1. \A i \in 1..k : i \in 1..n
        BY <1>3, <1>6
      <4>2. \A x \in A : x \in Nat
        OBVIOUS
      <4> QED
        BY <1>4, <4>1, <4>2
    <3>2. \A i, j \in 1..k : i < j => f[i] < f[j]
      BY <1>5, <3>1
    <3> QED
      BY <3>1, <3>2
  <2>3. OneToOne(f, 1..k)
    BY <2>2 DEF OneToOne
  <2> PICK T : T = 1..k
    OBVIOUS
  <2>4. IsFiniteSet(T) /\ OneToOne(f, T) /\ Cardinality(T) = k
    BY <2>1, <2>3
  <2> QED
    BY <2>4, Pictures
<1>7. ASSUME NEW j \in 1..n PROVE Cardinality(Below(A, f[j])) = j - 1
  <2>1. j - 1 \in Nat /\ j - 1 <= n
    BY <1>3
  <2>2. Below(A, f[j]) = Picture(f, 1..j - 1)
    <3>1. ASSUME NEW x \in Below(A, f[j]) PROVE x \in Picture(f, 1..j - 1)
      <4>1. x \in A /\ x < f[j]
        BY DEF Below
      <4>2. PICK i \in 1..n : f[i] = x
        BY <1>4, <4>1
      <4>3. i \in 1..j - 1
        BY <1>3, <1>5, <4>1, <4>2
      <4> QED
        BY <4>2, <4>3 DEF Picture
    <3>2. ASSUME NEW i \in 1..j - 1 PROVE f[i] \in Below(A, f[j])
      <4>1. i \in 1..n /\ i < j
        BY <1>3
      <4> QED
        BY <1>4, <1>5, <4>1 DEF Below
    <3> QED
      BY <3>1, <3>2 DEF Picture
  <2> QED
    BY <1>6, <2>1, <2>2
<1>8. \A j \in 1..n : f[j] \in FirstFew(A, m) <=> j <= m
  <2> TAKE j \in 1..n
  <2>1. f[j] \in A /\ Cardinality(Below(A, f[j])) = j - 1
    BY <1>4, <1>7
  <2> QED
    BY <1>3, <2>1 DEF FirstFew
<1>9. Cardinality(A) <= m => FirstFew(A, m) = A
  <2> SUFFICES ASSUME n <= m, NEW x \in A PROVE x \in FirstFew(A, m)
    BY DEF FirstFew
  <2>1. PICK j \in 1..n : f[j] = x
    BY <1>4
  <2> QED
    BY <1>3, <1>8, <2>1
<1>10. ASSUME NEW x \in A \ FirstFew(A, m)
       PROVE  Cardinality(Below(FirstFew(A, m), x)) = m
  <2>1. PICK j \in 1..n : f[j] = x
    BY <1>4
  <2>2. j > m
    BY <1>3, <1>8, <2>1
  <2>3. Below(FirstFew(A, m), x) = Picture(f, 1..m)
    <3>1. ASSUME NEW y \in Below(FirstFew(A, m), x) PROVE y \in Picture(f, 1..m)
      <4>1. y \in A /\ y \in FirstFew(A, m)
        BY DEF Below, FirstFew
      <4>2. PICK i \in 1..n : f[i] = y
        BY <1>4, <4>1
      <4>3. i \in 1..m
        BY <1>8, <4>1, <4>2
      <4> QED
        BY <4>2, <4>3 DEF Picture
    <3>2. ASSUME NEW i \in 1..m PROVE f[i] \in Below(FirstFew(A, m), x)
      <4>1. i \in 1..n /\ i < j
        BY <1>3, <2>2
      <4> QED
        BY <1>5, <1>8, <2>1, <4>1 DEF Below
    <3> QED
      BY <3>1, <3>2 DEF Picture
  <2> QED
    BY <1>3, <1>6, <2>2, <2>3
<1> QED
  BY <1>9, <1>10

-----------------------------------------------------------------------------
(* Any number of files.                                                     *)
AnyTools == [ends : [N!Binaries -> N!Ends], files : Seq(N!File), remark : N!Remark]

(* A record tells which tool it is of.                                      *)
LEMMA RecordsTold ==
  ASSUME NEW q
  PROVE  /\ \A tool, severity, at : /\ N!Record(tool, severity, at).tool = tool
                                    /\ N!Record(tool, severity, at).at = at
         /\ \A x \in N!semgrep(q) : x.tool = "semgrep"
         /\ \A x \in N!gitleaks(q) : x.tool = "gitleaks"
         /\ \A x \in N!zizmor(q) : x.tool = "zizmor"
         /\ \A x \in N!iac(q) : x.tool = "iac" /\ x.at \in N!iac_read(q)
<1>1. \A tool, severity, at : /\ N!Record(tool, severity, at).tool = tool
                              /\ N!Record(tool, severity, at).at = at
  BY DEF N!Record
<1> QED
  BY <1>1 DEF N!semgrep, N!gitleaks, N!zizmor, N!iac

(* What the tools tell of a repository with any number of files: one that   *)
(* could tell what it found is believed, one that could not is called       *)
(* failed, but for the exceptions named there; and of the configuration     *)
(* the first files are read, up to the limit.                               *)
THEOREM ToolsAreHeard ==
  \A q \in AnyTools : N!ToolsHeardRightly(q, N!scan_repo(q))
<1> SUFFICES ASSUME NEW q \in AnyTools PROVE N!ToolsHeardRightly(q, N!scan_repo(q))
  OBVIOUS
<1>r. PICK failed : failed = {t \in N!Binaries : N!raises(q, t)}
  OBVIOUS
<1>t. PICK told : told = {x \in N!semgrep(q) \cup N!gitleaks(q) \cup N!zizmor(q) :
                            x.tool \notin failed}
  OBVIOUS
<1>p. PICK records : records = told \cup N!iac(q)
  OBVIOUS
<1>h. PICK heard : heard = {t \in N!Binaries : q.ends[t] \in {"told", "no inputs"}}
  OBVIOUS
<1>0. q.ends \in [N!Binaries -> N!Ends] /\ q.files \in Seq(N!File)
  BY DEF AnyTools
<1>1. N!scan_repo(q) = [failed |-> failed, records |-> records]
  BY <1>r, <1>t, <1>p DEF N!scan_repo
<1>2. failed \cap heard = {}
  BY <1>r, <1>h DEF N!raises
<1>3. (N!Binaries \ heard) \ failed \subseteq {t \in {"semgrep", "gitleaks"} : q.ends[t] = "silent"}
  BY <1>0, <1>r, <1>h DEF N!raises, N!Binaries, N!Ends
<1>4. \A x \in records : \/ x \in N!iac(q) /\ x.tool = "iac" /\ x.at \in N!iac_read(q)
                         \/ /\ x.tool \notin failed /\ x.tool # "iac"
                            /\ x.tool = "zizmor" => x \in N!zizmor(q)
  BY <1>t, <1>p, RecordsTold
<1>5. {x.tool : x \in records} \cap failed = {}
  <2>1. "iac" \notin failed
    BY <1>r DEF N!Binaries
  <2> QED
    BY <1>4, <2>1
<1>6. \A t \in {"semgrep", "gitleaks"} : q.ends[t] = "told" => \E x \in records : x.tool = t
  <2>1. ASSUME q.ends["semgrep"] = "told" PROVE \E x \in records : x.tool = "semgrep"
    <3>1. "semgrep" \notin failed
      BY <1>r, <2>1 DEF N!raises
    <3>2. N!Record("semgrep", "INFO", 1) \in records
      BY <1>t, <1>p, <2>1, <3>1, RecordsTold DEF N!semgrep
    <3> QED
      BY <3>2, RecordsTold
  <2>2. ASSUME q.ends["gitleaks"] = "told" PROVE \E x \in records : x.tool = "gitleaks"
    <3>1. "gitleaks" \notin failed
      BY <1>r, <2>2 DEF N!raises
    <3>2. N!Record("gitleaks", "ERROR", 1) \in records
      BY <1>t, <1>p, <2>2, <3>1, RecordsTold DEF N!gitleaks
    <3> QED
      BY <3>2, RecordsTold
  <2> QED
    BY <2>1, <2>2
<1>7. (\E x \in records : x.tool = "zizmor") => ~q.remark.ignored /\ q.ends["zizmor"] = "told"
  <2> SUFFICES ASSUME NEW x \in records, x.tool = "zizmor"
               PROVE  ~q.remark.ignored /\ q.ends["zizmor"] = "told"
    OBVIOUS
  <2>1. x \in N!zizmor(q)
    BY <1>4
  <2> QED
    BY <2>1 DEF N!zizmor, N!kept
<1>c. PICK configs : configs = {i \in DOMAIN q.files : q.files[i] = "config"}
  OBVIOUS
<1>s. PICK seen : seen = {x.at : x \in {y \in records : y.tool = "iac"}}
  OBVIOUS
<1>8. \A A : N!Cardinality(A) = Cardinality(A)
  BY DEF N!Cardinality, Cardinality
<1>9. seen = FirstFew(configs, N!MaxFiles)
  <2>1. N!iac_read(q) = {i \in configs : N!Cardinality(Below(configs, i)) < N!MaxFiles}
    BY <1>c DEF N!iac_read, Below
  <2>2. N!iac_read(q) = FirstFew(configs, N!MaxFiles)
    BY <1>8, <2>1 DEF FirstFew
  <2>3. ASSUME NEW i \in N!iac_read(q) PROVE i \in seen
    <3>1. N!Record("iac", "WARNING", i) \in records
      BY <1>p DEF N!iac
    <3> QED
      BY <1>s, <3>1, RecordsTold
  <2>4. seen \subseteq N!iac_read(q)
    BY <1>4, <1>s
  <2> QED
    BY <2>2, <2>3, <2>4
<1>10. configs \in SUBSET Nat /\ IsFiniteSet(configs)
  <2>1. PICK f \in Seq(N!File) : f = q.files
    BY <1>0
  <2>2. configs \subseteq 1..Len(f) /\ Len(f) \in Nat
    BY <1>c, <2>1
  <2>3. IsFiniteSet(1..Len(f)) /\ \A i \in 1..Len(f) : i \in Nat
    BY <2>2, UpTo
  <2> QED
    BY <2>2, <2>3, FS_Subset
<1>11. /\ seen \subseteq configs
       /\ N!Cardinality(configs) <= N!MaxFiles => seen = configs
       /\ \A i \in configs \ seen : N!Cardinality({k \in seen : k < i}) = N!MaxFiles
  <2>1. N!MaxFiles \in Nat
    BY DEF N!MaxFiles
  <2>2. /\ Cardinality(configs) <= N!MaxFiles => seen = configs
        /\ \A i \in configs \ seen : Cardinality(Below(seen, i)) = N!MaxFiles
    BY <1>9, <1>10, <2>1, FewAreFirst
  <2>3. seen \subseteq configs
    BY <1>9 DEF FirstFew
  <2>4. \A i : {k \in seen : k < i} = Below(seen, i)
    BY DEF Below
  <2> QED
    BY <1>8, <2>2, <2>3, <2>4
<1> QED
  <2> PICK r : r = N!scan_repo(q)
    OBVIOUS
  <2>1. r.failed = failed /\ r.records = records
    BY <1>1
  <2>2. r.failed \cap {t \in N!Binaries : q.ends[t] \in {"told", "no inputs"}} = {}
    BY <1>2, <1>h, <2>1
  <2>3. (N!Binaries \ {t \in N!Binaries : q.ends[t] \in {"told", "no inputs"}}) \ r.failed
          \subseteq {t \in {"semgrep", "gitleaks"} : q.ends[t] = "silent"}
    BY <1>3, <1>h, <2>1
  <2>4. {x.tool : x \in r.records} \cap r.failed = {}
    BY <1>5, <2>1
  <2>5. \A t \in {"semgrep", "gitleaks"} : q.ends[t] = "told" => \E x \in r.records : x.tool = t
    BY <1>6, <2>1
  <2>6. (\E x \in r.records : x.tool = "zizmor") => ~q.remark.ignored /\ q.ends["zizmor"] = "told"
    BY <1>7, <2>1
  <2>7. {i \in DOMAIN q.files : q.files[i] = "config"} = configs
        /\ {x.at : x \in {y \in r.records : y.tool = "iac"}} = seen
    BY <1>c, <1>s, <2>1
  <2>8. /\ {x.at : x \in {y \in r.records : y.tool = "iac"}} \subseteq
              {i \in DOMAIN q.files : q.files[i] = "config"}
        /\ N!Cardinality({i \in DOMAIN q.files : q.files[i] = "config"}) <= N!MaxFiles =>
              {x.at : x \in {y \in r.records : y.tool = "iac"}}
                = {i \in DOMAIN q.files : q.files[i] = "config"}
        /\ \A i \in {i \in DOMAIN q.files : q.files[i] = "config"}
                    \ {x.at : x \in {y \in r.records : y.tool = "iac"}} :
              N!Cardinality({k \in {x.at : x \in {y \in r.records : y.tool = "iac"}} : k < i})
                = N!MaxFiles
    BY <1>11, <2>7, Zenon
  <2>9. N!ToolsHeardRightly(q, r)
    BY <2>2, <2>3, <2>4, <2>5, <2>6, <2>8, Zenon DEF N!ToolsHeardRightly
  <2> QED
    BY <2>9

(* The trees that are asked about are among those.                          *)
Ended(e, i) == [N!Plain EXCEPT !.ends = e, !.remark.ignored = i]
Remarked(z, f) == [N!Plain EXCEPT !.remark = z, !.files = f]
SomeEnds == {x \in [N!Binaries -> N!Ends] : \A t \in N!Binaries \ {"zizmor"} : x[t] # "no inputs"}
FileLists == UNION {[1..n -> N!File] : n \in 0..3}
YesOrNo == BOOLEAN

(* The trees the runs ask about, by how the tools end.                      *)
LEMMA ToolTrees ==
  N!Trees = {Ended(e, i) : e \in SomeEnds, i \in YesOrNo}
    \cup {Remarked(r, f) : r \in N!Remark, f \in FileLists}
BY SMT DEF N!Trees, Ended, Remarked, SomeEnds, FileLists, YesOrNo

(* They are such trees.                                                     *)
LEMMA ToolsAreAny == N!Trees \subseteq AnyTools
<1> DEFINE E == [N!Binaries -> N!Ends]
           G == Seq(N!File)
<1>1. N!Plain \in [ends : E, files : G, remark : N!Remark]
  <2>1. [t \in N!Binaries |-> "told"] \in E
    BY DEF N!Ends
  <2>2. <<"config">> \in G
    <3>1. "config" \in N!File
      BY DEF N!File
    <3> QED
      BY <3>1
  <2> QED
    BY <2>1, <2>2 DEF N!Plain, N!Remark
<1>2. ASSUME NEW e \in E, NEW i \in BOOLEAN PROVE Ended(e, i) \in AnyTools
  <2> PICK p : p = N!Plain
    OBVIOUS
  <2>1. p.remark \in N!Remark
    BY <1>1
  <2> PICK z : z = [p.remark EXCEPT !.ignored = i]
    OBVIOUS
  <2>2. z \in N!Remark
    BY <2>1 DEF N!Remark
  <2>3. Ended(e, i) = [p EXCEPT !.ends = e, !.remark = z]
    BY <1>1 DEF Ended
  <2> QED
    BY <1>1, <2>2, <2>3 DEF AnyTools
<1>3. ASSUME NEW z \in N!Remark, NEW f \in G PROVE Remarked(z, f) \in AnyTools
  BY <1>1 DEF AnyTools, Remarked
<1>4. \A f \in UNION {[1..n -> N!File] : n \in 0..3} : f \in G
  <2> TAKE f \in UNION {[1..n -> N!File] : n \in 0..3}
  <2>1. PICK n \in 0..3 : f \in [1..n -> N!File]
    OBVIOUS
  <2>2. n \in Nat
    OBVIOUS
  <2> QED
    BY <2>1, <2>2
<1>5. (\A e \in SomeEnds, i \in YesOrNo : Ended(e, i) \in AnyTools)
      /\ \A z \in N!Remark, f \in FileLists : Remarked(z, f) \in AnyTools
  BY <1>2, <1>3, <1>4 DEF SomeEnds, FileLists, YesOrNo
<1> QED
  BY <1>5, ToolTrees

-----------------------------------------------------------------------------
(* external_monitor/targets.py                                              *)
Elements(s) == {s[i] : i \in DOMAIN s}

(* What two lists hold one after the other.                                 *)
LEMMA Appended ==
  ASSUME NEW M, NEW a \in Seq(M), NEW b \in Seq(M)
  PROVE  /\ a \o b \in Seq(M)
         /\ Elements(a \o b) = Elements(a) \cup Elements(b)
         /\ Len(a) \in Nat /\ DOMAIN a = 1..Len(a)
         /\ \A i \in 1..Len(a) : i \in DOMAIN (a \o b) /\ (a \o b)[i] = a[i]
<1> PICK c : c = a \o b
  OBVIOUS
<1>1. /\ c \in Seq(M) /\ DOMAIN a = 1..Len(a) /\ DOMAIN b = 1..Len(b)
      /\ Len(a) \in Nat /\ Len(b) \in Nat /\ DOMAIN c = 1..Len(a) + Len(b)
  OBVIOUS
<1>2. /\ \A i \in 1..Len(a) : i \in DOMAIN c /\ c[i] = a[i]
      /\ \A i \in 1..Len(b) : Len(a) + i \in DOMAIN c /\ c[Len(a) + i] = b[i]
  OBVIOUS
<1>3. ASSUME NEW x \in Elements(c) PROVE x \in Elements(a) \cup Elements(b)
  <2>1. PICK i \in 1..Len(a) + Len(b) : x = c[i]
    BY <1>1 DEF Elements
  <2>2. CASE i <= Len(a)
    <3>1. i \in 1..Len(a)
      BY <1>1, <2>2
    <3> QED
      BY <1>1, <1>2, <2>1, <3>1 DEF Elements
  <2>3. CASE i > Len(a)
    <3> PICK j : j = i - Len(a)
      OBVIOUS
    <3>1. j \in 1..Len(b) /\ i = Len(a) + j
      BY <1>1, <2>3
    <3>2. x = b[j]
      BY <1>2, <2>1, <3>1
    <3> QED
      BY <1>1, <3>1, <3>2 DEF Elements
  <2> QED
    BY <1>1, <2>2, <2>3
<1>4. Elements(a) \subseteq Elements(c)
  BY <1>1, <1>2 DEF Elements
<1>5. Elements(b) \subseteq Elements(c)
  BY <1>1, <1>2, ZenonT(40) DEF Elements
<1>6. Elements(c) = Elements(a) \cup Elements(b)
  BY <1>3, <1>4, <1>5
<1> QED
  BY <1>1, <1>2, <1>6

Sights == [url : {"http", "site", "app", "pages"},
           source : {"homepage", "github_pages", "firebase", "config"}, firebase : BOOLEAN]

(* What is met tells where and whether there is a project.                  *)
LEMMA MetTold ==
  /\ \A url, source, firebase : /\ P!Met(url, source, firebase).url = url
                                /\ P!Met(url, source, firebase).firebase = firebase
  /\ P!Met("app", "firebase", TRUE) \in Sights /\ P!Met("pages", "github_pages", FALSE) \in Sights
  /\ \A u \in {"http", "site", "app"} : P!Met(u, "homepage", FALSE) \in Sights
  /\ P!Met("http", "config", FALSE) \in Sights /\ P!Met("site", "config", FALSE) \in Sights
BY DEF P!Met, Sights

(* A list of one or none.                                                   *)
LEMMA OneOrNothing ==
  ASSUME NEW m \in Sights, NEW b \in BOOLEAN
  PROVE  /\ (IF b THEN <<m>> ELSE <<>>) \in Seq(Sights)
         /\ Elements(IF b THEN <<m>> ELSE <<>>) = IF b THEN {m} ELSE {}
<1>1. Elements(<<>>) = {} /\ Elements(<<m>>) = {m}
  BY DEF Elements
<1>2. CASE b
  BY <1>1, <1>2
<1>3. CASE ~b
  BY <1>1, <1>3
<1> QED
  BY <1>2, <1>3

(* What one repository gives, its homepage first.                           *)
LEMMA OfRepo ==
  ASSUME NEW r \in P!Repo
  PROVE  /\ P!of_repo(r) \in Seq(Sights)
         /\ Elements(P!of_repo(r)) =
              {m \in {P!Met(r.homepage, "homepage", FALSE), P!Met("pages", "github_pages", FALSE),
                      P!Met("app", "firebase", TRUE)} :
                 \/ r.homepage # P!None /\ m = P!Met(r.homepage, "homepage", FALSE)
                 \/ r.has_pages /\ m = P!Met("pages", "github_pages", FALSE)
                 \/ r.project /\ m = P!Met("app", "firebase", TRUE)}
         /\ r.homepage # P!None => /\ 1 \in DOMAIN P!of_repo(r)
                                   /\ P!of_repo(r)[1] = P!Met(r.homepage, "homepage", FALSE)
<1>0. /\ r.homepage \in {P!None, "http", "site", "app"} /\ r.has_pages \in BOOLEAN
      /\ r.project \in BOOLEAN
  BY DEF P!Repo
<1>h. PICK h : h = P!Met(r.homepage, "homepage", FALSE)
  OBVIOUS
<1>p. PICK p : p = P!Met("pages", "github_pages", FALSE)
  OBVIOUS
<1>f. PICK f : f = P!Met("app", "firebase", TRUE)
  OBVIOUS
<1>a. PICK a : a = IF r.homepage = P!None THEN <<>> ELSE <<h>>
  OBVIOUS
<1>b. PICK b : b = IF r.has_pages THEN <<p>> ELSE <<>>
  OBVIOUS
<1>c. PICK c : c = IF r.project THEN <<f>> ELSE <<>>
  OBVIOUS
<1>1. P!of_repo(r) = (a \o b) \o c
  BY <1>h, <1>p, <1>f, <1>a, <1>b, <1>c DEF P!of_repo
<1>2. a \in Seq(Sights) /\ Elements(a) = IF r.homepage # P!None THEN {h} ELSE {}
  <2>1. CASE r.homepage = P!None
    BY <1>a, <2>1 DEF Elements
  <2>2. CASE r.homepage # P!None
    <3>1. h \in Sights /\ a = <<h>>
      BY <1>0, <1>a, <1>h, <2>2, MetTold
    <3> QED
      BY <2>2, <3>1 DEF Elements
  <2> QED
    BY <2>1, <2>2
<1>3. b \in Seq(Sights) /\ Elements(b) = IF r.has_pages THEN {p} ELSE {}
  <2>1. p \in Sights
    BY <1>p, MetTold
  <2> QED
    BY <1>0, <1>b, <2>1, OneOrNothing
<1>4. c \in Seq(Sights) /\ Elements(c) = IF r.project THEN {f} ELSE {}
  <2>1. f \in Sights
    BY <1>f, MetTold
  <2> QED
    BY <1>0, <1>c, <2>1, OneOrNothing
<1>d. PICK d : d = a \o b
  OBVIOUS
<1>5. /\ d \in Seq(Sights) /\ Elements(d) = Elements(a) \cup Elements(b)
      /\ DOMAIN a = 1..Len(a) /\ \A i \in 1..Len(a) : i \in DOMAIN d /\ d[i] = a[i]
  BY <1>2, <1>3, <1>d, Appended
<1>e. PICK e : e = d \o c
  OBVIOUS
<1>6. /\ e \in Seq(Sights) /\ Elements(e) = Elements(d) \cup Elements(c)
      /\ DOMAIN d = 1..Len(d) /\ \A i \in 1..Len(d) : i \in DOMAIN e /\ e[i] = d[i]
  BY <1>4, <1>5, <1>e, Appended
<1>7. P!of_repo(r) = e
  BY <1>1, <1>d, <1>e
<1>8. Elements(e) = {m \in {h, p, f} : \/ r.homepage # P!None /\ m = h
                                       \/ r.has_pages /\ m = p
                                       \/ r.project /\ m = f}
  BY <1>2, <1>3, <1>4, <1>5, <1>6
<1>9. r.homepage # P!None => 1 \in DOMAIN e /\ e[1] = h
  <2> SUFFICES ASSUME r.homepage # P!None PROVE 1 \in DOMAIN e /\ e[1] = h
    OBVIOUS
  <2>1. a = <<h>>
    BY <1>a
  <2>2. 1 \in 1..Len(a) /\ a[1] = h
    BY <2>1
  <2>3. 1 \in 1..Len(d) /\ d[1] = h
    BY <1>5, <1>6, <2>2
  <2> QED
    BY <1>6, <2>3
<1> QED
  BY <1>6, <1>7, <1>8, <1>9, <1>h, <1>p, <1>f

(* What is found where the repository gives it.                             *)
Gives(E, r) ==
    /\ \A m \in E : \/ m.url = r.homepage /\ m.firebase = FALSE /\ r.homepage # P!None
                    \/ m.url = "pages" /\ m.firebase = FALSE /\ r.has_pages
                    \/ m.url = "app" /\ m.firebase = TRUE /\ r.project
    /\ r.homepage # P!None => \E m \in E : m.url = r.homepage
    /\ r.has_pages => \E m \in E : m.url = "pages"
    /\ r.project => \E m \in E : m.url = "app" /\ m.firebase = TRUE

(* A repository gives its homepage, its pages and its project, and nothing  *)
(* else.                                                                    *)
LEMMA RepoGives == \A r \in P!Repo : Gives(Elements(P!of_repo(r)), r)
<1> TAKE r \in P!Repo
<1>h. PICK h : h = P!Met(r.homepage, "homepage", FALSE)
  OBVIOUS
<1>p. PICK p : p = P!Met("pages", "github_pages", FALSE)
  OBVIOUS
<1>f. PICK f : f = P!Met("app", "firebase", TRUE)
  OBVIOUS
<1>1. Elements(P!of_repo(r)) = {m \in {h, p, f} : \/ r.homepage # P!None /\ m = h
                                                  \/ r.has_pages /\ m = p
                                                  \/ r.project /\ m = f}
  BY <1>h, <1>p, <1>f, OfRepo
<1>2. /\ h.url = r.homepage /\ h.firebase = FALSE /\ p.url = "pages" /\ p.firebase = FALSE
      /\ f.url = "app" /\ f.firebase = TRUE
  BY <1>h, <1>p, <1>f DEF P!Met
<1> QED
  BY <1>1, <1>2 DEF Gives

(* The settings give what is configured, and no project.                    *)
LEMMA OfSettings ==
  ASSUME NEW q \in P!Gatherings
  PROVE  /\ P!of_settings(q) \in Seq(Sights)
         /\ Elements(P!of_settings(q)) =
              {P!Met(u, "config", FALSE) : u \in {x \in {"http", "site"} : x \in q.configured}}
<1>h. PICK h : h = P!Met("http", "config", FALSE)
  OBVIOUS
<1>t. PICK t : t = P!Met("site", "config", FALSE)
  OBVIOUS
<1>a. PICK a : a = IF "http" \in q.configured THEN <<h>> ELSE <<>>
  OBVIOUS
<1>b. PICK b : b = IF "site" \in q.configured THEN <<t>> ELSE <<>>
  OBVIOUS
<1>1. P!of_settings(q) = a \o b
  BY <1>h, <1>t, <1>a, <1>b DEF P!of_settings
<1>2. h \in Sights /\ t \in Sights
  BY <1>h, <1>t, MetTold
<1>3. a \in Seq(Sights) /\ Elements(a) = IF "http" \in q.configured THEN {h} ELSE {}
  <2>1. PICK x \in BOOLEAN : x <=> "http" \in q.configured
    OBVIOUS
  <2> QED
    BY <1>2, <1>a, <2>1, OneOrNothing
<1>4. b \in Seq(Sights) /\ Elements(b) = IF "site" \in q.configured THEN {t} ELSE {}
  <2>1. PICK x \in BOOLEAN : x <=> "site" \in q.configured
    OBVIOUS
  <2> QED
    BY <1>2, <1>b, <2>1, OneOrNothing
<1>5. a \o b \in Seq(Sights) /\ Elements(a \o b) = Elements(a) \cup Elements(b)
  BY <1>3, <1>4, Appended
<1>6. Elements(a) \cup Elements(b)
        = {P!Met(u, "config", FALSE) : u \in {x \in {"http", "site"} : x \in q.configured}}
  BY <1>3, <1>4, <1>h, <1>t
<1> QED
  BY <1>1, <1>5, <1>6

(* The first in a list with a url.                                          *)
LEMMA FirstWith ==
  ASSUME NEW s \in Seq(Sights), NEW u, NEW j \in DOMAIN s, s[j].url = u, u # "http"
  PROVE  LET i == P!Min({k \in {l \in DOMAIN s : s[l].url # "http"} : s[k].url = u})
         IN  /\ i \in DOMAIN s /\ s[i].url = u
             /\ \A k \in DOMAIN s : s[k].url = u => i <= k
<1>a. PICK A : A = {k \in {l \in DOMAIN s : s[l].url # "http"} : s[k].url = u}
  OBVIOUS
<1>1. A \subseteq DOMAIN s /\ j \in A /\ \A k \in DOMAIN s : s[k].url = u <=> k \in A
  BY <1>a
<1>2. DOMAIN s = 1..Len(s) /\ Len(s) \in Nat
  OBVIOUS
<1>3. IsFiniteSet(1..Len(s)) /\ 1..Len(s) \subseteq Int
  BY <1>2, UpTo
<1>4. IsFiniteSet(A) /\ A \in SUBSET Int
  BY <1>1, <1>2, <1>3, FS_Subset
<1>5. P!Min(A) \in A /\ \A k \in A : P!Min(A) <= k
  BY <1>1, <1>4, Extremes DEF P!Min
<1>6. P!Min(A) = P!Min({k \in {l \in DOMAIN s : s[l].url # "http"} : s[k].url = u})
  BY <1>a
<1> QED
  BY <1>1, <1>5, <1>6

(* What is gathered from a list of all that is met.                         *)
Gathered(s) == {s[P!Min({k \in {l \in DOMAIN s : s[l].url # "http"} : s[k].url = u})] :
                  u \in {s[i].url : i \in {l \in DOMAIN s : s[l].url # "http"}}}

(* The sites are gathered from any two repositories and the settings: each  *)
(* https site once, and with its project unless a homepage came before.     *)
THEOREM SitesAreGathered ==
  \A q \in P!Gatherings : P!GatheredRightly(q, P!discover_targets(q))
<1> SUFFICES ASSUME NEW q \in P!Gatherings PROVE P!GatheredRightly(q, P!discover_targets(q))
  OBVIOUS
<1>0. /\ q.repos[1] \in P!Repo /\ q.repos[2] \in P!Repo /\ q.configured \in SUBSET {"site", "http"}
  BY DEF P!Gatherings
<1>a. PICK a \in Seq(Sights) : a = P!of_repo(q.repos[1])
  BY <1>0, OfRepo
<1>b. PICK b \in Seq(Sights) : b = P!of_repo(q.repos[2])
  BY <1>0, OfRepo
<1>c. PICK c \in Seq(Sights) : c = P!of_settings(q)
  BY OfSettings
<1>d. PICK d : d = a \o b
  OBVIOUS
<1>1. /\ d \in Seq(Sights) /\ Elements(d) = Elements(a) \cup Elements(b)
      /\ DOMAIN a = 1..Len(a) /\ \A i \in 1..Len(a) : i \in DOMAIN d /\ d[i] = a[i]
  BY <1>d, Appended
<1>s. PICK s : s = d \o c
  OBVIOUS
<1>2. /\ s \in Seq(Sights) /\ Elements(s) = Elements(d) \cup Elements(c)
      /\ DOMAIN d = 1..Len(d) /\ \A i \in 1..Len(d) : i \in DOMAIN s /\ s[i] = d[i]
  BY <1>1, <1>s, Appended
<1>3. \A i \in DOMAIN a : i \in DOMAIN s /\ s[i] = a[i]
  BY <1>1, <1>2
<1>4. Elements(s) = (Elements(a) \cup Elements(b)) \cup Elements(c)
  BY <1>1, <1>2
<1> DEFINE first(u) == P!Min({k \in {l \in DOMAIN s : s[l].url # "http"} : s[k].url = u})
<1>5. ASSUME NEW j \in DOMAIN s, s[j].url # "http"
      PROVE  /\ first(s[j].url) \in DOMAIN s /\ s[first(s[j].url)].url = s[j].url
             /\ \A k \in DOMAIN s : s[k].url = s[j].url => first(s[j].url) <= k
  BY <1>2, <1>5, FirstWith
<1>r. PICK r : r = P!discover_targets(q)
  OBVIOUS
<1>6. r = {s[first(u)] : u \in {s[i].url : i \in {l \in DOMAIN s : s[l].url # "http"}}}
  <2>1. r = Gathered(P!of_repo(q.repos[1]) \o P!of_repo(q.repos[2]) \o P!of_settings(q))
    BY <1>r DEF P!discover_targets, Gathered
  <2>2. P!of_repo(q.repos[1]) \o P!of_repo(q.repos[2]) \o P!of_settings(q) = s
    BY <1>a, <1>b, <1>c, <1>d, <1>s
  <2>3. r = Gathered(s)
    BY <2>1, <2>2, Zenon
  <2> QED
    BY <2>3, Zenon DEF Gathered
<1> HIDE DEF first
<1>7. ASSUME NEW t \in r
      PROVE  /\ t \in Elements(s) /\ t.url # "http" /\ t = s[first(t.url)]
             /\ \A k \in DOMAIN s : s[k].url = t.url => first(t.url) <= k
  <2>1. PICK j \in DOMAIN s : s[j].url # "http" /\ t = s[first(s[j].url)]
    BY <1>6
  <2> QED
    BY <1>5, <2>1 DEF Elements
<1>8. ASSUME NEW j \in DOMAIN s, s[j].url # "http"
      PROVE  s[first(s[j].url)] \in r /\ s[first(s[j].url)].url = s[j].url
  BY <1>5, <1>6, <1>8
<1>9. \A t, v \in r : t.url = v.url => t = v
  BY <1>7
<1>10. Gives(Elements(a), q.repos[1]) /\ Gives(Elements(b), q.repos[2])
  BY <1>0, <1>a, <1>b, RepoGives
<1>11. /\ \A m \in Elements(c) : m.url \in q.configured /\ m.firebase = FALSE
       /\ \A u \in q.configured : \E m \in Elements(c) : m.url = u
  <2>1. Elements(c) = {P!Met(u, "config", FALSE) :
                         u \in {x \in {"http", "site"} : x \in q.configured}}
    BY <1>c, OfSettings
  <2>2. ASSUME NEW u PROVE P!Met(u, "config", FALSE).url = u
                           /\ P!Met(u, "config", FALSE).firebase = FALSE
    BY DEF P!Met
  <2> QED
    BY <1>0, <2>1, <2>2
<1>12. {t.url : t \in r} = {u \in P!Sites :
          \/ \E i \in 1..2 : \/ q.repos[i].homepage = u
                             \/ u = "pages" /\ q.repos[i].has_pages
                             \/ u = "app" /\ q.repos[i].project
          \/ u \in q.configured}
  <2>1. ASSUME NEW m \in Elements(s), m.url # "http" PROVE \E t \in r : t.url = m.url
    BY <1>8, <2>1 DEF Elements
  <2>2. Elements(s) = (Elements(a) \cup Elements(b)) \cup Elements(c)
    BY <1>4
  <2>3. ASSUME NEW u \in P!Sites, \/ \E i \in 1..2 : \/ q.repos[i].homepage = u
                                                     \/ u = "pages" /\ q.repos[i].has_pages
                                                     \/ u = "app" /\ q.repos[i].project
                                  \/ u \in q.configured
        PROVE  \E t \in r : t.url = u
    <3>0. u # "http" /\ u # P!None
      BY DEF P!Sites, P!None
    <3>1. \E m \in Elements(s) : m.url = u
      <4>1. CASE u \in q.configured
        BY <1>11, <2>2, <4>1
      <4>2. CASE \E i \in 1..2 : \/ q.repos[i].homepage = u
                                 \/ u = "pages" /\ q.repos[i].has_pages
                                 \/ u = "app" /\ q.repos[i].project
        <5>1. PICK i \in 1..2 : \/ q.repos[i].homepage = u
                                \/ u = "pages" /\ q.repos[i].has_pages
                                \/ u = "app" /\ q.repos[i].project
          BY <4>2
        <5>2. CASE i = 1
          <6>1. \E m \in Elements(a) : m.url = u
            BY <1>10, <3>0, <5>1, <5>2 DEF Gives
          <6> QED
            BY <2>2, <6>1
        <5>3. CASE i = 2
          <6>1. \E m \in Elements(b) : m.url = u
            BY <1>10, <3>0, <5>1, <5>3 DEF Gives
          <6> QED
            BY <2>2, <6>1
        <5> QED
          BY <5>2, <5>3
      <4> QED
        BY <2>3, <4>1, <4>2
    <3> QED
      BY <2>1, <3>0, <3>1
  <2>4. ASSUME NEW t \in r
        PROVE  /\ t.url \in P!Sites
               /\ \/ \E i \in 1..2 : \/ q.repos[i].homepage = t.url
                                     \/ t.url = "pages" /\ q.repos[i].has_pages
                                     \/ t.url = "app" /\ q.repos[i].project
                  \/ t.url \in q.configured
    <3>1. t \in Elements(s) /\ t.url # "http"
      BY <1>7
    <3>2. t.url \in {"site", "app", "pages"}
      <4>1. t \in Sights
        BY <1>2, <3>1 DEF Elements
      <4> QED
        BY <3>1, <4>1 DEF Sights
    <3>3. CASE t \in Elements(c)
      BY <1>11, <3>2, <3>3 DEF P!Sites
    <3>4. CASE t \in Elements(a)
      <4>1. \/ q.repos[1].homepage = t.url
            \/ t.url = "pages" /\ q.repos[1].has_pages
            \/ t.url = "app" /\ q.repos[1].project
        BY <1>10, <3>4 DEF Gives
      <4> QED
        BY <3>2, <4>1 DEF P!Sites
    <3>5. CASE t \in Elements(b)
      <4>1. \/ q.repos[2].homepage = t.url
            \/ t.url = "pages" /\ q.repos[2].has_pages
            \/ t.url = "app" /\ q.repos[2].project
        BY <1>10, <3>5 DEF Gives
      <4> QED
        BY <3>2, <4>1 DEF P!Sites
    <3> QED
      BY <2>2, <3>1, <3>3, <3>4, <3>5
  <2> QED
    BY <2>3, <2>4
<1>13. q.repos[1].project /\ q.repos[1].homepage # "app" => \E t \in r : t.firebase
  <2> SUFFICES ASSUME q.repos[1].project, q.repos[1].homepage # "app"
               PROVE  \E t \in r : t.firebase
    OBVIOUS
  <2>1. /\ \A m \in Elements(a) : m.url = "app" => m.firebase = TRUE
        /\ \E m \in Elements(a) : m.url = "app"
    BY <1>10 DEF Gives
  <2>2. PICK j \in DOMAIN a : a[j].url = "app"
    BY <2>1 DEF Elements
  <2>3. j \in DOMAIN s /\ s[j].url = "app" /\ s[j].url # "http"
    BY <1>3, <2>2
  <2>4. /\ first("app") \in DOMAIN s /\ s[first("app")].url = "app" /\ first("app") <= j
        /\ s[first("app")] \in r
    BY <1>5, <1>8, <2>3
  <2>5. first("app") \in DOMAIN a
    <3>1. DOMAIN s = 1..Len(s) /\ Len(s) \in Nat /\ DOMAIN a = 1..Len(a) /\ Len(a) \in Nat
      BY <1>2
    <3> QED
      BY <2>4, <3>1
  <2>6. s[first("app")] \in Elements(a)
    BY <1>3, <2>5 DEF Elements
  <2> QED
    BY <2>1, <2>4, <2>6
<1>14. q.repos[1].homepage = "app" => ~\E t \in r : t.firebase
  <2> SUFFICES ASSUME q.repos[1].homepage = "app", NEW t \in r PROVE t.firebase = FALSE
    OBVIOUS
  <2>1. 1 \in DOMAIN a /\ a[1] = P!Met("app", "homepage", FALSE)
    BY <1>0, <1>a, OfRepo DEF P!None
  <2>2. 1 \in DOMAIN s /\ s[1].url = "app" /\ s[1].firebase = FALSE
    BY <1>3, <2>1 DEF P!Met
  <2>3. CASE t.url = "app"
    <3>1. first("app") <= 1 /\ first("app") \in DOMAIN s /\ t = s[first("app")]
      BY <1>5, <1>7, <2>2, <2>3
    <3>2. DOMAIN s = 1..Len(s) /\ Len(s) \in Nat
      BY <1>2
    <3>3. first("app") = 1
      BY <3>1, <3>2
    <3> QED
      BY <2>2, <3>1, <3>3
  <2>4. CASE t.url # "app"
    <3>2. t \in (Elements(a) \cup Elements(b)) \cup Elements(c)
      BY <1>4, <1>7
    <3> QED
      BY <1>10, <1>11, <2>4, <3>2 DEF Gives
  <2> QED
    BY <2>3, <2>4
<1> QED
  BY <1>9, <1>12, <1>13, <1>14, <1>r DEF P!GatheredRightly

-----------------------------------------------------------------------------
(* The lists, the statistics and the export                                 *)
(* Any rows at any times, as many as two pages of any length hold.          *)
StoredRows == [repo : L!Repos, resolved : BOOLEAN, excepted : BOOLEAN, at : Int]

AnyAsked == [rows : SUBSET (Nat \X StoredRows), by : {"key", "session", "none"},
             repo : L!Repos \cup {L!Any}, resolved : {"yes", "no", L!Any},
             operating : {"active", "inactive", L!Any}, excepted : BOOLEAN,
             per_page : Nat \ {0}]

AnyLists == {q \in AnyAsked : IsFiniteSet(q.rows) /\ Cardinality(q.rows) <= 2 * q.per_page}

(* The sizes and sums of the lists are those of the lemmas.                 *)
LEMMA CountedInLists ==
  /\ \A A : L!Cardinality(A) = Cardinality(A)
  /\ \A f : L!SumFunction(f) = SumFunctionOnSet(f, DOMAIN f)
<1>1. \A A : L!Cardinality(A) = Cardinality(A)
  BY DEF L!Cardinality, Cardinality
<1>2. \A f : L!SumFunction(f) = SumFunctionOnSet(f, DOMAIN f)
  BY DEF L!SumFunction, L!SumFunctionOnSet, SumFunctionOnSet, L!FoldFunctionOnSet,
         FoldFunctionOnSet, L!MapThenFoldSet, MapThenFoldSet
<1> QED
  BY <1>1, <1>2

(* A row and those of its time stand together, behind the newer ones.       *)
LEMMA RowsStand ==
  ASSUME NEW rows \in SUBSET (Nat \X StoredRows), IsFiniteSet(rows), NEW r \in rows
  PROVE  /\ L!before(rows, r) \in Nat /\ L!tied(rows, r) \in Nat \ {0}
         /\ L!before(rows, r) + L!tied(rows, r) <= Cardinality(rows)
<1>a. PICK A : A = {x \in rows : x[2].at > r[2].at}
  OBVIOUS
<1>b. PICK Y : Y = {x \in rows : x[2].at = r[2].at}
  OBVIOUS
<1>1. L!before(rows, r) = Cardinality(A) /\ L!tied(rows, r) = Cardinality(Y)
  BY <1>a, <1>b, CountedInLists DEF L!before, L!tied
<1>2. A \in SUBSET rows /\ Y \in SUBSET rows /\ r \in Y /\ A \cap Y = {}
  <2>1. \A x \in rows : x[2].at \in Int
    BY DEF StoredRows
  <2> QED
    BY <2>1, <1>a, <1>b
<1>3. IsFiniteSet(A) /\ IsFiniteSet(Y)
  BY <1>2, FS_Subset
<1>4. /\ Cardinality(A) \in Nat /\ Cardinality(Y) \in Nat
      /\ Cardinality(A \cup Y) = Cardinality(A) + Cardinality(Y)
  BY <1>2, <1>3, Disjoint
<1>5. Cardinality(Y) # 0
  BY <1>2, <1>3, FS_EmptySet
<1>6. Cardinality(A \cup Y) <= Cardinality(rows)
  BY <1>2, FS_Subset
<1> QED
  BY <1>1, <1>4, <1>5, <1>6

(* What two pages show of the rows.                                         *)
Paged(rows, first, second, n) ==
    /\ first.sure \in SUBSET rows /\ first.maybe \in SUBSET rows
    /\ second.sure \in SUBSET rows /\ second.maybe \in SUBSET rows
    /\ first.maybe \cup second.maybe = rows
    /\ first.sure \cap second.maybe = {} /\ second.sure \cap first.maybe = {}
    /\ \A x \in rows : L!tied(rows, x) = 1 => x \in first.sure \cup second.sure
    /\ (Cardinality(rows) <= n => first.sure = rows)

(* Two pages hold the rows, if there are not more than two pages of them.   *)
LEMMA PagesHold ==
  ASSUME NEW rows \in SUBSET (Nat \X StoredRows), IsFiniteSet(rows), NEW n \in Nat \ {0},
         Cardinality(rows) <= 2 * n
  PROVE  Paged(rows, L!paginate(rows, 1, n), L!paginate(rows, 2, n), n)
<1> DEFINE b(r) == L!before(rows, r)
           t(r) == L!tied(rows, r)
           span(r) == b(r) + 1 .. b(r) + t(r)
<1>f. PICK first : first = L!paginate(rows, 1, n)
  OBVIOUS
<1>s. PICK second : second = L!paginate(rows, 2, n)
  OBVIOUS
<1>1. Cardinality(rows) \in Nat
  BY FS_CardinalityType
<1>2. \A r \in rows : b(r) \in Nat /\ t(r) \in Nat \ {0} /\ b(r) + t(r) <= Cardinality(rows)
  BY RowsStand
<1> DEFINE one == 1..n
           two == n + 1..2 * n
<1>3. /\ first.sure = {r \in rows : span(r) \subseteq one}
      /\ first.maybe = {r \in rows : span(r) \cap one # {}}
  <2>1. (1 - 1) * n + 1 = 1 /\ 1 * n = n
    OBVIOUS
  <2>2. first = [sure |-> {r \in rows : span(r) \subseteq (1 - 1) * n + 1 .. 1 * n},
                 maybe |-> {r \in rows : span(r) \cap ((1 - 1) * n + 1 .. 1 * n) # {}}]
    BY <1>f, Zenon DEF L!paginate
  <2> QED
    BY <2>1, <2>2, Zenon
<1>4. /\ second.sure = {r \in rows : span(r) \subseteq two}
      /\ second.maybe = {r \in rows : span(r) \cap two # {}}
  <2>1. (2 - 1) * n + 1 = n + 1
    OBVIOUS
  <2>2. second = [sure |-> {r \in rows : span(r) \subseteq (2 - 1) * n + 1 .. 2 * n},
                  maybe |-> {r \in rows : span(r) \cap ((2 - 1) * n + 1 .. 2 * n) # {}}]
    BY <1>s, Zenon DEF L!paginate
  <2> QED
    BY <2>1, <2>2, Zenon
<1> HIDE DEF b, t
<1>5. \A r \in rows : /\ b(r) + 1 \in span(r) /\ b(r) + 1 \in one \cup two
                      /\ (t(r) = 1 => span(r) = {b(r) + 1})
                      /\ (Cardinality(rows) <= n => span(r) \subseteq one)
  BY <1>1, <1>2
<1>6. one \cap two = {}
  OBVIOUS
<1>7. /\ first.maybe \cup second.maybe = rows
      /\ first.sure \cap second.maybe = {} /\ second.sure \cap first.maybe = {}
      /\ \A x \in rows : t(x) = 1 => x \in first.sure \cup second.sure
      /\ (Cardinality(rows) <= n => first.sure = rows)
  <2> HIDE DEF span, one, two
  <2> QED
    BY <1>3, <1>4, <1>5, <1>6
<1> QED
  BY <1>3, <1>4, <1>7, <1>f, <1>s, Zenon DEF Paged, t

(* The question that asks for what is due, and the one that asks for the    *)
(* excepted as well.                                                        *)
DueOf(q, e) == [q EXCEPT !.repo = L!Any, !.resolved = "no", !.excepted = e]

(* It asks of the same rows for the same reader.                            *)
LEMMA DueAsked ==
  ASSUME NEW q \in AnyLists, NEW e \in BOOLEAN
  PROVE  /\ DueOf(q, e).rows = q.rows /\ DueOf(q, e).by = q.by /\ DueOf(q, e).repo = L!Any
         /\ DueOf(q, e).resolved = "no" /\ DueOf(q, e).operating = q.operating
         /\ DueOf(q, e).excepted = e
BY DEF DueOf, AnyLists, AnyAsked

(* What is listed as due is what the statistics are made of.                *)
LEMMA DueListed ==
  ASSUME NEW q \in AnyLists
  PROVE  /\ L!matching(DueOf(q, TRUE)) = L!open_rows(q)
         /\ L!matching(DueOf(q, FALSE)) = L!not_excepted(L!open_rows(q))
<1>a. PICK owner : owner = L!require_api_key_or_session(q)
  OBVIOUS
<1>1. ASSUME NEW e \in BOOLEAN
      PROVE  L!matching(DueOf(q, e))
               = IF e THEN L!open_rows(q) ELSE L!not_excepted(L!open_rows(q))
  <2>d. PICK d : d = DueOf(q, e)
    OBVIOUS
  <2>1. /\ d.rows = q.rows /\ d.by = q.by /\ d.repo = L!Any
        /\ d.resolved = "no" /\ d.operating = q.operating /\ d.excepted = e
    BY <2>d, DueAsked
  <2>2. L!require_api_key_or_session(d) = owner
    BY <2>1, <1>a DEF L!require_api_key_or_session
  <2>3. L!restrict_to_owner({r \in d.rows : d.repo = L!Any \/ r[2].repo = d.repo}, owner)
          = {r \in q.rows : owner = L!Any \/ L!Owner[r[2].repo] = owner}
    BY <2>1 DEF L!restrict_to_owner
  <2>4. \A rows : {r \in rows : d.resolved # L!Any => (r[2].resolved <=> d.resolved = "yes")}
                   = {r \in rows : ~r[2].resolved}
    BY <2>1 DEF L!Any
  <2>5. L!apply_operating_status(
            {r \in q.rows : owner = L!Any \/ L!Owner[r[2].repo] = owner}, q.operating)
          = {r \in q.rows : /\ owner = L!Any \/ L!Owner[r[2].repo] = owner
                            /\ q.operating # L!Any =>
                                 (r[2].repo \in L!Inactive <=> q.operating = "inactive")}
    BY DEF L!apply_operating_status
  <2>6. L!open_rows(q) = {r \in q.rows : /\ owner = L!Any \/ L!Owner[r[2].repo] = owner
                                         /\ q.operating # L!Any =>
                                             (r[2].repo \in L!Inactive <=> q.operating = "inactive")
                                         /\ ~r[2].resolved}
    BY <1>a DEF L!open_rows, L!restrict_to_owner, L!apply_operating_status
  <2>7. L!matching(d) = IF e THEN L!open_rows(q) ELSE L!not_excepted(L!open_rows(q))
    <3>s. PICK s : s = {r \in L!apply_operating_status(
                               L!restrict_to_owner(
                                 {r \in d.rows : d.repo = L!Any \/ r[2].repo = d.repo},
                                 L!require_api_key_or_session(d)), d.operating) :
                         d.resolved # L!Any => (r[2].resolved <=> d.resolved = "yes")}
      OBVIOUS
    <3>1. L!matching(d) = IF d.excepted THEN s ELSE L!not_excepted(s)
      BY <3>s DEF L!matching
    <3>2. s = {r \in L!apply_operating_status(
                        {r \in q.rows : owner = L!Any \/ L!Owner[r[2].repo] = owner}, q.operating) :
                 ~r[2].resolved}
      BY <3>s, <2>1, <2>2, <2>3, <2>4
    <3>3. s = L!open_rows(q)
      BY <3>2, <2>5, <2>6
    <3> QED
      BY <3>1, <3>3, <2>1
  <2> QED
    BY <2>d, <2>7
<1>2. L!matching(DueOf(q, TRUE)) = L!open_rows(q)
  BY <1>1
<1>3. L!matching(DueOf(q, FALSE)) = L!not_excepted(L!open_rows(q))
  BY <1>1
<1> QED
  BY <1>2, <1>3

(* What is shown is among the rows; to a session, what its user owns.       *)
LEMMA RowsShown ==
  ASSUME NEW q \in AnyLists
  PROVE  /\ L!matching(q) \in SUBSET q.rows /\ L!open_rows(q) \in SUBSET q.rows
         /\ q.by = "session" =>
              /\ \A r \in L!matching(q) : L!Owner[r[2].repo] = "me"
              /\ \A r \in L!open_rows(q) : L!Owner[r[2].repo] = "me"
<1>1. q.by = "session" => L!require_api_key_or_session(q) = "me"
  BY DEF L!require_api_key_or_session
<1>2. "me" # L!Any
  BY DEF L!Any
<1>3. /\ L!matching(q) \in SUBSET q.rows
      /\ q.by = "session" => \A r \in L!matching(q) : L!Owner[r[2].repo] = "me"
  BY <1>1, <1>2 DEF L!matching, L!restrict_to_owner, L!apply_operating_status, L!not_excepted
<1>4. /\ L!open_rows(q) \in SUBSET q.rows
      /\ q.by = "session" => \A r \in L!open_rows(q) : L!Owner[r[2].repo] = "me"
  BY <1>1, <1>2 DEF L!open_rows, L!restrict_to_owner, L!apply_operating_status
<1> QED
  BY <1>3, <1>4

(* The repositories' numbers add up to the rows.                            *)
LEMMA CountedByRepo ==
  ASSUME NEW q \in AnyLists, NEW rows \in SUBSET q.rows
  PROVE  /\ DOMAIN L!counted(rows) = {r[2].repo : r \in rows}
         /\ L!SumFunction(L!counted(rows)) = Cardinality(rows)
<1>1. PICK keys : keys = {r[2].repo : r \in rows}
  OBVIOUS
<1>2. PICK key : key = [r \in rows |-> r[2].repo]
  OBVIOUS
<1>3. PICK h : h = [k \in keys |-> Cardinality({r \in rows : r[2].repo = k})]
  OBVIOUS
<1>4. L!counted(rows) = h
  BY <1>1, <1>3, CountedInLists DEF L!counted
<1>5. IsFiniteSet(rows)
  BY FS_Subset DEF AnyLists
<1>6. IsFiniteSet(keys)
  <2>1. keys = Picture(key, rows)
    BY <1>1, <1>2 DEF Picture
  <2> QED
    BY <2>1, <1>5, Pictures
<1>7. CountsKeys(rows, key, keys, h)
  <2>1. \A k \in keys : {r \in rows : key[r] = k} = {r \in rows : r[2].repo = k}
    BY <1>2
  <2>2. \A k \in keys : h[k] = Cardinality({r \in rows : r[2].repo = k})
    BY <1>3
  <2>3. \A r \in rows : key[r] \in keys
    BY <1>1, <1>2
  <2> QED
    BY <2>1, <2>2, <2>3, Zenon DEF CountsKeys
<1>8. SumFunctionOnSet(h, keys) = Cardinality(rows)
  BY <1>5, <1>6, <1>7, CountedByKey
<1>9. DOMAIN h = keys
  BY <1>3
<1> QED
  BY <1>1, <1>4, <1>8, <1>9, CountedInLists

(* What is listed and counted for a question that may be asked.             *)
LEMMA ListsShown ==
  ASSUME NEW q \in AnyLists, ~L!forbidden(q)
  PROVE  LET r == L!read(q) IN
         /\ r.shown = TRUE /\ r.total = Cardinality(L!matching(q))
         /\ r.pages = L!pages(q) /\ r.stats = L!stats(q) /\ r.export = L!export(q)
<1>1. L!read(q) = [shown |-> TRUE, total |-> L!Cardinality(L!matching(q)), pages |-> L!pages(q),
                   stats |-> L!stats(q), export |-> L!export(q)]
  BY DEF L!read
<1> QED
  BY <1>1, CountedInLists

(* Nothing is shown to who may not ask.                                     *)
LEMMA NothingShown ==
  ASSUME NEW q \in AnyLists, L!forbidden(q)
  PROVE  LET r == L!read(q) IN r.shown = FALSE /\ r.pages = <<>> /\ r.export = {}
BY DEF L!read

(* Who is not known may ask nothing; API_KEY may ask anything; a session    *)
(* names its own repositories.                                              *)
LEMMA MayAsk ==
  ASSUME NEW q \in AnyLists
  PROVE  /\ (q.by = "none" => L!forbidden(q)) /\ (q.by = "key" => ~L!forbidden(q))
         /\ (q.by = "session" /\ ~L!forbidden(q) => q.repo = L!Any \/ L!Owner[q.repo] = "me")
         /\ \A e \in BOOLEAN : ~L!forbidden(q) => ~L!forbidden(DueOf(q, e))
         /\ q.by \in {"key", "session", "none"}
<1>1. q.by \in {"key", "session", "none"}
  BY DEF AnyLists, AnyAsked
<1>2. /\ (q.by = "none" => L!forbidden(q)) /\ (q.by = "key" => ~L!forbidden(q))
      /\ (q.by = "session" /\ ~L!forbidden(q) => q.repo = L!Any \/ L!Owner[q.repo] = "me")
  BY <1>1 DEF L!forbidden, L!require_api_key_or_session, L!Forbidden, L!Any
<1>3. ASSUME NEW e \in BOOLEAN, ~L!forbidden(q) PROVE ~L!forbidden(DueOf(q, e))
  <2>1. DueOf(q, e).by = q.by /\ DueOf(q, e).repo = L!Any
    BY DueAsked
  <2> QED
    BY <1>3, <2>1 DEF L!forbidden, L!require_api_key_or_session
<1> QED
  BY <1>1, <1>2, <1>3

(* The questions for what is due have rows as few.                          *)
LEMMA DueIsAsked ==
  ASSUME NEW q \in AnyLists, NEW e \in BOOLEAN
  PROVE  DueOf(q, e) \in AnyLists
<1>1. DueOf(q, e) \in AnyAsked /\ DueOf(q, e).rows = q.rows /\ DueOf(q, e).per_page = q.per_page
  BY DEF DueOf, AnyLists, AnyAsked
<1> QED
  BY <1>1 DEF AnyLists

(* The statistics are the total of the list of what is due, the sum over    *)
(* its repositories, and with the excepted the total of both.               *)
LEMMA StatsAgree ==
  ASSUME NEW q \in AnyLists
  PROVE  /\ L!stats(q).total = Cardinality(L!matching(DueOf(q, FALSE)))
         /\ L!stats(q).total = L!SumFunction(L!stats(q).repos)
         /\ L!stats(q).total + L!stats(q).excepted_total
              = Cardinality(L!matching(DueOf(q, TRUE)))
         /\ DOMAIN L!stats(q).repos = {r[2].repo : r \in L!not_excepted(L!open_rows(q))}
<1>a. PICK all : all = L!open_rows(q)
  OBVIOUS
<1>d. PICK due : due = L!not_excepted(all)
  OBVIOUS
<1>1. L!stats(q) = [total |-> L!Cardinality(due), repos |-> L!counted(due),
                    excepted_total |-> L!Cardinality(all) - L!Cardinality(due)]
  BY <1>a, <1>d, Zenon DEF L!stats
<1>2. /\ L!stats(q).total = Cardinality(due) /\ L!stats(q).repos = L!counted(due)
      /\ L!stats(q).excepted_total = Cardinality(all) - Cardinality(due)
  BY <1>1, CountedInLists
<1>3. all \in SUBSET q.rows /\ due \in SUBSET q.rows
  BY <1>a, <1>d, RowsShown DEF L!not_excepted
<1>4. Cardinality(all) \in Nat /\ Cardinality(due) \in Nat
  BY <1>3, FS_Subset, FS_CardinalityType DEF AnyLists
<1>5. /\ DOMAIN L!counted(due) = {r[2].repo : r \in due}
      /\ L!SumFunction(L!counted(due)) = Cardinality(due)
  BY <1>3, CountedByRepo
<1>6. L!matching(DueOf(q, TRUE)) = all /\ L!matching(DueOf(q, FALSE)) = due
  BY <1>a, <1>d, DueListed
<1>7. L!stats(q).total + L!stats(q).excepted_total = Cardinality(all)
  BY <1>2, <1>4
<1>8. L!not_excepted(L!open_rows(q)) = due
  BY <1>a, <1>d
<1> QED
  BY <1>2, <1>5, <1>6, <1>7, <1>8, Zenon

(* Whatever rows are stored, at whatever times, and whoever asks: a session *)
(* is shown its own rows in every view, the statistics are those of the     *)
(* list of what is due, and two pages together show every row, each row     *)
(* that shares its time with no other on one of them.                       *)
THEOREM ReadersAreShownTheirOwn == \A q \in AnyLists : L!ReadRightly(q, L!read(q))
<1> TAKE q \in AnyLists
<1>r. PICK r : r = L!read(q)
  OBVIOUS
<1>0. q.by \in {"key", "session", "none"} /\ q.rows \in SUBSET (Nat \X StoredRows)
  BY DEF AnyLists, AnyAsked
<1>1. ASSUME L!forbidden(q) PROVE L!ReadRightly(q, r)
  <2>1. r.shown = FALSE /\ r.pages = <<>> /\ r.export = {} /\ q.by # "key"
    BY <1>1, <1>r, NothingShown, MayAsk
  <2>2. UNION ({r.pages[i].maybe : i \in DOMAIN r.pages} \cup {{x.row : x \in r.export}}) = {}
    <3>1. DOMAIN r.pages = {}
      BY <2>1
    <3>2. {r.pages[i].maybe : i \in DOMAIN r.pages} = {} /\ {x.row : x \in r.export} = {}
      BY <2>1, <3>1
    <3> QED
      BY <3>2
  <2> QED
    BY <2>1, <2>2 DEF L!ReadRightly
<1>2. ASSUME ~L!forbidden(q) PROVE L!ReadRightly(q, r)
  <2>1. /\ r.shown = TRUE /\ r.total = Cardinality(L!matching(q))
        /\ r.pages = L!pages(q) /\ r.stats = L!stats(q) /\ r.export = L!export(q)
    BY <1>2, <1>r, ListsShown
  <2>p. PICK p : p = r.pages
    OBVIOUS
  <2>m. PICK rows : rows = L!matching(q)
    OBVIOUS
  <2>2. /\ rows \in SUBSET q.rows /\ IsFiniteSet(rows) /\ q.per_page \in Nat \ {0}
        /\ Cardinality(rows) <= 2 * q.per_page
    <3>1. /\ rows \in SUBSET q.rows /\ IsFiniteSet(q.rows) /\ q.per_page \in Nat \ {0}
          /\ Cardinality(q.rows) <= 2 * q.per_page
      BY <2>m, RowsShown DEF AnyLists, AnyAsked
    <3>2. IsFiniteSet(rows) /\ Cardinality(rows) <= Cardinality(q.rows)
      BY <3>1, FS_Subset
    <3>3. Cardinality(rows) \in Nat /\ Cardinality(q.rows) \in Nat
      BY <3>1, <3>2, FS_CardinalityType
    <3> QED
      BY <3>1, <3>2, <3>3
  <2>3. /\ DOMAIN p = 1..2 /\ p[1] = L!paginate(rows, 1, q.per_page)
        /\ p[2] = L!paginate(rows, 2, q.per_page)
    <3>1. p = [i \in 1..2 |-> L!paginate(rows, i, q.per_page)]
      BY <2>1, <2>p, <2>m DEF L!pages
    <3> QED
      BY <3>1
  <2>4. Paged(rows, p[1], p[2], q.per_page)
    <3>1. rows \in SUBSET (Nat \X StoredRows)
      BY <1>0, <2>2
    <3> QED
      BY <2>2, <2>3, <3>1, PagesHold
  <2>s. PICK seen : seen = UNION ({p[i].maybe : i \in DOMAIN p} \cup {{x.row : x \in r.export}})
    OBVIOUS
  <2>5. q.by = "session" => \A x \in seen : L!Owner[x[2].repo] = "me"
    <3> SUFFICES ASSUME q.by = "session", NEW x \in seen PROVE L!Owner[x[2].repo] = "me"
      OBVIOUS
    <3>1. x \in p[1].maybe \/ x \in p[2].maybe \/ \E y \in r.export : x = y.row
      <4>1. \E A \in {p[i].maybe : i \in DOMAIN p} \cup {{y.row : y \in r.export}} : x \in A
        BY <2>s
      <4>2. {p[i].maybe : i \in DOMAIN p} = {p[1].maybe, p[2].maybe}
        <5>1. DOMAIN p = {1, 2}
          BY <2>3
        <5> QED
          BY <5>1
      <4> QED
        BY <4>1, <4>2
    <3>2. CASE x \in p[1].maybe \/ x \in p[2].maybe
      BY <3>2, <2>4, <2>m, RowsShown DEF Paged
    <3>3. CASE \E y \in r.export : x = y.row
      <4>1. PICK y \in L!export(q) : x = y.row
        BY <2>1, <3>3
      <4>2. PICK z \in q.rows : z[2].repo = q.repo /\ y = [row |-> z, analysis |-> z[2].excepted]
        BY <4>1 DEF L!export
      <4>3. x = z /\ x[2].repo = q.repo
        BY <4>1, <4>2
      <4>4. q.repo # L!Any
        <5>1. z[2].repo \in L!Repos
          BY <1>0, <4>2 DEF StoredRows
        <5>2. L!Any \notin L!Repos
          BY DEF L!Repos, L!Owner, L!Any
        <5> QED
          BY <4>2, <5>1, <5>2
      <4> QED
        BY <1>2, <4>3, <4>4, MayAsk
    <3> QED
      BY <3>1, <3>2, <3>3
  <2>6. q.by = "session" => DOMAIN r.stats.repos \subseteq {"mine", "stopped"}
    <3> SUFFICES ASSUME q.by = "session", NEW repo \in DOMAIN r.stats.repos
                 PROVE  repo \in {"mine", "stopped"}
      OBVIOUS
    <3>1. PICK x \in L!open_rows(q) : repo = x[2].repo
      BY <2>1, StatsAgree DEF L!not_excepted
    <3>2. L!Owner[repo] = "me" /\ x \in q.rows
      BY <3>1, RowsShown
    <3>3. repo \in L!Repos
      BY <1>0, <3>1, <3>2 DEF StoredRows
    <3> QED
      BY <3>2, <3>3 DEF L!Repos, L!Owner
  <2>7. /\ r.stats.total = L!read(DueOf(q, FALSE)).total
        /\ r.stats.total = L!SumFunction(r.stats.repos)
        /\ r.stats.total + r.stats.excepted_total = L!read(DueOf(q, TRUE)).total
    <3>1. \A e \in BOOLEAN : L!read(DueOf(q, e)).total = Cardinality(L!matching(DueOf(q, e)))
      BY <1>2, DueIsAsked, MayAsk, ListsShown
    <3>2. /\ L!read(DueOf(q, FALSE)).total = Cardinality(L!matching(DueOf(q, FALSE)))
          /\ L!read(DueOf(q, TRUE)).total = Cardinality(L!matching(DueOf(q, TRUE)))
      BY <3>1
    <3> QED
      BY <2>1, <3>2, StatsAgree
  <2>8. [DueOf(q, FALSE) EXCEPT !.excepted = TRUE] = DueOf(q, TRUE)
    BY DEF DueOf, AnyLists, AnyAsked
  <2>9. /\ p[1].maybe \cup p[2].maybe = L!matching(q)
        /\ p[1].sure \cap p[2].maybe = {} /\ p[2].sure \cap p[1].maybe = {}
        /\ \A x \in L!matching(q) :
             L!tied(L!matching(q), x) = 1 => x \in p[1].sure \cup p[2].sure
        /\ (r.total <= q.per_page => p[1].sure = L!matching(q))
    BY <2>1, <2>4, <2>m, Zenon DEF Paged
  <2>10. q.by # "none"
    BY <1>2, MayAsk
  <2>d. PICK due : due = [q EXCEPT !.repo = L!Any, !.resolved = "no", !.excepted = FALSE]
    OBVIOUS
  <2>11. /\ r.stats.total = L!read(due).total
         /\ r.stats.total = L!SumFunction(r.stats.repos)
         /\ r.stats.total + r.stats.excepted_total
              = L!read([due EXCEPT !.excepted = TRUE]).total
    <3>1. due = DueOf(q, FALSE)
      BY <2>d, Zenon DEF DueOf
    <3> QED
      BY <2>7, <2>8, <3>1
  <2>12. /\ q.by = "none" => ~r.shown
         /\ q.by = "session" => \A x \in seen : L!Owner[x[2].repo] = "me"
         /\ q.by = "session" /\ r.shown => DOMAIN r.stats.repos \subseteq {"mine", "stopped"}
         /\ q.by = "key" => r.shown
         /\ r.shown =>
              /\ r.stats.total = L!read(due).total
              /\ r.stats.total = L!SumFunction(r.stats.repos)
              /\ r.stats.total + r.stats.excepted_total
                   = L!read([due EXCEPT !.excepted = TRUE]).total
              /\ p[1].maybe \cup p[2].maybe = L!matching(q)
              /\ p[1].sure \cap p[2].maybe = {} /\ p[2].sure \cap p[1].maybe = {}
              /\ \A x \in L!matching(q) :
                   L!tied(L!matching(q), x) = 1 => x \in p[1].sure \cup p[2].sure
              /\ r.total <= q.per_page => p[1].sure = L!matching(q)
    BY <2>1, <2>5, <2>6, <2>9, <2>10, <2>11, Zenon
  <2>13. L!ReadRightly(q, r)
    BY <2>12, <2>p, <2>s, <2>d, Zenon DEF L!ReadRightly
  <2> QED
    BY <2>13
<1> QED
  BY <1>1, <1>2, <1>r

-----------------------------------------------------------------------------
(* depsops/router.py                                                        *)
(* A log of any length.                                                     *)
LogRows == [repo : {"mine", "stopped"}, number : 1..2, action : {"flagged", "merged"}]
AnyLogs == UNION {[1..n -> LogRows] : n \in Nat}

(* The requests of a repository that were flagged and not merged since.     *)
StillOpen(log, repo) ==
    {n \in 1..2 : \E i \in DOMAIN log :
        /\ log[i] = [repo |-> repo, number |-> n, action |-> "flagged"]
        /\ \A j \in DOMAIN log : j > i /\ log[j].repo = repo /\ log[j].number = n =>
              log[j].action = "flagged"}

LastFlagged(log, repo) == {i \in L!latest(log) : log[i].repo = repo /\ log[i].action = "flagged"}

(* Each of them has one last row, and that is flagged.                      *)
LEMMA LastRowsCount ==
  ASSUME NEW log \in AnyLogs, NEW repo \in {"mine", "stopped"}
  PROVE  Cardinality(LastFlagged(log, repo)) = Cardinality(StillOpen(log, repo))
<1>1. PICK n \in Nat : log \in [1..n -> LogRows]
  BY DEF AnyLogs
<1>2. /\ DOMAIN log = 1..n
      /\ \A i \in 1..n : /\ log[i].repo \in {"mine", "stopped"} /\ log[i].number \in 1..2
                         /\ log[i].action \in {"flagged", "merged"}
                         /\ log[i] = [repo |-> log[i].repo, number |-> log[i].number,
                                      action |-> log[i].action]
  BY <1>1 DEF LogRows
<1>3. IsFiniteSet(1..n) /\ 1..n \in SUBSET Int
  BY UpTo
<1>A. PICK A : A = LastFlagged(log, repo)
  OBVIOUS
<1>B. PICK Y : Y = StillOpen(log, repo)
  OBVIOUS
<1>h. PICK h : h = [i \in A |-> log[i].number]
  OBVIOUS
<1>4. \A i \in A : /\ i \in 1..n /\ log[i].repo = repo /\ log[i].action = "flagged"
                   /\ \A j \in 1..n :
                        j > i /\ log[j].repo = repo => log[j].number # log[i].number
  BY <1>A, <1>2 DEF LastFlagged, L!latest
<1>5. \A i \in 1..n : /\ log[i].repo = repo /\ log[i].action = "flagged"
                      /\ \A j \in 1..n :
                           j > i /\ log[j].repo = repo => log[j].number # log[i].number
                      => i \in A
  <2> TAKE i \in 1..n
  <2> SUFFICES ASSUME log[i].repo = repo, log[i].action = "flagged",
                      \A j \in 1..n :
                        j > i /\ log[j].repo = repo => log[j].number # log[i].number
               PROVE  i \in A
    OBVIOUS
  <2> QED
    BY <1>A, <1>2 DEF LastFlagged, L!latest
<1>6. OneToOne(h, A)
  <2>1. ASSUME NEW x \in A, NEW y \in A, log[x].number = log[y].number PROVE x = y
    <3>1. ~(x > y) /\ ~(y > x)
      BY <2>1, <1>4
    <3>2. x \in Int /\ y \in Int
      BY <1>3, <1>4
    <3> QED
      BY <3>1, <3>2
  <2> QED
    BY <2>1, <1>h DEF OneToOne
<1>7. \A x \in A : h[x] \in Y
  <2> TAKE x \in A
  <2>1. /\ x \in 1..n /\ log[x] = [repo |-> repo, number |-> log[x].number, action |-> "flagged"]
        /\ log[x].number \in 1..2
    BY <1>2, <1>4
  <2>2. \A j \in 1..n : j > x /\ log[j].repo = repo /\ log[j].number = log[x].number =>
              log[j].action = "flagged"
    BY <1>4
  <2> QED
    BY <2>1, <2>2, <1>2, <1>B, <1>h DEF StillOpen
<1>8. ASSUME NEW m \in Y PROVE \E x \in A : h[x] = m
  <2>1. PICK i \in 1..n :
          /\ log[i] = [repo |-> repo, number |-> m, action |-> "flagged"]
          /\ \A j \in 1..n : j > i /\ log[j].repo = repo /\ log[j].number = m =>
                log[j].action = "flagged"
    BY <1>2, <1>B DEF StillOpen
  <2>T. PICK T : T = {j \in 1..n : log[j].repo = repo /\ log[j].number = m}
    OBVIOUS
  <2>2. log[i].repo = repo /\ log[i].number = m /\ log[i].action = "flagged"
    BY <2>1
  <2>3. T \in SUBSET Int /\ IsFiniteSet(T) /\ T # {} /\ i \in T
    <3>1. T \in SUBSET (1..n) /\ i \in T
      BY <2>T, <2>2
    <3>2. IsFiniteSet(T)
      BY <3>1, <1>3, FS_Subset
    <3> QED
      BY <3>1, <3>2, <1>3
  <2>4. PICK k \in T : \A y \in T : k >= y
    BY <2>3, Extremes
  <2>5. k \in 1..n /\ log[k].repo = repo /\ log[k].number = m
    BY <2>4, <2>T
  <2>6. log[k].action = "flagged"
    <3>1. k = i \/ k > i
      BY <2>3, <2>4, <2>5
    <3> QED
      BY <3>1, <2>1, <2>2, <2>5
  <2>7. \A j \in 1..n : j > k /\ log[j].repo = repo => log[j].number # log[k].number
    BY <2>4, <2>5, <2>T
  <2>8. k \in A
    BY <1>5, <2>5, <2>6, <2>7
  <2> QED
    BY <2>5, <2>8, <1>h
<1>9. Picture(h, A) = Y
  BY <1>7, <1>8 DEF Picture
<1>10. IsFiniteSet(A)
  <2>1. A \in SUBSET (1..n)
    BY <1>4
  <2> QED
    BY <2>1, <1>3, FS_Subset
<1> QED
  BY <1>6, <1>9, <1>10, <1>A, <1>B, Pictures

(* However long the log, a repository has as many requests open as were     *)
(* flagged and not merged since: the last row of a request alone tells.     *)
THEOREM OpenRequestsAreCounted ==
  \A log \in AnyLogs : L!CountedRightly(log, L!get_depsops_stats(log))
<1> TAKE log \in AnyLogs
<1>r. PICK r : r = L!get_depsops_stats(log)
  OBVIOUS
<1>k. PICK keys : keys = {log[i].repo : i \in {j \in L!latest(log) : log[j].action = "flagged"}}
  OBVIOUS
<1>1. r = [repo \in keys |-> Cardinality(LastFlagged(log, repo))]
  BY <1>r, <1>k, CountedInLists DEF L!get_depsops_stats, LastFlagged
<1>2. ASSUME NEW repo \in {"mine", "stopped"}
      PROVE  (IF repo \in DOMAIN r THEN r[repo] ELSE 0) = Cardinality(StillOpen(log, repo))
  <2>1. CASE repo \in keys
    BY <2>1, <1>1, LastRowsCount
  <2>2. CASE repo \notin keys
    <3>1. LastFlagged(log, repo) = {}
      BY <2>2, <1>k DEF LastFlagged
    <3>2. Cardinality(StillOpen(log, repo)) = 0
      BY <3>1, LastRowsCount, FS_EmptySet
    <3> QED
      BY <1>1, <2>2, <3>2
  <2> QED
    BY <2>1, <2>2
<1>3. L!CountedRightly(log, r)
  <2>1. \A repo \in {"mine", "stopped"} :
          (IF repo \in DOMAIN r THEN r[repo] ELSE 0) = L!Cardinality(StillOpen(log, repo))
    BY <1>2, CountedInLists
  <2> QED
    BY <2>1 DEF L!CountedRightly, StillOpen
<1> QED
  BY <1>3, <1>r

-----------------------------------------------------------------------------
(* The rules together                                                       *)
(* Answers of these statuses, with these headers.                           *)
Told4(status, after, empty, reset) ==
    [status : status, after : after, empty : empty, reset : reset]

(* They grow with what may be told.                                         *)
LEMMA Told4Grows ==
  ASSUME NEW A, NEW Y, NEW C1, NEW D1, A \subseteq Nat, Y \subseteq Int, C1 \subseteq BOOLEAN,
         D1 \subseteq Int
  PROVE  Told4(A, Y, C1, D1) \subseteq [status : Nat, after : Int, empty : BOOLEAN, reset : Int]
BY DEF Told4

(* The calls the runs ask about are calls.                                  *)
LEMMA CallsAreAny == R!Calls \subseteq AnyCalls
<1>A. PICK any : any = [status : Nat, after : Int, empty : BOOLEAN, reset : Int]
  OBVIOUS
<1>s. PICK s1, s2, s3, s4 : s1 = {200} /\ s2 = {0, 404, 503} /\ s3 = {429} /\ s4 = {403}
  OBVIOUS
<1>t. PICK t1, t2, t3 : t1 = {R!None} /\ t2 = {R!None, R!Unparsed, 7} /\ t3 = {R!None, -3, 9}
  OBVIOUS
<1>e. PICK e1, e2 : e1 = {FALSE} /\ e2 = BOOLEAN
  OBVIOUS
<1>0. R!Answer = Told4({200}, {R!None}, {FALSE}, {R!None})
           \cup Told4({0, 404, 503}, {R!None}, {FALSE}, {R!None})
           \cup Told4({429}, {R!None, R!Unparsed, 7}, {FALSE}, {R!None})
           \cup Told4({403}, {R!None, R!Unparsed, 7}, BOOLEAN, {R!None, -3, 9})
  BY DEF R!Answer, Told4
<1>1. R!Answer = Told4(s1, t1, e1, t1) \cup Told4(s2, t1, e1, t1)
           \cup Told4(s3, t2, e1, t1) \cup Told4(s4, t2, e2, t3)
  BY <1>0, <1>s, <1>t, <1>e
<1>2. e1 \subseteq BOOLEAN /\ e2 \subseteq BOOLEAN
  BY <1>e
<1>3. s1 \subseteq Nat /\ s2 \subseteq Nat /\ s3 \subseteq Nat /\ s4 \subseteq Nat
  BY <1>s
<1>4. t1 \subseteq Int /\ t2 \subseteq Int /\ t3 \subseteq Int
  BY <1>t DEF R!None, R!Unparsed
<1>5. R!Answer \subseteq any
  <2>1. Told4(s1, t1, e1, t1) \subseteq any /\ Told4(s2, t1, e1, t1) \subseteq any
    BY <1>2, <1>3, <1>4, <1>A, Told4Grows
  <2>2. Told4(s3, t2, e1, t1) \subseteq any /\ Told4(s4, t2, e2, t3) \subseteq any
    BY <1>2, <1>3, <1>4, <1>A, Told4Grows
  <2> QED
    BY <1>1, <2>1, <2>2
<1>6. {a \in R!Answer : a.empty \/ a.reset = R!None} \subseteq any
  BY <1>5
<1> QED
  BY <1>6, <1>A, Zenon DEF R!Calls, AnyCalls

(* The reports they ask for are reports.                                    *)
LEMMA ReportsAreAny == S!Reports \subseteq AnyReports
<1> SUFFICES ASSUME NEW q \in S!Reports PROVE q \in AnyReports
  OBVIOUS
<1>1. PICK f \in S!Finding, g \in S!Finding, p \in S!Policies, w \in {1} :
        q = [rows |-> {<<1, f>>, <<2, g>>}, policy |-> p, window |-> w]
  BY DEF S!Reports
<1>2. f \in AnyFinding /\ g \in AnyFinding
  BY DEF S!Finding, AnyFinding, S!None, S!Now
<1>3. p \in [CRITICAL : Nat, MEDIUM : Nat, kev : Nat] /\ w \in Nat
  BY DEF S!Policies
<1>r. PICK rows : rows = {<<1, f>>, <<2, g>>}
  OBVIOUS
<1>4. rows \in SUBSET (Nat \X AnyFinding) /\ \A x, y \in rows : x[1] = y[1] => x = y
  BY <1>2, <1>r
<1>5. IsFiniteSet(rows)
  <2>1. IsFiniteSet({}) /\ rows = ({} \cup {<<1, f>>}) \cup {<<2, g>>}
    BY <1>r, FS_EmptySet
  <2> QED
    BY <2>1, FS_AddElement
<1>6. rows \in {s \in SUBSET (Nat \X AnyFinding) :
                  /\ IsFiniteSet(s)
                  /\ \A x, y \in s : x[1] = y[1] => x = y}
  BY <1>4, <1>5
<1> QED
  BY <1>1, <1>3, <1>6, <1>r DEF AnyReports

(* What is answered of each setting,                                        *)
Audits(repo, analysis, alerts, protection, keys, hooks) ==
    [repo : repo, analysis : analysis, alerts : alerts, protection : protection,
     keys : keys, hooks : hooks]

(* They grow with the answers.                                              *)
LEMMA AuditsGrow ==
  ASSUME NEW A1, NEW B1, NEW C1, NEW D1, NEW E1, NEW F1,
         A1 \subseteq {"hidden", "public", "private", "forkable"},
         B1 \subseteq C!Analyses, C1 \subseteq Nat,
         D1 \subseteq {"full", "unchecked", "not protected", "not found", "upgrade", "refused"},
         E1 \subseteq {C!None, "read only", "writable"},
         F1 \subseteq {C!None, "https", "http", "unverified"}
  PROVE  Audits(A1, B1, C1, D1, E1, F1) \subseteq AnyAnswers
BY DEF Audits, AnyAnswers

(* What the runs let GitHub answer of a repository is an answer.            *)
LEMMA AnswersAreAny == C!Answers \subseteq AnyAnswers
<1>r. PICK r1, r2 : /\ r1 = {"hidden", "public", "private", "forkable"}
                    /\ r2 = {"public", "forkable"}
  OBVIOUS
<1>f. PICK f1, f2 : f1 = {C!Absent} /\ f2 = C!Analyses
  OBVIOUS
<1>n. PICK n1, n2 : n1 = {204, 403, 404, 500} /\ n2 = {204, 404}
  OBVIOUS
<1>p. PICK p1, p2 :
        /\ p1 = {"full", "unchecked", "not protected", "not found", "upgrade", "refused"}
        /\ p2 = {"full", "unchecked", "refused"}
  OBVIOUS
<1>k. PICK k1, k2 : k1 = {C!None, "read only", "writable"} /\ k2 = {C!None, "writable"}
  OBVIOUS
<1>h. PICK h1, h2 : /\ h1 = {C!None, "https", "http", "unverified"}
                    /\ h2 = {C!None, "https"}
  OBVIOUS
<1>0. C!Answers = Audits({"hidden", "public", "private", "forkable"}, {C!Absent},
                     {204, 403, 404, 500},
                     {"full", "unchecked", "not protected", "not found", "upgrade", "refused"},
                     {C!None, "read only", "writable"}, {C!None, "https", "http", "unverified"})
             \cup Audits({"public", "forkable"}, C!Analyses, {204, 404},
                         {"full", "unchecked", "refused"}, {C!None, "writable"},
                         {C!None, "https"})
  BY DEF C!Answers, Audits
<1>1. C!Answers = Audits(r1, f1, n1, p1, k1, h1) \cup Audits(r2, f2, n2, p2, k2, h2)
  <2>1. Audits({"hidden", "public", "private", "forkable"}, {C!Absent}, {204, 403, 404, 500},
               {"full", "unchecked", "not protected", "not found", "upgrade", "refused"},
               {C!None, "read only", "writable"}, {C!None, "https", "http", "unverified"})
          = Audits(r1, f1, n1, p1, k1, h1)
    <3>1. Audits({"hidden", "public", "private", "forkable"}, {C!Absent}, {204, 403, 404, 500},
                 {"full", "unchecked", "not protected", "not found", "upgrade", "refused"},
                 {C!None, "read only", "writable"}, {C!None, "https", "http", "unverified"})
            = Audits(r1, f1, n1,
                 {"full", "unchecked", "not protected", "not found", "upgrade", "refused"},
                 {C!None, "read only", "writable"}, {C!None, "https", "http", "unverified"})
      BY <1>r, <1>f, <1>n, ZenonT(40)
    <3>2. Audits(r1, f1, n1,
                 {"full", "unchecked", "not protected", "not found", "upgrade", "refused"},
                 {C!None, "read only", "writable"}, {C!None, "https", "http", "unverified"})
            = Audits(r1, f1, n1, p1, k1, h1)
      BY <1>p, <1>k, <1>h, Zenon
    <3> QED
      BY <3>1, <3>2
  <2>2. Audits({"public", "forkable"}, C!Analyses, {204, 404},
               {"full", "unchecked", "refused"}, {C!None, "writable"}, {C!None, "https"})
          = Audits(r2, f2, n2, p2, k2, h2)
    BY <1>r, <1>f, <1>n, <1>p, <1>k, <1>h, ZenonT(40)
  <2> QED
    BY <1>0, <2>1, <2>2, Zenon
<1>2. n1 \subseteq Nat /\ n2 \subseteq Nat
  BY <1>n
<1>3. /\ r1 \subseteq {"hidden", "public", "private", "forkable"}
      /\ r2 \subseteq {"hidden", "public", "private", "forkable"}
  BY <1>r
<1>4. /\ f1 \subseteq C!Analyses
      /\ f2 \subseteq C!Analyses
  <2>1. C!Absent \in [{} -> {"on", "off"}]
    BY DEF C!Absent
  <2>2. C!Absent \in C!Analyses
    BY <2>1 DEF C!Analyses
  <2> QED
    BY <1>f, <2>2
<1>5. /\ p1 \subseteq {"full", "unchecked", "not protected", "not found", "upgrade", "refused"}
      /\ p2 \subseteq {"full", "unchecked", "not protected", "not found", "upgrade", "refused"}
  BY <1>p
<1>6. /\ k1 \subseteq {C!None, "read only", "writable"}
      /\ k2 \subseteq {C!None, "read only", "writable"}
      /\ h1 \subseteq {C!None, "https", "http", "unverified"}
      /\ h2 \subseteq {C!None, "https", "http", "unverified"}
  BY <1>k, <1>h
<1>7. Audits(r1, f1, n1, p1, k1, h1) \subseteq AnyAnswers
  BY <1>2, <1>3, <1>4, <1>5, <1>6, AuditsGrow
<1>8. Audits(r2, f2, n2, p2, k2, h2) \subseteq AnyAnswers
  BY <1>2, <1>3, <1>4, <1>5, <1>6, AuditsGrow
<1> QED
  BY <1>1, <1>7, <1>8

(* The looks at a site, by what is looked at.                               *)
Certs == DOMAIN P!Days \cup {"invalid", "unreachable"}
Tops == {"200", "unclaimed", "unclaimed 500", "down"}
SomeHeaders == {{}, {"csp", "hsts"}}
Stores == {P!None, "open", "closed"}
FileLooks == [P!Paths -> P!Contents]
StopsAfter == {0, 3, P!Never}
Places == {"url", "http", "address"}
ResolvesTo == SUBSET {"public", "internal"}
Answering(c, t, h, f) == [P!Plain EXCEPT !.cert = c, !.top = t, !.headers = h, !.firestore = f]
Serving(p, s) == [P!Plain EXCEPT !.paths = p, !.stops = s]
Resolving(a, x, y) == [P!Plain EXCEPT !.at = a, !.first = x, !.second = y]
Sending(h) == [P!Plain EXCEPT !.headers = h]
AnsweringLooks ==
    {Answering(c, t, h, f) : c \in Certs, t \in Tops, h \in SomeHeaders, f \in Stores}
SendingLooks == {Sending(h) : h \in SUBSET P!Headers}
ServingLooks == {Serving(p, s) : p \in FileLooks, s \in StopsAfter}
ResolvingLooks == {Resolving(a, x, y) : a \in Places, x, y \in ResolvesTo}

(* The looks the runs ask about are of these four kinds.                    *)
LEMMA LooksNamed == P!Looks = AnsweringLooks \cup SendingLooks \cup ServingLooks
                                 \cup ResolvingLooks
BY SMT DEF P!Looks, AnsweringLooks, SendingLooks, ServingLooks, ResolvingLooks, Certs, Tops,
   SomeHeaders, Stores, FileLooks, StopsAfter, Places, ResolvesTo, Answering, Serving, Resolving,
   Sending

(* They are looks at a site.                                                *)
LEMMA LooksAreAny == P!Looks \subseteq AnyLooks
<1>1. P!Plain \in AnyLooks
  <2>1. P!Nothing \in [P!Paths -> P!Contents] /\ P!Never \in Nat
    BY DEF P!Nothing, P!Contents, P!Never
  <2>2. "90" \in DOMAIN P!Days
    BY DEF P!Days
  <2> QED
    BY <2>1, <2>2 DEF P!Plain, AnyLooks, P!None
<1>2. \A c \in Certs, t \in Tops, h \in SomeHeaders, f \in Stores :
         Answering(c, t, h, f) \in AnyLooks
  <2> TAKE c \in Certs, t \in Tops, h \in SomeHeaders, f \in Stores
  <2>1. h \in SUBSET P!Headers
    BY DEF SomeHeaders, P!Headers
  <2>2. PICK q : q = [P!Plain EXCEPT !.cert = c, !.top = t]
    OBVIOUS
  <2>3. q \in AnyLooks
    BY <1>1, <2>2 DEF AnyLooks, Certs, Tops
  <2>4. [q EXCEPT !.headers = h, !.firestore = f] \in AnyLooks
    BY <2>1, <2>3 DEF AnyLooks, Stores
  <2>5. Answering(c, t, h, f) = [q EXCEPT !.headers = h, !.firestore = f]
    BY <2>2, Zenon DEF Answering
  <2> QED
    BY <2>4, <2>5
<1>3. \A h \in SUBSET P!Headers : Sending(h) \in AnyLooks
  BY <1>1 DEF AnyLooks, Sending
<1>4. \A p \in FileLooks, s \in StopsAfter : Serving(p, s) \in AnyLooks
  <2>1. \A s \in StopsAfter : s \in Nat
    BY DEF StopsAfter, P!Never
  <2> QED
    BY <1>1, <2>1 DEF AnyLooks, FileLooks, Serving
<1>5. \A a \in Places, x \in ResolvesTo, y \in ResolvesTo :
         Resolving(a, x, y) \in AnyLooks
  BY <1>1 DEF AnyLooks, Places, ResolvesTo, Resolving
<1>6. AnsweringLooks \subseteq AnyLooks
  BY <1>2 DEF AnsweringLooks
<1>7. SendingLooks \subseteq AnyLooks
  BY <1>3 DEF SendingLooks
<1>8. ServingLooks \subseteq AnyLooks
  BY <1>4 DEF ServingLooks
<1>9. ResolvingLooks \subseteq AnyLooks
  BY <1>5 DEF ResolvingLooks
<1> QED
  BY <1>6, <1>7, <1>8, <1>9, LooksNamed

(* The releases of Flutter are releases.                                    *)
LEMMA HistoriesAreAny == V!Histories \subseteq Seq(AnyRelease)
<1>1. V!Release \subseteq AnyRelease
  BY DEF V!Release, AnyRelease, V!None
<1> SUFFICES ASSUME NEW h \in V!Histories PROVE h \in Seq(AnyRelease)
  OBVIOUS
<1>n. PICK n \in Nat : n = 3
  OBVIOUS
<1>2. h \in [1..n -> AnyRelease]
  BY <1>1, <1>n DEF V!Histories
<1> QED
  BY <1>2

(* The runtimes in use are such.                                            *)
LEMMA UsesAreAny == V!Uses \subseteq AnyUses
<1>1. V!Cycle \subseteq AnyCycle
  BY DEF V!Cycle, AnyCycle, V!None
<1>2. {<<a, b>> : a \in V!Cycle, b \in {c \in V!Cycle : c.is_lts}} \subseteq AnyCycle \X AnyCycle
  BY <1>1
<1> QED
  BY <1>2 DEF V!Uses, AnyUses

(* The Dockerfiles are lists of lines.                                      *)
LEMMA DockerfilesAreAny == N!Dockerfiles \subseteq Seq(N!Line)
<1> SUFFICES ASSUME NEW f \in N!Dockerfiles PROVE f \in Seq(N!Line)
  OBVIOUS
<1> DEFINE short == UNION {[1..n -> N!Line] : n \in 0..3}
           long == [1..4 -> N!StageLine]
<1>0. f \in short \cup long
  BY DEF N!Dockerfiles
<1>1. CASE f \in short
  <2>1. PICK n \in 0..3 : f \in [1..n -> N!Line]
    BY <1>1, Zenon
  <2> QED
    BY <2>1
<1>2. CASE f \in long
  <2>1. N!StageLine \subseteq N!Line
    BY Zenon DEF N!Line
  <2>2. f \in [1..4 -> N!Line]
    BY <1>2, <2>1
  <2>3. PICK n \in Nat : f \in [1..n -> N!Line]
    BY <2>2
  <2> QED
    BY <2>3
<1> HIDE DEF short, long
<1> QED
  BY <1>0, <1>1, <1>2

(* The questions of the readers are questions about lists.                  *)
LEMMA ListsAreAny == L!Readings \subseteq AnyLists
<1> SUFFICES ASSUME NEW q \in L!Readings PROVE q \in AnyLists
  OBVIOUS
<1>1. PICK x \in L!Row, y \in L!Row, b \in {"key", "session", "none"},
           r \in {L!Any, "others"}, s \in {"yes", "no", L!Any}, o \in {"active", L!Any},
           e \in BOOLEAN :
        q = [rows |-> {<<1, x>>, <<2, y>>, <<3, [repo |-> "mine", resolved |-> FALSE,
                                                 excepted |-> FALSE, at |-> 1]>>},
             by |-> b, repo |-> r, resolved |-> s, operating |-> o, excepted |-> e,
             per_page |-> 2]
  BY DEF L!Readings
<1>z. PICK z : z = [repo |-> "mine", resolved |-> FALSE, excepted |-> FALSE, at |-> 1]
  OBVIOUS
<1>r. PICK rows : rows = {<<1, x>>, <<2, y>>, <<3, z>>}
  OBVIOUS
<1>2. {"mine", "others"} \subseteq L!Repos
  BY DEF L!Repos, L!Owner
<1>3. x \in StoredRows /\ y \in StoredRows /\ z \in StoredRows
  BY <1>2, <1>z DEF L!Row, StoredRows
<1>4. rows \in SUBSET (Nat \X StoredRows)
  BY <1>3, <1>r
<1>5. IsFiniteSet(rows) /\ Cardinality(rows) <= 2 * 2
  <2>a. PICK A : A = {<<1, x>>}
    OBVIOUS
  <2>b. PICK Y : Y = A \cup {<<2, y>>}
    OBVIOUS
  <2>1. /\ IsFiniteSet({}) /\ Cardinality({}) = 0 /\ A = {} \cup {<<1, x>>}
        /\ rows = Y \cup {<<3, z>>}
    BY <1>r, <2>a, <2>b, FS_EmptySet
  <2>2. /\ IsFiniteSet(A) /\ Cardinality(A) \in {0, 1}
        /\ IsFiniteSet(Y) /\ Cardinality(Y) \in {Cardinality(A), Cardinality(A) + 1}
        /\ IsFiniteSet(rows) /\ Cardinality(rows) \in {Cardinality(Y), Cardinality(Y) + 1}
    <3>1. IsFiniteSet(A) /\ Cardinality(A) \in {0, 1}
      <4>1. A = {<<1, x>>}
        BY <2>a
      <4> QED
        BY <4>1, FS_Singleton
    <3>2. IsFiniteSet(Y) /\ Cardinality(Y) \in {Cardinality(A), Cardinality(A) + 1}
      BY <2>b, <3>1, FS_AddElement
    <3>3. IsFiniteSet(rows) /\ Cardinality(rows) \in {Cardinality(Y), Cardinality(Y) + 1}
      BY <2>1, <3>2, FS_AddElement
    <3> QED
      BY <3>1, <3>2, <3>3
  <2> QED
    BY <2>2
<1>6. q = [rows |-> rows, by |-> b, repo |-> r, resolved |-> s, operating |-> o,
           excepted |-> e, per_page |-> 2]
  BY <1>1, <1>z, <1>r
<1> QED
  BY <1>2, <1>4, <1>5, <1>6 DEF AnyLists, AnyAsked

(* The logs are logs.                                                       *)
LEMMA LogsAreAny == L!Logs \subseteq AnyLogs
<1>1. [repo : {"mine", "stopped"}, number : 1..2, action : {"flagged", "merged"}] = LogRows
  BY DEF LogRows
<1>2. L!Logs = UNION {[1..n -> LogRows] : n \in 0..3}
  BY <1>1, Zenon DEF L!Logs
<1>3. 0..3 \subseteq Nat
  OBVIOUS
<1> QED
  BY <1>2, <1>3, Zenon DEF AnyLogs

(* Whichever rule the runs ask whatever they ask it, it answers as its      *)
(* documents promise.                                                       *)
THEOREM RulesAnswerRightly ==
  \A rule \in RuleNames : \A q \in Asks(rule) : Rightly(rule, q, Reply(rule, q))
<1> SUFFICES ASSUME NEW rule \in RuleNames, NEW q \in Asks(rule)
             PROVE  Rightly(rule, q, Reply(rule, q))
  OBVIOUS
<1>1. CASE rule = "retry"
  BY <1>1, RetriesAreRight, CallsAreAny DEF Asks, Reply, Rightly
<1>2. CASE rule = "sla"
  BY <1>2, FindingsAreReported, ReportsAreAny DEF Asks, Reply, Rightly
<1>3. CASE rule = "checks"
  BY <1>3, RepositoriesAreAudited, AnswersAreAny DEF Asks, Reply, Rightly
<1>4. CASE rule = "probes"
  BY <1>4, SitesAreProbed, LooksAreAny DEF Asks, Reply, Rightly
<1>5. CASE rule = "targets"
  BY <1>5, SitesAreGathered DEF Asks, Reply, Rightly
<1>6. CASE rule = "reading"
  BY <1>6, ReadersAreShownTheirOwn, ListsAreAny DEF Asks, Reply, Rightly
<1>7. CASE rule = "log"
  BY <1>7, OpenRequestsAreCounted, LogsAreAny DEF Asks, Reply, Rightly
<1>8. CASE rule = "scan"
  BY <1>8, DependenciesAreReported, ScansAreAny DEF Asks, Reply, Rightly
<1>9. CASE rule = "detect"
  BY <1>9, RuntimesAreDetected, TreesAreAny DEF Asks, Reply, Rightly
<1>10. CASE rule = "releases"
  BY <1>10, ReleasesAreGathered, HistoriesAreAny DEF Asks, Reply, Rightly
<1>11. CASE rule = "eol"
  BY <1>11, UsesAreJudged, UsesAreAny DEF Asks, Reply, Rightly
<1>12. CASE rule = "tools"
  BY <1>12, ToolsAreHeard, ToolsAreAny DEF Asks, Reply, Rightly
<1>13. CASE rule = "dockerfile"
  BY <1>13, DockerfilesAreDiagnosed, DockerfilesAreAny DEF Asks, Reply, Rightly
<1>14. CASE rule = "taxii"
  BY <1>14, CollectionsAreServed, ReadingsAreAny DEF Asks, Reply, Rightly
<1>15. CASE rule = "board"
  BY <1>15, BoardsAreSynced, RunsAreAny DEF Asks, Reply, Rightly
<1> QED
  BY <1>1, <1>2, <1>3, <1>4, <1>5, <1>6, <1>7, <1>8, <1>9, <1>10, <1>11, <1>12, <1>13, <1>14,
     <1>15 DEF RuleNames, Readers, Checks, ScanRules
================================================================================
