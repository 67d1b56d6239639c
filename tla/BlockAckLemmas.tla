---------------------------- MODULE BlockAckLemmas ----------------------------
(***************************************************************************)
(* Lemmas about the operators of BlockAckSession, for every size of the    *)
(* sequence space and of the window: numbers modulo SeqSpace, lists and    *)
(* what is done to their elements in turn, the transmit window, the score  *)
(* and the reorder buffer.                                                 *)
(*                                                                         *)
(* The code compares sequence numbers, which come round.  The proofs       *)
(* compare MSDUs, which do not: a window whose start is the number of the  *)
(* MSDU A is said to start at A, and numbers at less than half the space   *)
(* from each other compare as their MSDUs do.                              *)
(***************************************************************************)
EXTENDS BlockAckSession, SequenceTheorems, FiniteSetTheorems, WellFoundedInduction, TLAPS

-----------------------------------------------------------------------------
(* Numbers modulo SeqSpace.                                                *)

LEMMA Sizes ==
  /\ SeqSpace \in Nat \ {0} /\ Half \in Nat /\ SeqSpace = 2 * Half
  /\ WinSize \in Nat \ {0} /\ 2 * WinSize < Half
  /\ MaxMsdus \in Nat /\ MaxQueued \in Nat \ {0}
  /\ Seqs = 0 .. SeqSpace - 1
BY SessionConstants DEF Half, Seqs

LEMMA Multiple ==
  ASSUME NEW b \in Nat \ {0}, NEW k \in Int
  PROVE  /\ k >= 1 => b * k >= b
         /\ k =< -1 => b * k =< -b
<1>1. ASSUME k >= 1 PROVE b * k >= b
  <2>1. k - 1 >= 0 /\ b >= 0 /\ b * k = b * (k - 1) + b BY <1>1
  <2>2. b * (k - 1) >= 0 BY <2>1
  <2> QED BY <2>1, <2>2
<1>2. ASSUME k =< -1 PROVE b * k =< -b
  <2>1. -1 - k >= 0 /\ b >= 0 /\ b * k = -(b * (-1 - k)) - b BY <1>2
  <2>2. b * (-1 - k) >= 0 BY <2>1
  <2> QED BY <2>1, <2>2
<1> QED BY <1>1, <1>2

LEMMA Quotient ==
  ASSUME NEW b \in Nat \ {0}, NEW a \in Int
  PROVE  \E q \in Int, r \in 0 .. b - 1 : a % b = r /\ a = b * q + r
<1>1. a \div b \in Int /\ a % b \in 0 .. b - 1 /\ a = b * (a \div b) + (a % b)
  OBVIOUS
<1> DEFINE q == a \div b
           r == a % b
<1>2. q \in Int /\ r \in 0 .. b - 1 /\ a = b * q + r
  BY <1>1
<1> HIDE DEF q
<1> QED BY <1>2

LEMMA Remainder ==
  ASSUME NEW b \in Nat \ {0}, NEW q \in Int, NEW r \in 0 .. b - 1, NEW a \in Int,
         a = b * q + r
  PROVE  a % b = r
<1>1. PICK p \in Int, s \in 0 .. b - 1 : a % b = s /\ a = b * p + s
  BY Quotient
<1>2. b * (q - p) = s - r
  BY <1>1
<1>3. ~ (q - p >= 1)
  BY <1>1, <1>2, Multiple
<1>4. ~ (q - p =< -1)
  BY <1>1, <1>2, Multiple
<1>5. q = p
  BY <1>3, <1>4
<1> QED BY <1>1, <1>5

(* What is added to a remainder, or subtracted, may be reduced after.      *)
LEMMA Congruent ==
  ASSUME NEW b \in Nat \ {0}, NEW a \in Int, NEW c \in Int
  PROVE  /\ ((c % b) - (a % b)) % b = (c - a) % b
         /\ ((a % b) + c) % b = (a + c) % b
<1>1. PICK p \in Int, x \in 0 .. b - 1 : a % b = x /\ a = b * p + x
  BY Quotient
<1>2. PICK q \in Int, y \in 0 .. b - 1 : c % b = y /\ c = b * q + y
  BY Quotient
<1>3. c - a \in Int /\ a + c \in Int /\ y - x \in Int /\ x + c \in Int
  BY <1>1, <1>2
<1>4. PICK r \in Int, z \in 0 .. b - 1 : (c - a) % b = z /\ c - a = b * r + z
  BY <1>3, Quotient
<1>5. PICK s \in Int, w \in 0 .. b - 1 : (a + c) % b = w /\ a + c = b * s + w
  BY <1>3, Quotient
<1>6. y - x = b * (r - q + p) + z /\ r - q + p \in Int
  BY <1>1, <1>2, <1>4
<1>7. x + c = b * (s - p) + w /\ s - p \in Int
  BY <1>1, <1>5
<1>8. PICK t \in Int, u \in Int : u = x + c /\ u = b * t + w
  BY <1>7, <1>3
<1>9. (y - x) % b = z
  BY <1>6, <1>3, Remainder
<1>10. u % b = w
  <2>1. u = b * t + w BY <1>8
  <2>2. u \in Int /\ t \in Int /\ w \in 0 .. b - 1 OBVIOUS
  <2> HIDE <1>8
  <2> QED BY <2>1, <2>2, Remainder
<1> QED BY <1>1, <1>2, <1>4, <1>5, <1>8, <1>9, <1>10

LEMMA Small ==
  ASSUME NEW b \in Nat \ {0}, NEW a \in Int, -b =< a, a < b
  PROVE  a % b = IF a >= 0 THEN a ELSE a + b
<1>1. CASE a >= 0
  <2>1. a = b * 0 + a /\ a \in 0 .. b - 1 BY <1>1
  <2> QED BY <1>1, <2>1, Remainder
<1>2. CASE ~ (a >= 0)
  <2>1. a = b * (-1) + (a + b) /\ a + b \in 0 .. b - 1 /\ -1 \in Int BY <1>2
  <2>2. a % b = a + b BY <2>1, Remainder
  <2> QED BY <1>2, <2>2
<1> QED BY <1>1, <1>2

LEMMA NumberType ==
  ASSUME NEW m \in Int
  PROVE  NumberOf(m) \in Seqs /\ NumberOf(m) \in Int
BY Sizes DEF NumberOf

(* The distance of two numbers is that of the MSDUs, if it is less than a  *)
(* lap.                                                                    *)
LEMMA Distance ==
  ASSUME NEW A \in Int, NEW m \in Int, -SeqSpace =< m - A, m - A < SeqSpace
  PROVE  Dist(NumberOf(A), NumberOf(m)) = IF A =< m THEN m - A ELSE m - A + SeqSpace
<1>1. Dist(NumberOf(A), NumberOf(m)) = (m - A) % SeqSpace
  BY Sizes, Congruent DEF Dist, NumberOf
<1>2. (m - A) % SeqSpace = IF m - A >= 0 THEN m - A ELSE (m - A) + SeqSpace
  <2>1. m - A \in Int /\ SeqSpace \in Nat \ {0} BY Sizes
  <2> QED BY <2>1, Small
<1> QED BY <1>1, <1>2

(* A number further on.                                                    *)
LEMMA Shift ==
  ASSUME NEW A \in Int, NEW k \in Int
  PROVE  (NumberOf(A) + k) % SeqSpace = NumberOf(A + k)
BY Sizes, Congruent DEF NumberOf

(* Two MSDUs less than a lap apart do not have the same number.            *)
LEMMA SameNumber ==
  ASSUME NEW a \in Int, NEW b \in Int, NumberOf(a) = NumberOf(b),
         -SeqSpace < a - b, a - b < SeqSpace
  PROVE  a = b
<1>1. Dist(NumberOf(a), NumberOf(b)) = IF a =< b THEN b - a ELSE b - a + SeqSpace
  BY Distance, Sizes
<1>2. Dist(NumberOf(a), NumberOf(a)) = 0
  BY Distance, Sizes
<1> QED BY <1>1, <1>2, Sizes

(* Old is what comes before, and in the window what is less than WinSize   *)
(* after.                                                                  *)
LEMMA OldOrNot ==
  ASSUME NEW A \in Int, NEW m \in Int, -Half =< m - A, m - A < Half
  PROVE  /\ IsOld(NumberOf(A), NumberOf(m)) <=> m < A
         /\ InWindow(NumberOf(m), NumberOf(A)) <=> (A =< m /\ m < A + WinSize)
         /\ Mapped(NumberOf(A), NumberOf(m)) = m - A + Half
<1>1. Dist(NumberOf(A), NumberOf(m)) = IF A =< m THEN m - A ELSE m - A + SeqSpace
  BY Distance, Sizes
<1>2. Mapped(NumberOf(A), NumberOf(m)) = m - A + Half
  <2>1. Mapped(NumberOf(A), NumberOf(m)) = ((NumberOf(m) - NumberOf(A)) + Half) % SeqSpace
    BY NumberType, Sizes DEF Mapped
  <2>2. (((NumberOf(m) - NumberOf(A)) % SeqSpace) + Half) % SeqSpace
          = ((NumberOf(m) - NumberOf(A)) + Half) % SeqSpace
    <3>1. /\ NumberOf(m) - NumberOf(A) \in Int
          /\ SeqSpace \in Nat \ {0} /\ Half \in Int
      BY NumberType, Sizes
    <3> HIDE DEF NumberOf
    <3> QED BY <3>1, Congruent
  <2>3. (NumberOf(m) - NumberOf(A)) % SeqSpace = (m - A) % SeqSpace
    BY Sizes, Congruent DEF NumberOf
  <2>4. (((m - A) % SeqSpace) + Half) % SeqSpace = (m - A + Half) % SeqSpace
    <3>1. m - A \in Int /\ SeqSpace \in Nat \ {0} /\ Half \in Int BY Sizes
    <3> QED BY <3>1, Congruent
  <2>5. (m - A + Half) % SeqSpace = m - A + Half
    <3>1. /\ m - A + Half \in Int /\ SeqSpace \in Nat \ {0}
          /\ 0 =< m - A + Half /\ m - A + Half < SeqSpace
      BY Sizes
    <3> QED BY <3>1, Small
  <2> QED BY <2>1, <2>2, <2>3, <2>4, <2>5
<1> QED BY <1>1, <1>2, Sizes DEF IsOld, InWindow

LEMMA SpanOf ==
  ASSUME NEW A \in Int, NEW k \in Int, NEW c \in Int
  PROVE  Span(NumberOf(A) + k, c) = {NumberOf(i) : i \in A + k .. A + k + c - 1}
<1>1. ASSUME NEW i \in 0 .. c - 1
      PROVE  (NumberOf(A) + k + i) % SeqSpace = NumberOf(A + k + i)
  <2>1. NumberOf(A) + k + i = NumberOf(A) + (k + i) /\ A + k + i = A + (k + i)
    BY NumberType
  <2> QED BY <2>1, Shift
<1>2. ASSUME NEW x \in Span(NumberOf(A) + k, c)
      PROVE  x \in {NumberOf(i) : i \in A + k .. A + k + c - 1}
  <2>1. PICK i \in 0 .. c - 1 : x = (NumberOf(A) + k + i) % SeqSpace BY DEF Span
  <2>2. x = NumberOf(A + k + i) BY <2>1, <1>1
  <2>3. A + k + i \in A + k .. A + k + c - 1 OBVIOUS
  <2> QED BY <2>2, <2>3
<1>3. ASSUME NEW j \in A + k .. A + k + c - 1
      PROVE  NumberOf(j) \in Span(NumberOf(A) + k, c)
  <2>1. j - A - k \in 0 .. c - 1 /\ j = A + k + (j - A - k) OBVIOUS
  <2>2. (NumberOf(A) + k + (j - A - k)) % SeqSpace = NumberOf(j) BY <2>1, <1>1
  <2> QED BY <2>1, <2>2 DEF Span
<1> QED BY <1>2, <1>3

LEMMA SpanAt ==
  ASSUME NEW A \in Int, NEW c \in Int
  PROVE  Span(NumberOf(A), c) = {NumberOf(i) : i \in A .. A + c - 1}
<1>1. Span(NumberOf(A) + 0, c) = {NumberOf(i) : i \in A + 0 .. A + 0 + c - 1}
  BY SpanOf
<1>2. NumberOf(A) + 0 = NumberOf(A) /\ A + 0 = A
  BY NumberType
<1> QED BY <1>1, <1>2

-----------------------------------------------------------------------------
(* Least and greatest elements.                                            *)

LEMMA LeastElement ==
  ASSUME NEW T, T \subseteq Nat, T # {}
  PROVE  \E x \in T : \A y \in T : x =< y
<1>1. PICK x \in T : \A y \in T : <<y, x>> \notin OpToRel(<, Nat)
  BY NatLessThanWellFounded, WFMin, Zenon
<1>2. ASSUME NEW y \in T PROVE x =< y
  <2>1. x \in Nat /\ y \in Nat
    OBVIOUS
  <2>2. <<y, x>> \in Nat \X Nat /\ <<y, x>>[1] = y /\ <<y, x>>[2] = x
    BY <2>1
  <2>3. ~ (y < x)
    BY <1>1, <2>2, Zenon DEF OpToRel
  <2> QED BY <2>1, <2>3
<1> QED BY <1>2

LEMMA MinIs ==
  ASSUME NEW T, T \subseteq Nat, T # {}
  PROVE  Min(T) \in T /\ \A y \in T : Min(T) =< y
BY LeastElement, Zenon DEF Min

LEMMA MaxIs ==
  ASSUME NEW n \in Nat, NEW T, T \subseteq 0 .. n, T # {}
  PROVE  Max(T) \in T /\ \A y \in T : y =< Max(T)
<1> DEFINE U == {k \in Nat : \E y \in T : k = n - y}
<1>1. U \subseteq Nat /\ U # {}
  <2>1. PICK y \in T : TRUE OBVIOUS
  <2>2. n - y \in Nat BY <2>1
  <2> QED BY <2>1, <2>2
<1>2. PICK k \in U : \A j \in U : k =< j
  BY <1>1, LeastElement
<1>3. PICK x \in T : k = n - x
  BY <1>2
<1>4. ASSUME NEW y \in T PROVE y =< x
  <2>1. n - y \in U OBVIOUS
  <2>2. k =< n - y BY <2>1, <1>2
  <2> QED BY <2>2, <1>3
<1>5. \E z \in T : \A y \in T : y =< z /\ z >= y
  BY <1>4
<1>6. \E z \in T : \A y \in T : z >= y
  BY <1>5
<1>7. Max(T) \in T /\ \A y \in T : Max(T) >= y
  BY <1>6, Zenon DEF Max
<1> QED BY <1>7

(* The last place up to which all is so.                                   *)
Runs(n, P) == {k \in 0 .. n : \A i \in 1 .. k : i \in P}

LEMMA Longest ==
  ASSUME NEW n \in Nat, NEW P, NEW T, T = Runs(n, P)
  PROVE  /\ Max(T) \in 0 .. n
         /\ \A i \in 1 .. Max(T) : i \in P
         /\ Max(T) < n => Max(T) + 1 \notin P
         /\ \A k \in 0 .. n : ((\A i \in 1 .. k : i \in P) /\ (k < n => k + 1 \notin P)) => Max(T) = k
<1>0. T = {k \in 0 .. n : \A i \in 1 .. k : i \in P}
  BY DEF Runs
<1>1. 0 \in T
  BY <1>0
<1>2. Max(T) \in T /\ Max(T) \in 0 .. n /\ (\A i \in 1 .. Max(T) : i \in P) /\ \A y \in T : y =< Max(T)
  <2>1. T \subseteq 0 .. n BY <1>0
  <2>2. Max(T) \in T /\ \A y \in T : y =< Max(T) BY <1>1, <2>1, MaxIs
  <2> QED BY <1>0, <2>2
<1>3. ASSUME Max(T) < n, Max(T) + 1 \in P PROVE FALSE
  <2>1. Max(T) + 1 \in 0 .. n BY <1>2, <1>3
  <2>2. \A i \in 1 .. Max(T) + 1 : i \in P
    <3>1. ASSUME NEW i \in 1 .. Max(T) + 1 PROVE i \in P
      <4>1. i \in 1 .. Max(T) \/ i = Max(T) + 1 BY <1>2
      <4> QED BY <4>1, <1>2, <1>3
    <3> QED BY <3>1
  <2>3. Max(T) + 1 \in T BY <1>0, <2>1, <2>2
  <2> QED BY <2>3, <1>2
<1>4. ASSUME NEW k \in 0 .. n, \A i \in 1 .. k : i \in P, k < n => k + 1 \notin P
      PROVE  Max(T) = k
  <2>1. k \in T BY <1>0, <1>4
  <2>2. k =< Max(T) /\ Max(T) \in 0 .. n BY <2>1, <1>2
  <2>3. ASSUME k < Max(T) PROVE FALSE
    <3>1. k + 1 \in 1 .. Max(T) /\ k < n BY <2>2, <2>3
    <3> QED BY <3>1, <1>2, <1>4
  <2> QED BY <2>2, <2>3
<1> QED BY <1>2, <1>3, <1>4

LEMMA LargerOf ==
  ASSUME NEW a \in Int, NEW b \in Int
  PROVE  Max({a, b}) = IF a =< b THEN b ELSE a
<1>1. CASE a =< b
  <2>1. \A x \in {a, b} : b >= x BY <1>1
  <2>2. \A z \in {a, b} : (\A x \in {a, b} : z >= x) => z = b BY <1>1
  <2> QED BY <1>1, <2>1, <2>2 DEF Max
<1>2. CASE ~ (a =< b)
  <2>1. \A x \in {a, b} : a >= x BY <1>2
  <2>2. \A z \in {a, b} : (\A x \in {a, b} : z >= x) => z = a BY <1>2
  <2> QED BY <1>2, <2>1, <2>2 DEF Max
<1> QED BY <1>1, <1>2

-----------------------------------------------------------------------------
(* Frames in the order of their numbers.                                   *)

LEMMA Sorted ==
  ASSUME NEW T, IsFiniteSet(T), NEW k \in [T -> Int],
         \A x, y \in T : k[x] = k[y] => x = y
  PROVE  \E f \in [1 .. Cardinality(T) -> T] :
           \A i, j \in 1 .. Cardinality(T) : i < j => k[f[i]] < k[f[j]]
<1> DEFINE n == Cardinality(T)
           Below(x) == {y \in T : k[y] < k[x]}
           rank == [x \in T |-> Cardinality(Below(x)) + 1]
<1>1. n \in Nat
  BY FS_CardinalityType
<1>2. ASSUME NEW x \in T
      PROVE  /\ IsFiniteSet(Below(x)) /\ Cardinality(Below(x)) \in Nat
             /\ Cardinality(Below(x)) < n
  <2>1. Below(x) \in SUBSET T /\ x \notin Below(x) OBVIOUS
  <2>2. IsFiniteSet(Below(x)) /\ Cardinality(Below(x)) \in Nat
    BY <2>1, FS_Subset, FS_CardinalityType
  <2>3. Cardinality(Below(x)) =< n /\ (n = Cardinality(Below(x)) => T = Below(x))
    BY <2>1, FS_Subset
  <2> QED BY <1>1, <2>1, <2>2, <2>3
<1>3. rank \in [T -> 1 .. n]
  <2> HIDE DEF n, Below
  <2>1. \A x \in T : Cardinality(Below(x)) + 1 \in 1 .. n BY <1>1, <1>2
  <2> QED BY <2>1
<1>4. ASSUME NEW x \in T, NEW y \in T, k[x] < k[y]
      PROVE  rank[x] < rank[y]
  <2>1. Below(x) \in SUBSET Below(y) BY <1>4
  <2>2. x \in Below(y) /\ x \notin Below(x) BY <1>4
  <2>3. Cardinality(Below(x)) =< Cardinality(Below(y))
    BY <2>1, <1>2, FS_Subset
  <2>4. Cardinality(Below(y)) # Cardinality(Below(x))
    BY <2>1, <2>2, <1>2, FS_Subset
  <2>5. Cardinality(Below(x)) \in Nat /\ Cardinality(Below(y)) \in Nat
    BY <1>2
  <2> QED BY <2>3, <2>4, <2>5
<1>5. ASSUME NEW x \in T, NEW y \in T, rank[x] = rank[y] PROVE x = y
  <2> HIDE DEF rank
  <2>1. rank[x] \in Int /\ rank[y] \in Int BY <1>3
  <2>2. ~ (k[x] < k[y]) /\ ~ (k[y] < k[x]) BY <1>4, <1>5, <2>1
  <2> QED BY <2>2
<1>6. rank \in Injection(T, 1 .. n)
  BY <1>3, <1>5 DEF Injection, IsInjective
<1>7. IsFiniteSet(1 .. n) /\ Cardinality(1 .. n) = n
  BY <1>1, FS_Interval
<1>8. rank \in Surjection(T, 1 .. n)
  <2> HIDE DEF rank
  <2> QED BY <1>6, <1>7, FS_Injection
<1>9. \A i \in 1 .. n : \E x \in T : rank[x] = i
  <2> HIDE DEF rank
  <2> QED BY <1>8 DEF Surjection
<1> DEFINE f == [i \in 1 .. n |-> CHOOSE x \in T : rank[x] = i]
<1>10. \A i \in 1 .. n : f[i] \in T /\ rank[f[i]] = i
  <2> HIDE DEF rank
  <2> QED BY <1>9
<1>11. f \in [1 .. n -> T]
  <2> HIDE DEF rank
  <2> QED BY <1>10
<1>12. ASSUME NEW i \in 1 .. n, NEW j \in 1 .. n, i < j PROVE k[f[i]] < k[f[j]]
  <2> HIDE DEF rank, f
  <2>1. f[i] \in T /\ f[j] \in T /\ rank[f[i]] = i /\ rank[f[j]] = j BY <1>10
  <2>2. ~ (k[f[j]] < k[f[i]]) BY <2>1, <1>4, <1>12
  <2>3. k[f[i]] # k[f[j]] BY <2>1, <1>12
  <2> QED BY <2>1, <2>2, <2>3
<1> QED BY <1>11, <1>12

LEMMA SortedHasAll ==
  ASSUME NEW T, IsFiniteSet(T), NEW k \in [T -> Int], NEW f \in [1 .. Cardinality(T) -> T],
         \A i, j \in 1 .. Cardinality(T) : i < j => k[f[i]] < k[f[j]]
  PROVE  \A x \in T : \E i \in 1 .. Cardinality(T) : f[i] = x
<1> DEFINE n == Cardinality(T)
<1>1. n \in Nat /\ IsFiniteSet(1 .. n) /\ Cardinality(1 .. n) = n
  BY FS_CardinalityType, FS_Interval
<1>2. ASSUME NEW i \in 1 .. n, NEW j \in 1 .. n, f[i] = f[j] PROVE i = j
  <2>1. ~ (i < j) /\ ~ (j < i) BY <1>2
  <2> QED BY <2>1, <1>1
<1>3. f \in Injection(1 .. n, T)
  BY <1>2 DEF Injection, IsInjective
<1>4. f \in Surjection(1 .. n, T)
  BY <1>3, <1>1, FS_Injection
<1> QED BY <1>4 DEF Surjection

LEMMA IdsFinite ==
  ASSUME NEW T \in SUBSET Ids
  PROVE  IsFiniteSet(T) /\ Cardinality(T) \in Nat
<1>1. IsFiniteSet(Ids)
  BY Sizes, FS_Interval DEF Ids
<1> QED BY <1>1, FS_Subset, FS_CardinalityType

(* All frames of the set, each after those of smaller distance from the    *)
(* start; so those that are not old come first, and in their order.        *)
LEMMA BySeqIs ==
  ASSUME NEW A \in Int, NEW T \in SUBSET Ids, NEW s, s = BySeq(NumberOf(A), T),
         \A m \in T : -Half =< m - A /\ m - A < Half
  PROVE  /\ s \in Seq(T) /\ Range(s) = T
         /\ \A i, j \in 1 .. Len(s) : i < j /\ A =< s[j] => A =< s[i] /\ s[i] < s[j]
<1> DEFINE n == Cardinality(T)
           k == [m \in T |-> Dist(NumberOf(A), NumberOf(m))]
<1>1. n \in Nat /\ IsFiniteSet(T)
  BY IdsFinite
<1>2. \A m \in T : k[m] = IF A =< m THEN m - A ELSE m - A + SeqSpace
  BY Distance, Sizes DEF Ids
<1>3. k \in [T -> Int] /\ \A x, y \in T : k[x] = k[y] => x = y
  <2>1. T \subseteq Int BY Sizes DEF Ids
  <2>2. \A m \in T : k[m] \in Int BY <1>2, <2>1, Sizes
  <2>3. k \in [T -> Int] BY <2>2
  <2>4. ASSUME NEW x \in T, NEW y \in T, k[x] = k[y] PROVE x = y
    <3> HIDE DEF k
    <3> QED BY <1>2, <2>1, <2>4, Sizes
  <2> QED BY <2>3, <2>4
<1>4. \E f \in [1 .. n -> T] : \A i, j \in 1 .. n : i < j => k[f[i]] < k[f[j]]
  <2> HIDE DEF k
  <2> QED BY <1>1, <1>3, Sorted
<1>5. \E f \in [1 .. n -> T] : \A i, j \in 1 .. n :
        i < j => Dist(NumberOf(A), NumberOf(f[i])) < Dist(NumberOf(A), NumberOf(f[j]))
  <2>1. PICK f \in [1 .. n -> T] : \A i, j \in 1 .. n : i < j => k[f[i]] < k[f[j]]
    BY <1>4
  <2>2. \A i \in 1 .. n : k[f[i]] = Dist(NumberOf(A), NumberOf(f[i]))
    OBVIOUS
  <2> QED BY <2>1, <2>2
<1>6. /\ s \in [1 .. n -> T]
      /\ \A i, j \in 1 .. n :
           i < j => Dist(NumberOf(A), NumberOf(s[i])) < Dist(NumberOf(A), NumberOf(s[j]))
  BY <1>5 DEF BySeq
<1>7. \A i, j \in 1 .. n : i < j => k[s[i]] < k[s[j]]
  BY <1>6
<1>8. \A x \in T : \E i \in 1 .. n : s[i] = x
  <2> HIDE DEF k
  <2> QED BY <1>1, <1>3, <1>6, <1>7, SortedHasAll
<1>9. s \in Seq(T) /\ Len(s) = n /\ DOMAIN s = 1 .. n
  <2>1. s \in Seq(T) BY <1>1, <1>6, SeqDef
  <2> QED BY <2>1, <1>1, <1>6, LenProperties
<1>10. Range(s) = T
  BY <1>6, <1>8, <1>9 DEF Range
<1>11. ASSUME NEW i \in 1 .. n, NEW j \in 1 .. n, i < j, A =< s[j]
       PROVE  A =< s[i] /\ s[i] < s[j]
  <2>1. s[i] \in T /\ s[j] \in T /\ s[i] \in Int /\ s[j] \in Int
    <3>1. T \subseteq Int BY Sizes DEF Ids
    <3> HIDE DEF n
    <3> QED BY <1>6, <3>1
  <2>2. k[s[i]] < k[s[j]] BY <1>7, <1>11
  <2> HIDE DEF k
  <2>3. k[s[j]] = s[j] - A BY <2>1, <1>2, <1>11
  <2>4. ASSUME s[i] < A PROVE FALSE
    <3>1. k[s[i]] = s[i] - A + SeqSpace BY <2>1, <2>4, <1>2
    <3> QED BY <2>1, <2>2, <2>3, <3>1, Sizes
  <2>5. A =< s[i] BY <2>1, <2>4
  <2>6. k[s[i]] = s[i] - A BY <2>1, <2>5, <1>2
  <2> QED BY <2>1, <2>2, <2>3, <2>5, <2>6
<1> QED BY <1>9, <1>10, <1>11

-----------------------------------------------------------------------------
(* What is done to the elements of a list in turn.                         *)

LEMMA Reaches ==
  ASSUME NEW n \in Nat, NEW T, 0 \in T, \A i \in 0 .. n - 1 : i \in T => i + 1 \in T
  PROVE  \A i \in 0 .. n : i \in T
<1> DEFINE U == {i \in 0 .. n : i \notin T}
<1>1. SUFFICES ASSUME U # {} PROVE FALSE
  OBVIOUS
<1>2. PICK k \in U : \A j \in U : k =< j
  <2>1. U \subseteq Nat OBVIOUS
  <2> HIDE DEF U
  <2> QED BY <1>1, <2>1, LeastElement
<1>3. k - 1 \in 0 .. n - 1 /\ (k - 1) + 1 = k
  BY <1>2
<1>4. k - 1 \in T
  BY <1>2, <1>3
<1> QED BY <1>2, <1>3, <1>4

(* g[i] is what step makes of v in i turns.                                *)
Iterates(g, S, L, v, step) ==
  /\ g \in [0 .. L -> S] /\ g[0] = v
  /\ \A i \in 1 .. L : g[i] = step[<<g[i - 1], i>>]

(* f[i] is what has become of v after i of n steps.                        *)
Turns(f, S, v, n) == f \in [0 .. n -> S] /\ f[0] = v

LEMMA Iterated ==
  ASSUME NEW S, NEW L \in Nat, NEW v \in S, NEW step \in [S \X (1 .. L) -> S]
  PROVE  \E g : Iterates(g, S, L, v, step)
<1> DEFINE Good(g, k) == g[0] = v /\ \A i \in 1 .. k : g[i] = step[<<g[i - 1], i>>]
           T == {k \in 0 .. L : \E g \in [0 .. k -> S] : Good(g, k)}
<1>1. 0 \in T
  <2>1. [i \in 0 .. 0 |-> v] \in [0 .. 0 -> S] /\ Good([i \in 0 .. 0 |-> v], 0)
    OBVIOUS
  <2> HIDE DEF Good
  <2> QED BY <2>1
<1>2. ASSUME NEW k \in 0 .. L - 1, k \in T PROVE k + 1 \in T
  <2>1. PICK g \in [0 .. k -> S] : Good(g, k) BY <1>2
  <2> DEFINE h == [i \in 0 .. k + 1 |-> IF i =< k THEN g[i] ELSE step[<<g[k], k + 1>>]]
  <2>2. step[<<g[k], k + 1>>] \in S
    <3>1. g[k] \in S /\ k + 1 \in 1 .. L OBVIOUS
    <3>2. <<g[k], k + 1>> \in S \X (1 .. L) BY <3>1
    <3> QED BY <3>2
  <2>3. h \in [0 .. k + 1 -> S] BY <2>2
  <2>4. ASSUME NEW i \in 1 .. k + 1 PROVE h[i] = step[<<h[i - 1], i>>]
    <3>1. i - 1 \in 0 .. k /\ h[i - 1] = g[i - 1] OBVIOUS
    <3>2. CASE i =< k
      <4>1. i \in 1 .. k /\ h[i] = g[i] BY <3>2
      <4> HIDE DEF h
      <4> QED BY <4>1, <3>1, <2>1
    <3>3. CASE ~ (i =< k)
      <4>1. i = k + 1 /\ i - 1 = k BY <3>3
      <4>2. h[i] = step[<<g[k], k + 1>>] BY <4>1
      <4> HIDE DEF h
      <4> QED BY <4>1, <4>2, <3>1
    <3> QED BY <3>2, <3>3
  <2>5. h[0] = v BY <2>1
  <2> HIDE DEF h
  <2>6. Good(h, k + 1) BY <2>4, <2>5
  <2> HIDE DEF Good
  <2> QED BY <2>3, <2>6
<1>3. L \in T
  <2> HIDE DEF T
  <2>1. \A i \in 0 .. L - 1 : i \in T => i + 1 \in T BY <1>2
  <2>2. \A i \in 0 .. L : i \in T BY <1>1, <2>1, Reaches
  <2> QED BY <2>2
<1> QED BY <1>3 DEF Iterates

LEMMA DiscardedIs ==
  ASSUME NEW S, NEW o \in S, NEW mpdus \in Seq(Ids),
         \A a \in S, i \in 1 .. Len(mpdus) : NotifyDiscardedMpdu(a, mpdus[i]) \in S
  PROVE  \E f :
           /\ Turns(f, S, o, Len(mpdus)) /\ Discarded(o, mpdus) = f[Len(mpdus)]
           /\ \A i \in 1 .. Len(mpdus) : f[i] = NotifyDiscardedMpdu(f[i - 1], mpdus[i])
<1> DEFINE L == Len(mpdus)
           Is(g) == g = [i \in 0 .. L |-> IF i = 0 THEN o
                           ELSE Then(g[i - 1], LAMBDA x : NotifyDiscardedMpdu(x, mpdus[i]))]
           F == CHOOSE g : Is(g)
<1>1. PICK step \in [S \X (1 .. L) -> S] :
        \A a \in S, i \in 1 .. L : step[<<a, i>>] = NotifyDiscardedMpdu(a, mpdus[i])
  <2> DEFINE st == [p \in S \X (1 .. L) |-> NotifyDiscardedMpdu(p[1], mpdus[p[2]])]
  <2>1. \A a \in S, i \in 1 .. L : st[<<a, i>>] = NotifyDiscardedMpdu(a, mpdus[i]) OBVIOUS
  <2>2. st \in [S \X (1 .. L) -> S] OBVIOUS
  <2> HIDE DEF st
  <2> QED BY <2>1, <2>2
<1>2. PICK g \in [0 .. L -> S] : g[0] = o /\ \A i \in 1 .. L : g[i] = step[<<g[i - 1], i>>]
  <2>1. L \in Nat BY LenProperties
  <2> HIDE DEF L
  <2>2. \E g : Iterates(g, S, L, o, step) BY <2>1, Iterated
  <2> QED BY <2>2 DEF Iterates
<1>3. L \in Nat /\ \A i \in 1 .. L : g[i] = NotifyDiscardedMpdu(g[i - 1], mpdus[i])
  <2>1. L \in Nat BY LenProperties
  <2>2. \A i \in 1 .. L : g[i - 1] \in S BY <2>1
  <2> QED BY <1>1, <1>2, <2>1, <2>2
<1>4. Is(g)
  <2> QED BY <1>2, <1>3 DEF Then
<1>5. Is(F)
  <2> HIDE DEF Is
  <2> QED BY <1>4
<1>6. Discarded(o, mpdus) = F[L]
  BY DEF Discarded, InTurn
<1> HIDE DEF F
<1>7. \A i \in 0 .. L : F[i] = IF i = 0 THEN o ELSE NotifyDiscardedMpdu(F[i - 1], mpdus[i])
  BY <1>5 DEF Then
<1>8. \A i \in 0 .. L : F[i] \in S
  <2> DEFINE T == {i \in 0 .. L : F[i] \in S}
  <2>1. 0 \in T BY <1>3, <1>7
  <2>2. ASSUME NEW i \in 0 .. L - 1, i \in T PROVE i + 1 \in T
    <3>1. i + 1 \in 1 .. L /\ i + 1 # 0 /\ (i + 1) - 1 = i BY <1>3
    <3>2. F[i + 1] = NotifyDiscardedMpdu(F[i], mpdus[i + 1]) BY <1>7, <3>1
    <3> QED BY <2>2, <3>1, <3>2
  <2> HIDE DEF T
  <2>3. \A i \in 0 .. L : i \in T BY <1>3, <2>1, <2>2, Reaches
  <2> QED BY <2>3 DEF T
<1>9. F \in [0 .. L -> S]
  BY <1>5, <1>8
<1>10. F[0] = o /\ \A i \in 1 .. L : F[i] = NotifyDiscardedMpdu(F[i - 1], mpdus[i])
  BY <1>3, <1>7
<1> QED BY <1>6, <1>9, <1>10 DEF Turns

LEMMA PassedByIs ==
  ASSUME NEW S, NEW o \in S, NEW mpdus \in Seq(Ids),
         \A a \in S, i \in 1 .. Len(mpdus) : Passed(a, mpdus[i]) \in S
  PROVE  \E f :
           /\ Turns(f, S, o, Len(mpdus)) /\ PassedBy(o, mpdus) = f[Len(mpdus)]
           /\ \A i \in 1 .. Len(mpdus) : f[i] = Passed(f[i - 1], mpdus[i])
<1> DEFINE L == Len(mpdus)
           Is(g) == g = [i \in 0 .. L |-> IF i = 0 THEN o
                           ELSE Then(g[i - 1], LAMBDA x : Passed(x, mpdus[i]))]
           F == CHOOSE g : Is(g)
<1>1. PICK step \in [S \X (1 .. L) -> S] :
        \A a \in S, i \in 1 .. L : step[<<a, i>>] = Passed(a, mpdus[i])
  <2> DEFINE st == [p \in S \X (1 .. L) |-> Passed(p[1], mpdus[p[2]])]
  <2>1. \A a \in S, i \in 1 .. L : st[<<a, i>>] = Passed(a, mpdus[i]) OBVIOUS
  <2>2. st \in [S \X (1 .. L) -> S] OBVIOUS
  <2> HIDE DEF st
  <2> QED BY <2>1, <2>2
<1>2. PICK g \in [0 .. L -> S] : g[0] = o /\ \A i \in 1 .. L : g[i] = step[<<g[i - 1], i>>]
  <2>1. L \in Nat BY LenProperties
  <2> HIDE DEF L
  <2>2. \E g : Iterates(g, S, L, o, step) BY <2>1, Iterated
  <2> QED BY <2>2 DEF Iterates
<1>3. L \in Nat /\ \A i \in 1 .. L : g[i] = Passed(g[i - 1], mpdus[i])
  <2>1. L \in Nat BY LenProperties
  <2>2. \A i \in 1 .. L : g[i - 1] \in S BY <2>1
  <2> QED BY <1>1, <1>2, <2>1, <2>2
<1>4. Is(g)
  <2> QED BY <1>2, <1>3 DEF Then
<1>5. Is(F)
  <2> HIDE DEF Is
  <2> QED BY <1>4
<1>6. PassedBy(o, mpdus) = F[L]
  BY DEF PassedBy, InTurn
<1> HIDE DEF F
<1>7. \A i \in 0 .. L : F[i] = IF i = 0 THEN o ELSE Passed(F[i - 1], mpdus[i])
  BY <1>5 DEF Then
<1>8. \A i \in 0 .. L : F[i] \in S
  <2> DEFINE T == {i \in 0 .. L : F[i] \in S}
  <2>1. 0 \in T BY <1>3, <1>7
  <2>2. ASSUME NEW i \in 0 .. L - 1, i \in T PROVE i + 1 \in T
    <3>1. i + 1 \in 1 .. L /\ i + 1 # 0 /\ (i + 1) - 1 = i BY <1>3
    <3>2. F[i + 1] = Passed(F[i], mpdus[i + 1]) BY <1>7, <3>1
    <3> QED BY <2>2, <3>1, <3>2
  <2> HIDE DEF T
  <2>3. \A i \in 0 .. L : i \in T BY <1>3, <2>1, <2>2, Reaches
  <2> QED BY <2>3 DEF T
<1>9. F \in [0 .. L -> S]
  BY <1>5, <1>8
<1>10. F[0] = o /\ \A i \in 1 .. L : F[i] = Passed(F[i - 1], mpdus[i])
  BY <1>3, <1>7
<1> QED BY <1>6, <1>9, <1>10 DEF Turns

LEMMA StoredIs ==
  ASSUME NEW S, NEW o \in S, NEW mpdus \in Seq(Ids),
         \A a \in S, i \in 1 .. Len(mpdus) : StorePacket(a, mpdus[i]) \in S
  PROVE  \E f :
           /\ Turns(f, S, o, Len(mpdus)) /\ Stored(o, mpdus) = f[Len(mpdus)]
           /\ \A i \in 1 .. Len(mpdus) : f[i] = StorePacket(f[i - 1], mpdus[i])
<1> DEFINE L == Len(mpdus)
           Is(g) == g = [i \in 0 .. L |-> IF i = 0 THEN o
                           ELSE Then(g[i - 1], LAMBDA x : StorePacket(x, mpdus[i]))]
           F == CHOOSE g : Is(g)
<1>1. PICK step \in [S \X (1 .. L) -> S] :
        \A a \in S, i \in 1 .. L : step[<<a, i>>] = StorePacket(a, mpdus[i])
  <2> DEFINE st == [p \in S \X (1 .. L) |-> StorePacket(p[1], mpdus[p[2]])]
  <2>1. \A a \in S, i \in 1 .. L : st[<<a, i>>] = StorePacket(a, mpdus[i]) OBVIOUS
  <2>2. st \in [S \X (1 .. L) -> S] OBVIOUS
  <2> HIDE DEF st
  <2> QED BY <2>1, <2>2
<1>2. PICK g \in [0 .. L -> S] : g[0] = o /\ \A i \in 1 .. L : g[i] = step[<<g[i - 1], i>>]
  <2>1. L \in Nat BY LenProperties
  <2> HIDE DEF L
  <2>2. \E g : Iterates(g, S, L, o, step) BY <2>1, Iterated
  <2> QED BY <2>2 DEF Iterates
<1>3. L \in Nat /\ \A i \in 1 .. L : g[i] = StorePacket(g[i - 1], mpdus[i])
  <2>1. L \in Nat BY LenProperties
  <2>2. \A i \in 1 .. L : g[i - 1] \in S BY <2>1
  <2> QED BY <1>1, <1>2, <2>1, <2>2
<1>4. Is(g)
  <2> QED BY <1>2, <1>3 DEF Then
<1>5. Is(F)
  <2> HIDE DEF Is
  <2> QED BY <1>4
<1>6. Stored(o, mpdus) = F[L]
  BY DEF Stored, InTurn
<1> HIDE DEF F
<1>7. \A i \in 0 .. L : F[i] = IF i = 0 THEN o ELSE StorePacket(F[i - 1], mpdus[i])
  BY <1>5 DEF Then
<1>8. \A i \in 0 .. L : F[i] \in S
  <2> DEFINE T == {i \in 0 .. L : F[i] \in S}
  <2>1. 0 \in T BY <1>3, <1>7
  <2>2. ASSUME NEW i \in 0 .. L - 1, i \in T PROVE i + 1 \in T
    <3>1. i + 1 \in 1 .. L /\ i + 1 # 0 /\ (i + 1) - 1 = i BY <1>3
    <3>2. F[i + 1] = StorePacket(F[i], mpdus[i + 1]) BY <1>7, <3>1
    <3> QED BY <2>2, <3>1, <3>2
  <2> HIDE DEF T
  <2>3. \A i \in 0 .. L : i \in T BY <1>3, <2>1, <2>2, Reaches
  <2> QED BY <2>3 DEF T
<1>9. F \in [0 .. L -> S]
  BY <1>5, <1>8
<1>10. F[0] = o /\ \A i \in 1 .. L : F[i] = StorePacket(F[i - 1], mpdus[i])
  BY <1>3, <1>7
<1> QED BY <1>6, <1>9, <1>10 DEF Turns

LEMMA SettledIs ==
  ASSUME NEW S, NEW o \in S, NEW mpdus \in Seq(Ids), NEW start, NEW received,
         \A a \in S, i \in 1 .. Len(mpdus) : SettleOne(a, mpdus[i], start, received) \in S
  PROVE  \E f :
           /\ Turns(f, S, o, Len(mpdus)) /\ Settled(o, mpdus, start, received) = f[Len(mpdus)]
           /\ \A i \in 1 .. Len(mpdus) : f[i] = SettleOne(f[i - 1], mpdus[i], start, received)
<1> DEFINE L == Len(mpdus)
           Is(g) == g = [i \in 0 .. L |-> IF i = 0 THEN o
                           ELSE Then(g[i - 1], LAMBDA x : SettleOne(x, mpdus[i], start, received))]
           F == CHOOSE g : Is(g)
<1>1. PICK step \in [S \X (1 .. L) -> S] :
        \A a \in S, i \in 1 .. L : step[<<a, i>>] = SettleOne(a, mpdus[i], start, received)
  <2> DEFINE st == [p \in S \X (1 .. L) |-> SettleOne(p[1], mpdus[p[2]], start, received)]
  <2>1. \A a \in S, i \in 1 .. L : st[<<a, i>>] = SettleOne(a, mpdus[i], start, received) OBVIOUS
  <2>2. st \in [S \X (1 .. L) -> S] OBVIOUS
  <2> HIDE DEF st
  <2> QED BY <2>1, <2>2
<1>2. PICK g \in [0 .. L -> S] : g[0] = o /\ \A i \in 1 .. L : g[i] = step[<<g[i - 1], i>>]
  <2>1. L \in Nat BY LenProperties
  <2> HIDE DEF L
  <2>2. \E g : Iterates(g, S, L, o, step) BY <2>1, Iterated
  <2> QED BY <2>2 DEF Iterates
<1>3. L \in Nat /\ \A i \in 1 .. L : g[i] = SettleOne(g[i - 1], mpdus[i], start, received)
  <2>1. L \in Nat BY LenProperties
  <2>2. \A i \in 1 .. L : g[i - 1] \in S BY <2>1
  <2> QED BY <1>1, <1>2, <2>1, <2>2
<1>4. Is(g)
  <2> QED BY <1>2, <1>3 DEF Then
<1>5. Is(F)
  <2> HIDE DEF Is
  <2> QED BY <1>4
<1>6. Settled(o, mpdus, start, received) = F[L]
  BY DEF Settled, InTurn
<1> HIDE DEF F
<1>7. \A i \in 0 .. L : F[i] = IF i = 0 THEN o ELSE SettleOne(F[i - 1], mpdus[i], start, received)
  BY <1>5 DEF Then
<1>8. \A i \in 0 .. L : F[i] \in S
  <2> DEFINE T == {i \in 0 .. L : F[i] \in S}
  <2>1. 0 \in T BY <1>3, <1>7
  <2>2. ASSUME NEW i \in 0 .. L - 1, i \in T PROVE i + 1 \in T
    <3>1. i + 1 \in 1 .. L /\ i + 1 # 0 /\ (i + 1) - 1 = i BY <1>3
    <3>2. F[i + 1] = SettleOne(F[i], mpdus[i + 1], start, received) BY <1>7, <3>1
    <3> QED BY <2>2, <3>1, <3>2
  <2> HIDE DEF T
  <2>3. \A i \in 0 .. L : i \in T BY <1>3, <2>1, <2>2, Reaches
  <2> QED BY <2>3 DEF T
<1>9. F \in [0 .. L -> S]
  BY <1>5, <1>8
<1>10. F[0] = o /\ \A i \in 1 .. L : F[i] = SettleOne(F[i - 1], mpdus[i], start, received)
  BY <1>3, <1>7
<1> QED BY <1>6, <1>9, <1>10 DEF Turns

(* G[i] has what may become of r after i of the list.                      *)
LEMMA HeardIs ==
  ASSUME NEW S, NEW r \in S, NEW mpdus \in Seq(Ids), NEW got,
         NEW G \in [0 .. Len(mpdus) -> SUBSET S], r \in G[0],
         \A i \in 1 .. Len(mpdus) : \A a \in G[i - 1] : HeardOne(a, mpdus[i], got) \in G[i]
  PROVE  Heard(r, mpdus, got) \in G[Len(mpdus)]
<1> DEFINE L == Len(mpdus)
           Is(g) == g = [i \in 0 .. L |-> IF i = 0 THEN r
                           ELSE Then(g[i - 1], LAMBDA x : HeardOne(x, mpdus[i], got))]
           F == CHOOSE g : Is(g)
<1>0. L \in Nat
  BY LenProperties
<1>1. PICK step \in [S \X (1 .. L) -> S] :
        \A a \in S, i \in 1 .. L :
          HeardOne(a, mpdus[i], got) \in S => step[<<a, i>>] = HeardOne(a, mpdus[i], got)
  <2> DEFINE next(p) == HeardOne(p[1], mpdus[p[2]], got)
             st == [p \in S \X (1 .. L) |-> IF next(p) \in S THEN next(p) ELSE r]
  <2>1. \A a \in S, i \in 1 .. L :
          HeardOne(a, mpdus[i], got) \in S => st[<<a, i>>] = HeardOne(a, mpdus[i], got)
    OBVIOUS
  <2>2. st \in [S \X (1 .. L) -> S] OBVIOUS
  <2> HIDE DEF st
  <2> QED BY <2>1, <2>2
<1>2. PICK g \in [0 .. L -> S] : g[0] = r /\ \A i \in 1 .. L : g[i] = step[<<g[i - 1], i>>]
  <2> HIDE DEF L
  <2>1. \E g : Iterates(g, S, L, r, step) BY <1>0, Iterated
  <2> QED BY <2>1 DEF Iterates
<1>3. ASSUME NEW h, h[0] = r,
             \A i \in 1 .. L : h[i - 1] \in G[i - 1] => h[i] = HeardOne(h[i - 1], mpdus[i], got)
      PROVE  \A i \in 0 .. L : h[i] \in G[i]
  <2> DEFINE T == {i \in 0 .. L : h[i] \in G[i]}
  <2>1. 0 \in T BY <1>0, <1>3
  <2>2. ASSUME NEW i \in 0 .. L - 1, i \in T PROVE i + 1 \in T
    <3>1. i + 1 \in 1 .. L /\ (i + 1) - 1 = i BY <1>0
    <3>2. h[i + 1] = HeardOne(h[i], mpdus[i + 1], got) BY <1>3, <2>2, <3>1
    <3>3. HeardOne(h[i], mpdus[i + 1], got) \in G[i + 1] BY <2>2, <3>1
    <3> QED BY <3>1, <3>2, <3>3
  <2> HIDE DEF T
  <2>3. \A i \in 0 .. L : i \in T BY <1>0, <2>1, <2>2, Reaches
  <2> QED BY <2>3 DEF T
<1>4. ASSUME NEW i \in 1 .. L, g[i - 1] \in G[i - 1]
      PROVE  g[i] = HeardOne(g[i - 1], mpdus[i], got)
  <2>1. i - 1 \in 0 .. L /\ i \in 0 .. L BY <1>0
  <2>2. HeardOne(g[i - 1], mpdus[i], got) \in S BY <1>4, <2>1
  <2> QED BY <1>1, <1>2, <2>1, <2>2
<1>5. \A i \in 0 .. L : g[i] \in G[i]
  BY <1>2, <1>3, <1>4
<1>6. \A i \in 1 .. L : g[i] = HeardOne(g[i - 1], mpdus[i], got)
  <2>1. \A i \in 1 .. L : i - 1 \in 0 .. L BY <1>0
  <2> QED BY <1>4, <1>5, <2>1
<1>7. Is(g)
  BY <1>0, <1>2, <1>6 DEF Then
<1>8. Is(F)
  <2> HIDE DEF Is
  <2> QED BY <1>7
<1>9. Heard(r, mpdus, got) = F[L]
  BY DEF Heard, InTurn
<1> HIDE DEF F
<1>10. \A i \in 0 .. L : F[i] = IF i = 0 THEN r ELSE HeardOne(F[i - 1], mpdus[i], got)
  BY <1>8 DEF Then
<1>11. F[0] = r /\ \A i \in 1 .. L : F[i] = HeardOne(F[i - 1], mpdus[i], got)
  BY <1>0, <1>10
<1>12. \A i \in 0 .. L : F[i] \in G[i]
  BY <1>3, <1>11
<1> QED BY <1>0, <1>9, <1>12

LEMMA OnceEachIs ==
  ASSUME NEW S, NEW mpdus \in Seq(Ids), <<>> \in S,
         \A a \in S, i \in 1 .. Len(mpdus) : PassOne(a, mpdus[i]) \in S
  PROVE  \E f :
           /\ Turns(f, S, <<>>, Len(mpdus)) /\ OnceEach(mpdus) = f[Len(mpdus)]
           /\ \A i \in 1 .. Len(mpdus) : f[i] = PassOne(f[i - 1], mpdus[i])
<1> DEFINE L == Len(mpdus)
           Is(g) == g = [i \in 0 .. L |-> IF i = 0 THEN <<>>
                           ELSE Then(g[i - 1], LAMBDA x : PassOne(x, mpdus[i]))]
           F == CHOOSE g : Is(g)
<1>1. PICK step \in [S \X (1 .. L) -> S] :
        \A a \in S, i \in 1 .. L : step[<<a, i>>] = PassOne(a, mpdus[i])
  <2> DEFINE st == [p \in S \X (1 .. L) |-> PassOne(p[1], mpdus[p[2]])]
  <2>1. \A a \in S, i \in 1 .. L : st[<<a, i>>] = PassOne(a, mpdus[i]) OBVIOUS
  <2>2. st \in [S \X (1 .. L) -> S] OBVIOUS
  <2> HIDE DEF st
  <2> QED BY <2>1, <2>2
<1>2. PICK g \in [0 .. L -> S] : g[0] = <<>> /\ \A i \in 1 .. L : g[i] = step[<<g[i - 1], i>>]
  <2>1. L \in Nat BY LenProperties
  <2> HIDE DEF L
  <2>2. \E g : Iterates(g, S, L, <<>>, step) BY <2>1, Iterated
  <2> QED BY <2>2 DEF Iterates
<1>3. L \in Nat /\ \A i \in 1 .. L : g[i] = PassOne(g[i - 1], mpdus[i])
  <2>1. L \in Nat BY LenProperties
  <2>2. \A i \in 1 .. L : g[i - 1] \in S BY <2>1
  <2> QED BY <1>1, <1>2, <2>1, <2>2
<1>4. Is(g)
  <2> QED BY <1>2, <1>3 DEF Then
<1>5. Is(F)
  <2> HIDE DEF Is
  <2> QED BY <1>4
<1>6. OnceEach(mpdus) = F[L]
  BY DEF OnceEach, InTurn
<1> HIDE DEF F
<1>7. \A i \in 0 .. L : F[i] = IF i = 0 THEN <<>> ELSE PassOne(F[i - 1], mpdus[i])
  BY <1>5 DEF Then
<1>8. \A i \in 0 .. L : F[i] \in S
  <2> DEFINE T == {i \in 0 .. L : F[i] \in S}
  <2>1. 0 \in T BY <1>3, <1>7
  <2>2. ASSUME NEW i \in 0 .. L - 1, i \in T PROVE i + 1 \in T
    <3>1. i + 1 \in 1 .. L /\ i + 1 # 0 /\ (i + 1) - 1 = i BY <1>3
    <3>2. F[i + 1] = PassOne(F[i], mpdus[i + 1]) BY <1>7, <3>1
    <3> QED BY <2>2, <3>1, <3>2
  <2> HIDE DEF T
  <2>3. \A i \in 0 .. L : i \in T BY <1>3, <2>1, <2>2, Reaches
  <2> QED BY <2>3 DEF T
<1>9. F \in [0 .. L -> S]
  BY <1>5, <1>8
<1>10. F[0] = <<>> /\ \A i \in 1 .. L : F[i] = PassOne(F[i - 1], mpdus[i])
  BY <1>3, <1>7
<1> QED BY <1>6, <1>9, <1>10 DEF Turns

-----------------------------------------------------------------------------
(* The transmit window.                                                    *)

Numbers(a, b) == {NumberOf(i) : i \in a .. b}

LEMMA HasNumber ==
  ASSUME NEW a \in Int, NEW b \in Int, NEW i \in Int, b - SeqSpace < i, i < a + SeqSpace
  PROVE  NumberOf(i) \in Numbers(a, b) <=> i \in a .. b
<1>1. ASSUME NumberOf(i) \in Numbers(a, b) PROVE i \in a .. b
  <2>1. PICK j \in a .. b : NumberOf(i) = NumberOf(j) BY <1>1 DEF Numbers
  <2>2. j \in Int /\ -SeqSpace < i - j /\ i - j < SeqSpace BY Sizes
  <2>3. i = j BY <2>1, <2>2, SameNumber
  <2> QED BY <2>3
<1> QED BY <1>1 DEF Numbers

Originators ==
  [start : Seqs, acked : SUBSET Seqs, outstanding : SUBSET Ids, retry : SUBSET Ids,
   bar : [kind : {"none", "bar", "skip"}, start : Seqs \cup {NoSeq}]]

(* The window of the originator's record o starts at the MSDU A, the N     *)
(* first having their numbers.                                             *)
Starts(o, N, A) ==
  /\ A \in Nat /\ A =< N /\ N =< A + WinSize
  /\ o.start = NumberOf(A) /\ NumberOf(A) \notin o.acked
  /\ o.acked \subseteq Numbers(A, N - 1)

(* From o to p the window moves over c MSDUs, and then over those that are *)
(* acknowledged, to B.                                                     *)
MovesTo(o, p, N, A, c, B) ==
  /\ A + c =< B /\ Starts(p, N, B) /\ p \in Originators
  /\ p = [o EXCEPT !.start = NumberOf(B), !.acked = @ \ Numbers(A, B - 1)]
  /\ \A i \in A + c .. B - 1 : NumberOf(i) \in o.acked

LEMMA MovedIs ==
  ASSUME NEW o \in Originators, NEW N \in Nat, NEW A \in Nat, NEW c \in Nat,
         A + c =< N, N =< A + WinSize, o.start = NumberOf(A), o.acked \subseteq Numbers(A, N - 1)
  PROVE  \E B \in Nat : MovesTo(o, Moved(o, c), N, A, c, B)
<1> DEFINE start == (o.start + c) % SeqSpace
           acked == o.acked \ Span(o.start, c)
           free == {i \in 0 .. WinSize : (start + i) % SeqSpace \notin acked}
           run == Min(free)
           B == A + c + run
<1>1. start = NumberOf(A + c)
  BY Shift
<1>2. \A i \in Int : (start + i) % SeqSpace = NumberOf(A + c + i)
  BY <1>1, Shift
<1>3. Span(o.start, c) = Numbers(A, A + c - 1)
  BY SpanAt DEF Numbers
<1>4. acked = o.acked \ Numbers(A, A + c - 1)
  BY <1>3
<1> HIDE DEF start, acked
<1>5. WinSize \in free
  <2>1. NumberOf(A + c + WinSize) \in Numbers(A, N - 1) <=> A + c + WinSize \in A .. N - 1
    BY HasNumber, Sizes
  <2>2. NumberOf(A + c + WinSize) \notin o.acked BY <2>1, Sizes
  <2> QED BY <1>2, <1>4, <2>2, Sizes
<1>6. run \in free /\ \A i \in free : run =< i
  <2>1. free \subseteq Nat /\ free # {} BY <1>5, Sizes
  <2> HIDE DEF free
  <2> QED BY <2>1, MinIs
<1>7. run \in 0 .. WinSize /\ NumberOf(B) \notin acked
  <2>1. run \in 0 .. WinSize /\ (start + run) % SeqSpace \notin acked BY <1>6
  <2> HIDE DEF run
  <2> QED BY <1>2, <2>1, Sizes
<1> HIDE DEF run
<1>8. ASSUME NEW i \in A + c .. B - 1 PROVE NumberOf(i) \in acked
  <2>1. i - A - c \in 0 .. WinSize /\ i - A - c < run /\ A + c + (i - A - c) = i
    BY <1>7, Sizes
  <2>2. i - A - c \notin free BY <1>6, <1>7, <2>1
  <2>3. (start + (i - A - c)) % SeqSpace \in acked BY <2>1, <2>2
  <2> QED BY <1>2, <2>1, <2>3
<1>9. B =< N
  <2>1. SUFFICES ASSUME N < B PROVE FALSE
    BY <1>7
  <2>2. NumberOf(B - 1) \in o.acked
    <3>1. B - 1 \in A + c .. B - 1 BY <1>7, <2>1
    <3> HIDE DEF B
    <3> QED BY <1>8, <3>1, <1>4
  <2>3. NumberOf(B - 1) \in Numbers(A, N - 1) <=> B - 1 \in A .. N - 1
    BY HasNumber, Sizes, <1>7
  <2> QED BY <2>1, <2>2, <2>3, <1>7
<1>10. Span(start, run) = Numbers(A + c, B - 1)
  BY <1>1, <1>7, SpanAt DEF Numbers
<1>11. Numbers(A, B - 1) = Numbers(A, A + c - 1) \cup Numbers(A + c, B - 1)
  <2>1. A .. B - 1 = A .. A + c - 1 \cup (A + c .. B - 1) BY <1>7
  <2> QED BY <2>1 DEF Numbers
<1> DEFINE left == o.acked \ Numbers(A, B - 1)
<1>12. Moved(o, c) = [o EXCEPT !.start = NumberOf(B), !.acked = left]
  <2>1. Moved(o, c) = [o EXCEPT !.start = (start + run) % SeqSpace,
                                !.acked = acked \ Span(start, run)]
    BY DEF Moved, start, acked, run, free
  <2>2. (start + run) % SeqSpace = NumberOf(B) BY <1>2, <1>7
  <2>3. acked \ Span(start, run) = left BY <1>4, <1>10, <1>11
  <2> HIDE DEF B, left
  <2> QED BY <2>1, <2>2, <2>3
<1>13. left \subseteq Numbers(B, N - 1)
  <2>1. A .. N - 1 = A .. B - 1 \cup (B .. N - 1) BY <1>7, <1>9
  <2>2. Numbers(A, N - 1) = Numbers(A, B - 1) \cup Numbers(B, N - 1) BY <2>1 DEF Numbers
  <2> QED BY <2>2
<1>14. NumberOf(B) \notin left
  BY <1>4, <1>7, <1>11
<1>15. B \in Nat /\ A + c =< B /\ N =< B + WinSize /\ NumberOf(B) \in Seqs
  BY <1>7, NumberType, Sizes
<1>16. left \in SUBSET Seqs
  BY DEF Originators
<1>17. \A i \in A + c .. B - 1 : NumberOf(i) \in o.acked
  BY <1>4, <1>8
<1> HIDE DEF B, left
<1>18. Moved(o, c) \in Originators
  BY <1>12, <1>15, <1>16 DEF Originators
<1>19. Starts(Moved(o, c), N, B)
  BY <1>9, <1>12, <1>13, <1>14, <1>15 DEF Starts, Originators
<1> QED BY <1>12, <1>15, <1>17, <1>18, <1>19 DEF left, MovesTo

(* The frames that o keeps are among the last WinSize that have numbers;   *)
(* but for those of X and Y, which are about to leave, they are not before *)
(* the window, nor acknowledged, nor kept twice.                           *)
Keeps(o, N, A, X, Y) ==
  /\ \A m \in o.outstanding :
       /\ N - WinSize =< m /\ m < N
       /\ m \notin X => A =< m /\ NumberOf(m) \notin o.acked /\ m \notin o.retry
  /\ \A m \in o.retry :
       /\ N - WinSize =< m /\ m < N
       /\ m \notin Y => A =< m /\ NumberOf(m) \notin o.acked

(* Each frame of the window is kept, or acknowledged.                      *)
Covers(o, N, A, Z) ==
  \A i \in A .. N - 1 :
    i \in Z \/ i \in o.outstanding \/ i \in o.retry \/ NumberOf(i) \in o.acked

LEMMA PlaceOf ==
  ASSUME NEW o, NEW N \in Nat, NEW A \in Nat, N =< A + WinSize, A =< N,
         o.start = NumberOf(A), NEW m \in Int, N - WinSize =< m, m < N
  PROVE  /\ Stale(o, m) <=> m < A
         /\ A =< m => DistanceOf(o, m) = m - A
         /\ m < A => DistanceOf(o, m) = m - A + SeqSpace
<1>1. -Half =< m - A /\ m - A < Half
  BY Sizes
<1>2. IsOld(NumberOf(A), NumberOf(m)) <=> m < A
  BY <1>1, OldOrNot
<1>3. Dist(NumberOf(A), NumberOf(m)) = IF A =< m THEN m - A ELSE m - A + SeqSpace
  BY <1>1, Distance, Sizes
<1> QED BY <1>2, <1>3 DEF Stale, DistanceOf

(* What is kept when the window moves on.                                  *)
LEMMA KeptOn ==
  ASSUME NEW o \in Originators, NEW p \in Originators, NEW N \in Nat, NEW A \in Nat, NEW B \in Nat,
         NEW X, NEW Y, NEW Z, NEW c \in Nat, A + c =< B, N =< A + WinSize, B =< N,
         Keeps(o, N, A, X, Y), Covers(o, N, A, Z),
         \A n \in o.outstanding : n \in X \/ A + c =< n,
         \A n \in o.retry : n \in Y \/ A + c =< n,
         \A i \in A + c .. B - 1 : NumberOf(i) \in o.acked,
         p.outstanding = o.outstanding, p.retry = o.retry, p.acked = o.acked \ Numbers(A, B - 1)
  PROVE  /\ Keeps(p, N, B, X, Y) /\ Covers(p, N, B, Z)
         /\ \A i \in B .. N - 1 : NumberOf(i) \in p.acked <=> NumberOf(i) \in o.acked
<1>1. ASSUME NEW n \in Int, n < N, A + c =< n, NumberOf(n) \notin o.acked PROVE B =< n
  <2>1. ASSUME n < B PROVE FALSE
    <3>1. n \in A + c .. B - 1 BY <1>1, <2>1
    <3> QED BY <3>1, <1>1
  <2> QED BY <2>1, <1>1
<1>2. ASSUME NEW i \in B .. N - 1 PROVE NumberOf(i) \in p.acked <=> NumberOf(i) \in o.acked
  <2>1. NumberOf(i) \in Numbers(A, B - 1) <=> i \in A .. B - 1 BY HasNumber, Sizes
  <2>2. NumberOf(i) \notin Numbers(A, B - 1) BY <2>1
  <2> QED BY <2>2
<1>3. \A n \in o.outstanding \cup o.retry : n \in Int
  BY Sizes DEF Originators, Ids
<1>4. Keeps(p, N, B, X, Y)
  <2>1. ASSUME NEW m \in o.outstanding, m \notin X
        PROVE  B =< m /\ NumberOf(m) \notin p.acked /\ m \notin p.retry
    <3>1. A + c =< m /\ NumberOf(m) \notin o.acked /\ m \notin o.retry /\ m < N /\ m \in Int
      BY <1>3, <2>1 DEF Keeps
    <3> QED BY <1>1, <3>1
  <2>2. ASSUME NEW m \in o.retry, m \notin Y
        PROVE  B =< m /\ NumberOf(m) \notin p.acked
    <3>1. A + c =< m /\ NumberOf(m) \notin o.acked /\ m < N /\ m \in Int
      BY <1>3, <2>2 DEF Keeps
    <3> QED BY <1>1, <3>1
  <2> QED BY <2>1, <2>2 DEF Keeps
<1>5. Covers(p, N, B, Z)
  <2>1. ASSUME NEW i \in B .. N - 1
        PROVE  i \in Z \/ i \in p.outstanding \/ i \in p.retry \/ NumberOf(i) \in p.acked
    <3>1. i \in A .. N - 1 OBVIOUS
    <3> QED BY <3>1, <1>2 DEF Covers
  <2> QED BY <2>1 DEF Covers
<1> QED BY <1>2, <1>4, <1>5

(* From o to p the window moves from A to B, and the one frame m is        *)
(* acknowledged.                                                           *)
Acks(o, p, m, N, A, B) ==
  /\ A =< B /\ Starts(p, N, B)
  /\ \A i \in A .. N - 1 : i < B \/ NumberOf(i) \in p.acked => i = m \/ NumberOf(i) \in o.acked
  /\ \A i \in B .. N - 1 : NumberOf(i) \in o.acked => NumberOf(i) \in p.acked
  /\ m < B \/ NumberOf(m) \in p.acked

LEMMA AckedIs ==
  ASSUME NEW o \in Originators, NEW N \in Nat, NEW A, NEW X, NEW Y, NEW Z, NEW m \in Ids,
         Starts(o, N, A), Keeps(o, N, A, X, Y), Covers(o, N, A, Z),
         N - WinSize =< m, m < N, m \in o.outstanding => m \in X, m \in o.retry => m \in Y,
         NEW p, p = NotifyAckedMpdu(o, m)
  PROVE  /\ p \in Originators
         /\ p.outstanding = o.outstanding /\ p.retry = o.retry /\ p.bar = o.bar
         /\ \E B \in Nat :
              Acks(o, p, m, N, A, B) /\ Keeps(p, N, B, X, Y) /\ Covers(p, N, B, Z \ {m})
<1>1. A \in Nat /\ A =< N /\ N =< A + WinSize /\ o.start = NumberOf(A) /\ m \in Int
  BY Sizes DEF Starts, Ids
<1>2. Stale(o, m) <=> m < A
  BY <1>1, PlaceOf
<1>3. CASE m < A
  <2>1. p = o BY <1>2, <1>3 DEF NotifyAckedMpdu
  <2>2. Covers(o, N, A, Z \ {m}) BY <1>1, <1>3 DEF Covers
  <2>3. Acks(o, p, m, N, A, A) BY <1>1, <1>3, <2>1 DEF Acks
  <2> QED BY <1>1, <1>3, <2>1, <2>2, <2>3
<1>4. CASE A =< m
  <2> DEFINE q == [o EXCEPT !.acked = @ \cup {NumberOf(m)}]
  <2>0. PICK c \in Nat : c = 0 OBVIOUS
  <2>1. p = Moved(q, c) BY <2>0, <1>1, <1>2, <1>4 DEF NotifyAckedMpdu
  <2>2. q.acked = o.acked \cup {NumberOf(m)} /\ q.start = o.start /\ q.bar = o.bar
        /\ q.outstanding = o.outstanding /\ q.retry = o.retry
    BY DEF Originators
  <2>3. q \in Originators BY <1>1, NumberType DEF Originators
  <2>4. q.acked \subseteq Numbers(A, N - 1)
    <3>1. m \in A .. N - 1 BY <1>1, <1>4
    <3> QED BY <3>1, <2>2 DEF Starts, Numbers
  <2> HIDE DEF q
  <2>5. PICK B \in Nat :
          /\ A + c =< B /\ Starts(p, N, B) /\ p \in Originators
          /\ p = [q EXCEPT !.start = NumberOf(B), !.acked = @ \ Numbers(A, B - 1)]
          /\ \A i \in A + c .. B - 1 : NumberOf(i) \in q.acked
    <3>1. A + c =< N /\ N =< A + WinSize /\ q.start = NumberOf(A) BY <1>1, <2>0, <2>2
    <3>2. \E B \in Nat : MovesTo(q, Moved(q, c), N, A, c, B) BY <3>1, <2>3, <2>4, <1>1, MovedIs
    <3> QED BY <3>2, <2>1 DEF MovesTo
  <2>6. p.outstanding = q.outstanding /\ p.retry = q.retry /\ p.bar = q.bar
        /\ p.acked = q.acked \ Numbers(A, B - 1)
    BY <2>3, <2>5 DEF Originators
  <2>7. \A i \in A .. N - 1 : i # m => NumberOf(i) # NumberOf(m)
    BY <1>1, SameNumber, Sizes
  <2>8. Keeps(q, N, A, X, Y)
    <3>1. ASSUME NEW n \in o.outstanding \cup o.retry, A =< n, n < N, n # m
          PROVE  NumberOf(n) # NumberOf(m)
      <4>1. n \in A .. N - 1 BY <3>1, <1>1, Sizes DEF Originators, Ids
      <4> QED BY <4>1, <3>1, <2>7
    <3> QED BY <2>2, <3>1 DEF Keeps
  <2>9. Covers(q, N, A, Z \ {m}) BY <2>2 DEF Covers
  <2>10. B =< N BY <2>5 DEF Starts
  <2>11. /\ \A n \in q.outstanding : n \in X \/ A + c =< n
         /\ \A n \in q.retry : n \in Y \/ A + c =< n
    <3>1. \A n \in q.outstanding \cup q.retry : n \in Int
      BY <2>3, Sizes DEF Originators, Ids
    <3> QED BY <2>0, <2>8, <3>1, <1>1 DEF Keeps
  <2>12. /\ Keeps(p, N, B, X, Y) /\ Covers(p, N, B, Z \ {m})
         /\ \A i \in B .. N - 1 : NumberOf(i) \in p.acked <=> NumberOf(i) \in q.acked
    <3> QED BY <1>1, <2>3, <2>5, <2>6, <2>8, <2>9, <2>10, <2>11, KeptOn
  <2>13. ASSUME NEW i \in A .. N - 1, i < B \/ NumberOf(i) \in p.acked
         PROVE  i = m \/ NumberOf(i) \in o.acked
    <3>1. NumberOf(i) \in q.acked
      <4>1. i < B => i \in A + c .. B - 1 BY <1>1, <2>0
      <4> QED BY <4>1, <2>5, <2>6, <2>13
    <3> QED BY <3>1, <2>2, <2>7
  <2>14. m < B \/ NumberOf(m) \in p.acked
    <3>1. m \in B .. N - 1 \/ m < B BY <1>1
    <3> QED BY <3>1, <2>2, <2>12
  <2>15. A =< B BY <1>1, <2>0, <2>5
  <2> QED BY <1>1, <2>2, <2>5, <2>6, <2>15, <2>12, <2>13, <2>14 DEF Acks
<1>5. m < A \/ A =< m
  BY <1>1
<1> QED BY <1>3, <1>4, <1>5, Zenon

(* A frame that is to be sent again.                                       *)
TriesAgain(o, p, m, N, A, X, Y, Z) ==
  /\ p \in Originators
  /\ p.start = o.start /\ p.acked = o.acked /\ p.outstanding = o.outstanding
  /\ p.bar = o.bar /\ p.retry = o.retry \cup {n \in {m} : A =< m}
  /\ Starts(p, N, A) /\ Keeps(p, N, A, X, Y) /\ Covers(p, N, A, Z \ {m})

LEMMA RetriedIs ==
  ASSUME NEW o \in Originators, NEW N \in Nat, NEW A, NEW X, NEW Y, NEW Z, NEW m \in Ids,
         Starts(o, N, A), Keeps(o, N, A, X, Y), Covers(o, N, A, Z), N - WinSize =< m, m < N,
         A =< m => (m \in Y \/ NumberOf(m) \notin o.acked) /\ (m \in o.outstanding => m \in X),
         NEW p, p = InsertInRetryQueue(o, m)
  PROVE  TriesAgain(o, p, m, N, A, X, Y, Z)
<1> USE DEF TriesAgain
<1>1. A \in Nat /\ A =< N /\ N =< A + WinSize /\ o.start = NumberOf(A) /\ m \in Int
  BY Sizes DEF Starts, Ids
<1>2. Stale(o, m) <=> m < A
  BY <1>1, PlaceOf
<1>3. CASE m < A
  <2>1. p = o BY <1>2, <1>3 DEF InsertInRetryQueue
  <2>2. Covers(o, N, A, Z \ {m}) BY <1>1, <1>3 DEF Covers
  <2> QED BY <1>1, <1>3, <2>1, <2>2
<1>4. CASE A =< m
  <2>1. p = [o EXCEPT !.retry = @ \cup {m}]
    BY <1>1, <1>2, <1>4 DEF InsertInRetryQueue
  <2>2. /\ p \in Originators /\ p.start = o.start /\ p.acked = o.acked
        /\ p.outstanding = o.outstanding /\ p.bar = o.bar /\ p.retry = o.retry \cup {m}
    BY <2>1 DEF Originators
  <2>3. Starts(p, N, A) BY <2>2 DEF Starts
  <2>4. Keeps(p, N, A, X, Y) BY <1>4, <2>2 DEF Keeps
  <2>5. Covers(p, N, A, Z \ {m}) BY <2>2 DEF Covers
  <2> QED BY <1>4, <2>2, <2>3, <2>4, <2>5
<1>5. m < A \/ A =< m
  BY <1>1
<1> QED BY <1>3, <1>4, <1>5, Zenon

(* From o to p the window moves from A to B and frames are given up, those *)
(* of the window that are outstanding only if it moves past them.          *)
Narrows(o, p, N, A, B) ==
  /\ p \in Originators /\ B \in Nat /\ A =< B /\ Starts(p, N, B)
  /\ p.outstanding \subseteq o.outstanding /\ p.retry \subseteq o.retry
  /\ \A n \in o.outstanding : n \in p.outstanding \/ n < B
  /\ \A i \in B .. N - 1 : NumberOf(i) \in p.acked <=> NumberOf(i) \in o.acked

LEMMA NarrowsOn ==
  ASSUME NEW o \in Originators, NEW p, NEW q, NEW N \in Nat, NEW A \in Nat, NEW B, NEW C,
         Narrows(o, p, N, A, B), Narrows(p, q, N, B, C)
  PROVE  Narrows(o, q, N, A, C)
<1>1. \A n \in o.outstanding : n \in Int
  BY Sizes DEF Originators, Ids
<1>2. A \in Nat /\ B \in Nat /\ C \in Nat /\ A =< B /\ B =< C
  BY DEF Narrows
<1>3. \A i \in C .. N - 1 : i \in B .. N - 1
  BY <1>2
<1>4. \A n \in o.outstanding : n \in q.outstanding \/ n < C
  BY <1>1, <1>2 DEF Narrows
<1> QED BY <1>2, <1>3, <1>4 DEF Narrows

LEMMA NarrowsNot ==
  ASSUME NEW o \in Originators, NEW N, NEW A, Starts(o, N, A)
  PROVE  Narrows(o, o, N, A, A)
BY DEF Narrows, Starts

(* A frame m that is given up with every frame before it.                  *)
GivesUp(o, p, m, N, A, X, Y, Z) ==
  \E B \in Nat :
    /\ Narrows(o, p, N, A, B) /\ m < B
    /\ Keeps(p, N, B, X, Y) /\ Covers(p, N, B, Z)
    /\ \A n \in o.outstanding : n \in p.outstanding \/ n =< m
    /\ \A n \in o.retry : n \in p.retry \/ (n =< m /\ ~ IsExpired(n))
    /\ (m < A /\ p = o /\ B = A) \/ (A =< m /\ p.bar.kind = "bar")

LEMMA GivenUpIs ==
  ASSUME NEW o \in Originators, NEW N \in Nat, NEW A, NEW X, NEW Y, NEW Z, NEW m \in Ids,
         Starts(o, N, A), Keeps(o, N, A, X, Y), Covers(o, N, A, Z), N - WinSize =< m, m < N,
         \A n \in o.retry : IsExpired(n) => n \in Y,
         NEW p, p = NotifyDiscardedMpdu(o, m)
  PROVE  GivesUp(o, p, m, N, A, X, Y, Z)
<1> USE DEF GivesUp
<1>1. A \in Nat /\ A =< N /\ N =< A + WinSize /\ o.start = NumberOf(A) /\ m \in Int
  BY Sizes DEF Starts, Ids
<1>2. Stale(o, m) <=> m < A
  BY <1>1, PlaceOf
<1>3. CASE m < A
  <2>1. p = o BY <1>2, <1>3 DEF NotifyDiscardedMpdu
  <2>2. Narrows(o, p, N, A, A) BY <2>1, NarrowsNot
  <2> QED BY <1>1, <1>3, <2>1, <2>2
<1>4. CASE A =< m
  <2> DEFINE upTo(n) == DistanceOf(o, n) =< DistanceOf(o, m)
             retry == {n \in o.retry : ~ upTo(n) \/ IsExpired(n)}
             outstanding == {n \in o.outstanding : ~ upTo(n)}
             q == [o EXCEPT !.retry = retry, !.outstanding = outstanding]
  <2>1. DistanceOf(o, m) = m - A /\ ~ Stale(o, m)
    BY <1>1, <1>2, <1>4, PlaceOf
  <2>2. PICK c \in Nat : c = m - A + 1
    BY <1>1, <1>4
  <2> DEFINE next == Moved(q, c)
  <2>3. p = [next EXCEPT !.bar = [kind |-> "bar", start |-> next.start]]
    <3>1. DistanceOf(o, m) + 1 = c BY <2>1, <2>2
    <3> QED BY <2>1, <3>1 DEF NotifyDiscardedMpdu
  <2>4. \A n \in o.outstanding \cup o.retry : n \in Int /\ N - WinSize =< n /\ n < N
    BY Sizes DEF Originators, Ids, Keeps
  <2>5. ASSUME NEW n \in o.outstanding \cup o.retry PROVE upTo(n) <=> A =< n /\ n =< m
    <3>1. n \in Int /\ N - WinSize =< n /\ n < N BY <2>4
    <3>2. A =< n => DistanceOf(o, n) = n - A BY <3>1, <1>1, PlaceOf
    <3>3. n < A => DistanceOf(o, n) = n - A + SeqSpace BY <3>1, <1>1, PlaceOf
    <3> QED BY <3>1, <3>2, <3>3, <2>1, <1>1, <1>4, Sizes
  <2>6. /\ \A n \in o.outstanding : n \in outstanding \/ n =< m
        /\ \A n \in o.retry : n \in retry \/ (n =< m /\ ~ IsExpired(n))
    <3> HIDE DEF upTo
    <3> QED BY <2>5
  <2>7. /\ \A n \in outstanding : n \in X \/ A + c =< n
        /\ \A n \in retry : n \in Y \/ A + c =< n
    <3>1. ASSUME NEW n \in outstanding, n \notin X PROVE A + c =< n
      <4>1. n \in o.outstanding /\ A =< n BY <3>1 DEF Keeps
      <4>2. ~ upTo(n) BY <3>1
      <4> HIDE DEF upTo
      <4> QED BY <4>1, <4>2, <2>2, <2>4, <2>5, <1>1
    <3>2. ASSUME NEW n \in retry, n \notin Y PROVE A + c =< n
      <4>1. n \in o.retry /\ A =< n BY <3>2 DEF Keeps
      <4>2. ~ upTo(n) BY <3>2, <4>1
      <4> HIDE DEF upTo
      <4> QED BY <4>1, <4>2, <2>2, <2>4, <2>5, <1>1
    <3> QED BY <3>1, <3>2
  <2>8. retry \subseteq o.retry /\ outstanding \subseteq o.outstanding
    OBVIOUS
  <2> HIDE DEF retry, outstanding
  <2>9. /\ q \in Originators /\ q.acked = o.acked /\ q.start = o.start
        /\ q.outstanding = outstanding /\ q.retry = retry
    BY <2>8 DEF Originators
  <2> HIDE DEF q
  <2>10. PICK B \in Nat : MovesTo(q, next, N, A, c, B)
    <3>1. A + c =< N /\ q.start = NumberOf(A) BY <1>1, <2>2, <2>9
    <3>2. q.acked \subseteq Numbers(A, N - 1) BY <2>9 DEF Starts
    <3> QED BY <3>1, <3>2, <2>9, <1>1, MovedIs
  <2>11. next \in Originators /\ next.start \in Seqs
    BY <2>10 DEF MovesTo, Originators
  <2> HIDE DEF next
  <2>12. /\ p \in Originators /\ p.bar.kind = "bar" /\ p.start = next.start
         /\ p.acked = next.acked /\ p.outstanding = next.outstanding /\ p.retry = next.retry
    BY <2>3, <2>11 DEF Originators
  <2>13. /\ p.outstanding = outstanding /\ p.retry = retry
         /\ p.acked = o.acked \ Numbers(A, B - 1)
    BY <2>9, <2>10, <2>12 DEF MovesTo, Originators
  <2>14. Starts(p, N, B) /\ B =< N /\ A + c =< B
    BY <2>10, <2>12 DEF Starts, MovesTo
  <2>15. Keeps(q, N, A, X, Y)
    BY <2>8, <2>9 DEF Keeps
  <2>16. ASSUME NEW i \in A + c .. N - 1
         PROVE  i \in Z \/ i \in q.outstanding \/ i \in q.retry \/ NumberOf(i) \in q.acked
    <3>1. i \in A .. N - 1 /\ ~ (i =< m) BY <1>1, <2>2
    <3> QED BY <3>1, <2>6, <2>9 DEF Covers
  <2>17. /\ Keeps(p, N, B, X, Y)
         /\ \A i \in B .. N - 1 : NumberOf(i) \in p.acked <=> NumberOf(i) \in o.acked
    <3>1. \A i \in A + c .. B - 1 : NumberOf(i) \in q.acked BY <2>10 DEF MovesTo
    <3>2. PICK W : W = A .. N - 1 OBVIOUS
    <3>3. Covers(q, N, A, W) BY <3>2 DEF Covers
    <3>4. /\ q \in Originators /\ p \in Originators /\ A \in Nat /\ B \in Nat /\ c \in Nat
          /\ A + c =< B /\ N =< A + WinSize /\ B =< N
      BY <1>1, <2>2, <2>9, <2>12, <2>14
    <3>5. /\ \A n \in q.outstanding : n \in X \/ A + c =< n
          /\ \A n \in q.retry : n \in Y \/ A + c =< n
      BY <2>7, <2>9
    <3>6. p.outstanding = q.outstanding /\ p.retry = q.retry /\ p.acked = q.acked \ Numbers(A, B - 1)
      BY <2>9, <2>13
    <3>7. /\ Keeps(p, N, B, X, Y)
          /\ \A i \in B .. N - 1 : NumberOf(i) \in p.acked <=> NumberOf(i) \in q.acked
      BY <2>15, <3>1, <3>3, <3>4, <3>5, <3>6, KeptOn
    <3> QED BY <2>9, <3>7
  <2>18. Covers(p, N, B, Z)
    <3>1. ASSUME NEW i \in B .. N - 1
          PROVE  i \in Z \/ i \in p.outstanding \/ i \in p.retry \/ NumberOf(i) \in p.acked
      <4>1. i \in A + c .. N - 1 BY <1>1, <2>14
      <4> QED BY <4>1, <2>9, <2>13, <2>16, <2>17
    <3> QED BY <3>1 DEF Covers
  <2>19. Narrows(o, p, N, A, B)
    <3>1. \A n \in o.outstanding : n \in p.outstanding \/ n < B
      BY <1>1, <2>2, <2>4, <2>6, <2>13, <2>14
    <3> QED BY <1>1, <2>2, <2>8, <2>12, <2>13, <2>14, <2>17, <3>1 DEF Narrows
  <2>20. m < B
    BY <1>1, <2>2, <2>14
  <2> QED BY <1>4, <2>6, <2>12, <2>13, <2>17, <2>18, <2>19, <2>20
<1>5. m < A \/ A =< m
  BY <1>1
<1> QED BY <1>3, <1>4, <1>5, Zenon

(* The window moves past a frame.                                          *)
LEMMA PassedIs ==
  ASSUME NEW o \in Originators, NEW N \in Nat, NEW A, NEW X, NEW Y, NEW Z, NEW m \in Ids,
         Starts(o, N, A), Keeps(o, N, A, X, Y), Covers(o, N, A, Z), N - WinSize =< m, m < N,
         \A n \in o.outstanding : n \in X \/ m < n,
         \A n \in o.retry : n \in Y \/ m < n,
         NEW p, p = Passed(o, m)
  PROVE  /\ p.outstanding = o.outstanding /\ p.retry = o.retry /\ p.bar = o.bar
         /\ \E B \in Nat :
              /\ Narrows(o, p, N, A, B) /\ m < B
              /\ Keeps(p, N, B, X, Y) /\ Covers(p, N, B, Z)
<1>1. A \in Nat /\ A =< N /\ N =< A + WinSize /\ o.start = NumberOf(A) /\ m \in Int
  BY Sizes DEF Starts, Ids
<1>2. Stale(o, m) <=> m < A
  BY <1>1, PlaceOf
<1>3. CASE m < A
  <2>1. p = o BY <1>2, <1>3 DEF Passed
  <2>2. Narrows(o, p, N, A, A) BY <2>1, NarrowsNot
  <2> QED BY <1>1, <1>3, <2>1, <2>2
<1>4. CASE A =< m
  <2>1. PICK c \in Nat : c = m - A + 1
    BY <1>1, <1>4
  <2>2. p = Moved(o, c)
    <3>1. DistanceOf(o, m) + 1 = c BY <1>1, <1>4, <2>1, PlaceOf
    <3> QED BY <1>1, <1>2, <1>4, <3>1 DEF Passed
  <2>3. PICK B \in Nat : MovesTo(o, p, N, A, c, B)
    <3>1. A + c =< N BY <1>1, <2>1
    <3>2. o.acked \subseteq Numbers(A, N - 1) BY DEF Starts
    <3> QED BY <3>1, <3>2, <2>2, <1>1, MovedIs
  <2>4. /\ p \in Originators /\ p.outstanding = o.outstanding /\ p.retry = o.retry
        /\ p.bar = o.bar /\ p.acked = o.acked \ Numbers(A, B - 1)
        /\ \A i \in A + c .. B - 1 : NumberOf(i) \in o.acked
    BY <2>3 DEF MovesTo, Originators
  <2>5. Starts(p, N, B) /\ B =< N /\ A + c =< B
    BY <2>3 DEF Starts, MovesTo
  <2>6. /\ \A n \in o.outstanding : n \in X \/ A + c =< n
        /\ \A n \in o.retry : n \in Y \/ A + c =< n
    <3>1. \A n \in o.outstanding \cup o.retry : n \in Int BY Sizes DEF Originators, Ids
    <3> QED BY <3>1, <1>1, <2>1
  <2>7. /\ Keeps(p, N, B, X, Y) /\ Covers(p, N, B, Z)
        /\ \A i \in B .. N - 1 : NumberOf(i) \in p.acked <=> NumberOf(i) \in o.acked
    BY <1>1, <2>4, <2>5, <2>6, KeptOn
  <2>8. m < B /\ A =< B
    BY <1>1, <2>1, <2>5
  <2> QED BY <2>4, <2>5, <2>7, <2>8 DEF Narrows
<1>5. m < A \/ A =< m
  BY <1>1
<1> QED BY <1>3, <1>4, <1>5, Zenon

(* A frame of the window is stored, and the window stays.                  *)
LEMMA StoredOneIs ==
  ASSUME NEW o \in Originators, NEW N \in Nat, NEW A, NEW m \in Ids,
         Starts(o, N, A), A =< m, m < A + WinSize
  PROVE  StorePacket(o, m) = [o EXCEPT !.outstanding = @ \cup {m}]
<1>1. A \in Nat /\ A =< N /\ N =< A + WinSize /\ o.start = NumberOf(A) /\ m \in Int
  BY Sizes DEF Starts, Ids
<1>2. ~ Stale(o, m) /\ DistanceOf(o, m) = m - A
  <2>1. PICK M \in Nat : M = A + WinSize BY <1>1, Sizes
  <2>2. M =< A + WinSize /\ A =< M /\ M - WinSize =< m /\ m < M BY <2>1, <1>1, Sizes
  <2> QED BY <1>1, <2>2, PlaceOf
<1>3. PICK c \in Nat : c = 0
  OBVIOUS
<1>4. Max({0, DistanceOf(o, m) - WinSize + 1}) = c
  <2>1. DistanceOf(o, m) - WinSize + 1 \in Int /\ DistanceOf(o, m) - WinSize + 1 =< 0
    BY <1>1, <1>2, Sizes
  <2> QED BY <2>1, <1>3, LargerOf
<1> DEFINE q == [o EXCEPT !.outstanding = @ \cup {m}]
<1>5. q \in Originators /\ q.start = o.start /\ q.acked = o.acked
  BY DEF Originators
<1> HIDE DEF q
<1>6. Moved(q, c) = q
  <2>1. PICK B \in Nat : MovesTo(q, Moved(q, c), N, A, c, B)
    <3>1. A + c =< N /\ q.start = NumberOf(A) BY <1>1, <1>3, <1>5
    <3>2. q.acked \subseteq Numbers(A, N - 1) BY <1>5 DEF Starts
    <3> QED BY <3>1, <3>2, <1>1, <1>5, MovedIs
  <2>2. B = A
    <3>1. A \notin A + c .. B - 1 BY <2>1, <1>5 DEF MovesTo, Starts
    <3>2. A =< B BY <1>1, <1>3, <2>1 DEF MovesTo
    <3> QED BY <3>1, <3>2, <1>1, <1>3
  <2>3. Numbers(A, B - 1) = {} BY <2>2, <1>1 DEF Numbers
  <2>4. Moved(q, c) = [q EXCEPT !.start = NumberOf(A), !.acked = @ \ {}]
    BY <2>1, <2>2, <2>3 DEF MovesTo
  <2>5. q.acked \ {} = q.acked /\ q.start = NumberOf(A) BY <1>1, <1>5
  <2>6. q = [q EXCEPT !.start = q.start, !.acked = q.acked] BY <1>5 DEF Originators
  <2> QED BY <2>4, <2>5, <2>6
<1>7. m \in o.outstanding => q = o
  BY DEF q, Originators
<1> QED BY <1>2, <1>4, <1>6, <1>7 DEF StorePacket, q

(* Frames that are given up in turn.                                       *)
LEMMA AllGivenUp ==
  ASSUME NEW o \in Originators, NEW N \in Nat, NEW A, NEW X, NEW Y, NEW Z, NEW mpdus \in Seq(Ids),
         Starts(o, N, A), Keeps(o, N, A, X, Y), Covers(o, N, A, Z),
         \A i \in 1 .. Len(mpdus) : N - WinSize =< mpdus[i] /\ mpdus[i] < N,
         \A n \in o.retry : IsExpired(n) => n \in Y,
         NEW p, p = Discarded(o, mpdus)
  PROVE  \E B \in Nat :
           /\ Narrows(o, p, N, A, B) /\ Keeps(p, N, B, X, Y) /\ Covers(p, N, B, Z)
           /\ \A i \in 1 .. Len(mpdus) : mpdus[i] < B
           /\ \A n \in o.outstanding : n \in p.outstanding \/ \E i \in 1 .. Len(mpdus) : n =< mpdus[i]
           /\ \A n \in o.retry :
                n \in p.retry \/ (~ IsExpired(n) /\ \E i \in 1 .. Len(mpdus) : n =< mpdus[i])
           /\ \/ p = o /\ B = A /\ \A i \in 1 .. Len(mpdus) : mpdus[i] < A
              \/ p.bar.kind = "bar"
<1> DEFINE L == Len(mpdus)
           S == {a \in Originators : \E B : /\ Starts(a, N, B) /\ Keeps(a, N, B, X, Y)
                                            /\ Covers(a, N, B, Z) /\ a.retry \subseteq o.retry}
<1>1. L \in Nat /\ (\A i \in 1 .. L : mpdus[i] \in Ids) /\ A \in Nat
  BY LenProperties, ElementOfSeq DEF Starts
<1>2. ASSUME NEW a \in S, NEW i \in 1 .. L PROVE NotifyDiscardedMpdu(a, mpdus[i]) \in S
  <2>1. PICK B : /\ Starts(a, N, B) /\ Keeps(a, N, B, X, Y) /\ Covers(a, N, B, Z)
                 /\ a.retry \subseteq o.retry
    OBVIOUS
  <2>2. a \in Originators /\ mpdus[i] \in Ids /\ \A n \in a.retry : IsExpired(n) => n \in Y
    BY <1>1, <2>1
  <2>3. PICK q : q = NotifyDiscardedMpdu(a, mpdus[i])
    OBVIOUS
  <2>4. PICK C \in Nat : Narrows(a, q, N, B, C) /\ Keeps(q, N, C, X, Y) /\ Covers(q, N, C, Z)
    BY <2>1, <2>2, <2>3, GivenUpIs DEF GivesUp
  <2> QED BY <2>1, <2>3, <2>4 DEF Narrows
<1>3. o \in S
  OBVIOUS
<1>4. PICK f \in [0 .. L -> S] :
        /\ f[0] = o /\ p = f[L]
        /\ \A i \in 1 .. L : f[i] = NotifyDiscardedMpdu(f[i - 1], mpdus[i])
  <2> HIDE DEF S
  <2>1. \A a \in S, i \in 1 .. Len(mpdus) : NotifyDiscardedMpdu(a, mpdus[i]) \in S BY <1>2
  <2>2. \E f :
          /\ Turns(f, S, o, Len(mpdus)) /\ Discarded(o, mpdus) = f[Len(mpdus)]
          /\ \A i \in 1 .. Len(mpdus) : f[i] = NotifyDiscardedMpdu(f[i - 1], mpdus[i])
    BY <2>1, <1>3, DiscardedIs
  <2> QED BY <2>2 DEF Turns
<1> DEFINE Good(q, i, B) ==
             /\ Narrows(o, q, N, A, B) /\ Keeps(q, N, B, X, Y) /\ Covers(q, N, B, Z)
             /\ \A j \in 1 .. i : mpdus[j] < B
             /\ \A n \in o.outstanding : n \in q.outstanding \/ \E j \in 1 .. i : n =< mpdus[j]
             /\ \A n \in o.retry :
                  n \in q.retry \/ (~ IsExpired(n) /\ \E j \in 1 .. i : n =< mpdus[j])
             /\ \/ q = o /\ B = A /\ \A j \in 1 .. i : mpdus[j] < A
                \/ q.bar.kind = "bar"
           T == {i \in 0 .. L : \E B \in Nat : Good(f[i], i, B)}
<1>5. 0 \in T
  <2>1. Narrows(o, o, N, A, A) BY NarrowsNot
  <2>2. Good(o, 0, A) BY <2>1
  <2> HIDE DEF Good
  <2> QED BY <1>1, <1>4, <2>2
<1>6. ASSUME NEW i \in 0 .. L - 1, i \in T PROVE i + 1 \in T
  <2> HIDE DEF S
  <2> DEFINE a == f[i]
             m == mpdus[i + 1]
             q == f[i + 1]
  <2>1. PICK B \in Nat : Good(a, i, B) BY <1>6
  <2>2. i + 1 \in 1 .. L /\ (i + 1) - 1 = i /\ i \in Nat BY <1>1
  <2>3. q = NotifyDiscardedMpdu(a, m) BY <1>4, <2>2
  <2>4. m \in Ids /\ N - WinSize =< m /\ m < N BY <1>1, <2>2
  <2> HIDE DEF a, q, m
  <2>5. /\ Narrows(o, a, N, A, B) /\ Keeps(a, N, B, X, Y) /\ Covers(a, N, B, Z)
        /\ a \in Originators /\ Starts(a, N, B)
        /\ \A n \in a.retry : IsExpired(n) => n \in Y
    BY <2>1 DEF Narrows
  <2>6. PICK C \in Nat :
          /\ Narrows(a, q, N, B, C) /\ m < C
          /\ Keeps(q, N, C, X, Y) /\ Covers(q, N, C, Z)
          /\ \A n \in a.outstanding : n \in q.outstanding \/ n =< m
          /\ \A n \in a.retry : n \in q.retry \/ (n =< m /\ ~ IsExpired(n))
          /\ (m < B /\ q = a /\ C = B) \/ (B =< m /\ q.bar.kind = "bar")
    <3>1. GivesUp(a, q, m, N, B, X, Y, Z) BY <2>3, <2>4, <2>5, GivenUpIs
    <3> QED BY <3>1 DEF GivesUp
  <2>7. Narrows(o, q, N, A, C) /\ B =< C
      <3>1. Narrows(o, q, N, A, C) BY <1>1, <2>5, <2>6, NarrowsOn
    <3> QED BY <2>6, <3>1 DEF Narrows
  <2>8. \A j \in 1 .. i + 1 : j \in 1 .. i \/ j = i + 1
    BY <2>2
  <2>9. \A j \in 1 .. i + 1 : mpdus[j] < C
    <3>1. ASSUME NEW j \in 1 .. i PROVE mpdus[j] < C
      <4>1. j \in 1 .. L BY <2>2
      <4>2. mpdus[j] \in Ids BY <1>1, <4>1
      <4>3. mpdus[j] \in Int BY <4>2, Sizes DEF Ids
      <4>4. mpdus[j] < B BY <2>1
      <4> QED BY <4>3, <4>4, <2>7
    <3> QED BY <2>6, <2>8, <3>1 DEF m
  <2>10. i + 1 \in 1 .. i + 1 /\ \A j \in 1 .. i : j \in 1 .. i + 1
    BY <2>2
  <2>11. /\ \A n \in o.outstanding : n \in q.outstanding \/ \E j \in 1 .. i + 1 : n =< mpdus[j]
         /\ \A n \in o.retry :
              n \in q.retry \/ (~ IsExpired(n) /\ \E j \in 1 .. i + 1 : n =< mpdus[j])
    BY <2>1, <2>6, <2>10 DEF m
  <2>12. \/ q = o /\ C = A /\ \A j \in 1 .. i + 1 : mpdus[j] < A
         \/ q.bar.kind = "bar"
    BY <2>1, <2>6, <2>8 DEF m
  <2>13. Good(q, i + 1, C)
    BY <2>6, <2>7, <2>9, <2>11, <2>12
  <2> HIDE DEF Good
  <2> QED BY <2>2, <2>13 DEF q
<1>7. L \in T
  <2> HIDE DEF T
  <2>1. \A i \in 0 .. L - 1 : i \in T => i + 1 \in T BY <1>6
  <2>2. \A i \in 0 .. L : i \in T BY <1>1, <1>5, <2>1, Reaches
  <2> QED BY <1>1, <2>2
<1> QED BY <1>4, <1>7

(* The window moves past frames in turn.                                   *)
LEMMA AllPassed ==
  ASSUME NEW o \in Originators, NEW N \in Nat, NEW A, NEW X, NEW Y, NEW Z, NEW mpdus \in Seq(Ids),
         Starts(o, N, A), Keeps(o, N, A, X, Y), Covers(o, N, A, Z),
         \A i \in 1 .. Len(mpdus) : N - WinSize =< mpdus[i] /\ mpdus[i] < N,
         \A n \in o.outstanding : n \in X \/ \A i \in 1 .. Len(mpdus) : mpdus[i] < n,
         \A n \in o.retry : n \in Y \/ \A i \in 1 .. Len(mpdus) : mpdus[i] < n,
         NEW p, p = PassedBy(o, mpdus)
  PROVE  /\ p.outstanding = o.outstanding /\ p.retry = o.retry /\ p.bar = o.bar
         /\ \E B \in Nat :
              /\ Narrows(o, p, N, A, B) /\ Keeps(p, N, B, X, Y) /\ Covers(p, N, B, Z)
              /\ \A i \in 1 .. Len(mpdus) : mpdus[i] < B
<1> DEFINE L == Len(mpdus)
           Same(a) == a.outstanding = o.outstanding /\ a.retry = o.retry /\ a.bar = o.bar
           S == {a \in Originators : Same(a) /\ \E B : /\ Starts(a, N, B) /\ Keeps(a, N, B, X, Y)
                                                       /\ Covers(a, N, B, Z)}
<1>1. L \in Nat /\ (\A i \in 1 .. L : mpdus[i] \in Ids) /\ A \in Nat
  BY LenProperties, ElementOfSeq DEF Starts
<1>2. ASSUME NEW a \in S, NEW i \in 1 .. L PROVE Passed(a, mpdus[i]) \in S
  <2>1. PICK B : Starts(a, N, B) /\ Keeps(a, N, B, X, Y) /\ Covers(a, N, B, Z)
    OBVIOUS
  <2>2. PICK m : m = mpdus[i]
    OBVIOUS
  <2>3. /\ a \in Originators /\ m \in Ids /\ N - WinSize =< m /\ m < N
        /\ \A n \in a.outstanding : n \in X \/ m < n
        /\ \A n \in a.retry : n \in Y \/ m < n
    BY <1>1, <2>2
  <2>4. PICK q : q = Passed(a, m)
    OBVIOUS
  <2> HIDE DEF S
  <2>5. /\ q.outstanding = a.outstanding /\ q.retry = a.retry /\ q.bar = a.bar
        /\ \E C \in Nat :
              /\ Narrows(a, q, N, B, C) /\ m < C
              /\ Keeps(q, N, C, X, Y) /\ Covers(q, N, C, Z)
    BY <2>1, <2>3, <2>4, PassedIs
  <2> QED BY <2>2, <2>4, <2>5 DEF Narrows, S
<1>3. o \in S
  OBVIOUS
<1>4. PICK f \in [0 .. L -> S] :
        /\ f[0] = o /\ p = f[L]
        /\ \A i \in 1 .. L : f[i] = Passed(f[i - 1], mpdus[i])
  <2> HIDE DEF S
  <2>1. \A a \in S, i \in 1 .. Len(mpdus) : Passed(a, mpdus[i]) \in S BY <1>2
  <2>2. \E f :
          /\ Turns(f, S, o, Len(mpdus)) /\ PassedBy(o, mpdus) = f[Len(mpdus)]
          /\ \A i \in 1 .. Len(mpdus) : f[i] = Passed(f[i - 1], mpdus[i])
    BY <2>1, <1>3, PassedByIs
  <2> QED BY <2>2 DEF Turns
<1> DEFINE Good(q, i, B) ==
             /\ Narrows(o, q, N, A, B) /\ Keeps(q, N, B, X, Y) /\ Covers(q, N, B, Z)
             /\ \A j \in 1 .. i : mpdus[j] < B
           T == {i \in 0 .. L : \E B \in Nat : Good(f[i], i, B)}
<1>5. 0 \in T
  <2>1. Narrows(o, o, N, A, A) BY NarrowsNot
  <2>2. Good(o, 0, A) BY <2>1
  <2> HIDE DEF Good
  <2> QED BY <1>1, <1>4, <2>2
<1>6. ASSUME NEW i \in 0 .. L - 1, i \in T PROVE i + 1 \in T
  <2> DEFINE a == f[i]
             m == mpdus[i + 1]
             q == f[i + 1]
  <2>1. PICK B \in Nat : Good(a, i, B) BY <1>6
  <2>2. i + 1 \in 1 .. L /\ (i + 1) - 1 = i /\ i \in Nat BY <1>1
  <2>3. q = Passed(a, m) BY <1>4, <2>2
  <2>4. m \in Ids /\ N - WinSize =< m /\ m < N BY <1>1, <2>2
  <2>5. Same(a)
    <3>1. i \in 0 .. L BY <1>1
    <3>2. a \in S BY <1>4, <3>1, Zenon
    <3> QED BY <3>2
  <2>6. /\ \A n \in a.outstanding : n \in X \/ m < n
        /\ \A n \in a.retry : n \in Y \/ m < n
    BY <2>2, <2>5
  <2> HIDE DEF a, q, m, S
  <2>7. /\ Narrows(o, a, N, A, B) /\ Keeps(a, N, B, X, Y) /\ Covers(a, N, B, Z)
        /\ a \in Originators /\ Starts(a, N, B)
    BY <2>1 DEF Narrows
  <2>8. PICK C \in Nat :
          /\ Narrows(a, q, N, B, C) /\ m < C
          /\ Keeps(q, N, C, X, Y) /\ Covers(q, N, C, Z)
    BY <2>3, <2>4, <2>6, <2>7, PassedIs
  <2>9. Narrows(o, q, N, A, C) /\ B =< C
    <3>1. Narrows(o, q, N, A, C) BY <1>1, <2>7, <2>8, NarrowsOn
    <3> QED BY <2>8, <3>1 DEF Narrows
  <2>10. \A j \in 1 .. i + 1 : j \in 1 .. i \/ j = i + 1
    BY <2>2
  <2>11. \A j \in 1 .. i + 1 : mpdus[j] < C
    <3>1. ASSUME NEW j \in 1 .. i PROVE mpdus[j] < C
      <4>1. mpdus[j] < B BY <2>1
      <4>2. j \in 1 .. L BY <2>2
      <4>3. mpdus[j] \in Ids BY <1>1, <4>2
      <4>4. mpdus[j] \in Int BY <4>3, Sizes DEF Ids
      <4>5. B =< C BY <2>9
      <4> QED BY <4>1, <4>4, <4>5, SMTT(30)
    <3> QED BY <2>8, <2>10, <3>1 DEF m
  <2>12. Good(q, i + 1, C)
    BY <2>8, <2>9, <2>11
  <2> HIDE DEF Good
  <2> QED BY <2>2, <2>12 DEF q
<1>7. L \in T
  <2> HIDE DEF T
  <2>1. \A i \in 0 .. L - 1 : i \in T => i + 1 \in T BY <1>6
  <2>2. \A i \in 0 .. L : i \in T BY <1>1, <1>5, <2>1, Reaches
  <2> QED BY <1>1, <2>2
<1>8. Same(p)
  BY <1>1, <1>4
<1> QED BY <1>4, <1>7, <1>8

(* The frames that o keeps expire in the order of their arrival.           *)
OldestFirst(o) ==
  \A m, n \in o.outstanding \cup o.retry : IsExpired(m) /\ n < m => IsExpired(n)

(* What becomes of the originator's frames when nothing is heard: those    *)
(* that leave have expired, and a BAR tells of what the window has passed. *)
Ages(o, p, N, A, B) ==
  /\ Narrows(o, p, N, A, B) /\ Keeps(p, N, B, {}, {}) /\ Covers(p, N, B, {})
  /\ \A n \in o.outstanding \cup o.retry :
       n \in p.outstanding \/ n \in p.retry \/ IsExpired(n)
  /\ p.bar.kind # "none" \/ (p.bar = o.bar /\ B = A)

LEMMA CleanedIs ==
  ASSUME NEW o \in Originators, NEW N \in Nat, NEW A,
         Starts(o, N, A), Keeps(o, N, A, {}, expired), Covers(o, N, A, {}), OldestFirst(o),
         NEW p, p = Cleaned(o)
  PROVE  /\ p.retry \cap expired = {}
         /\ \E B \in Nat :
              /\ Ages(o, p, N, A, B)
              /\ p.bar.kind = "bar" \/ (p.bar = o.bar /\ B = A)
<1> DEFINE gone == {m \in o.retry : IsExpired(m)}
           s == BySeq(o.start, gone)
           q == Discarded(o, s)
<1>1. A \in Nat /\ A =< N /\ N =< A + WinSize /\ o.start = NumberOf(A)
  BY DEF Starts
<1>2. gone \in SUBSET Ids
  BY DEF Originators
<1>3. \A m \in gone : N - WinSize =< m /\ m < N /\ m \in Int
  BY <1>2, Sizes DEF Keeps, Ids
<1>4. s \in Seq(gone) /\ Range(s) = gone
  <2>1. \A m \in gone : -Half =< m - A /\ m - A < Half BY <1>1, <1>3, Sizes
  <2> HIDE DEF gone
  <2>2. A \in Int /\ s = BySeq(NumberOf(A), gone) BY <1>1
  <2> HIDE DEF s
  <2> QED BY <2>1, <2>2, <1>2, BySeqIs
<1> HIDE DEF gone, s
<1>5. s \in Seq(Ids) /\ \A i \in 1 .. Len(s) : s[i] \in gone
  <2>1. \A i \in 1 .. Len(s) : s[i] \in gone BY <1>4, ElementOfSeq
  <2>2. s \in Seq(Ids) BY <1>2, <1>4
  <2> QED BY <2>1, <2>2
<1>6. \A m \in gone : \E i \in 1 .. Len(s) : s[i] = m
  <2>1. DOMAIN s = 1 .. Len(s) BY <1>5, LenProperties
  <2> QED BY <1>4, <2>1 DEF Range
<1>7. \A n \in o.retry : IsExpired(n) => n \in expired
  BY DEF IsExpired
<1>8. PICK B \in Nat :
        /\ Narrows(o, q, N, A, B) /\ Keeps(q, N, B, {}, expired) /\ Covers(q, N, B, {})
        /\ \A i \in 1 .. Len(s) : s[i] < B
        /\ \A n \in o.outstanding : n \in q.outstanding \/ \E i \in 1 .. Len(s) : n =< s[i]
        /\ \A n \in o.retry :
             n \in q.retry \/ (~ IsExpired(n) /\ \E i \in 1 .. Len(s) : n =< s[i])
        /\ \/ q = o /\ B = A /\ \A i \in 1 .. Len(s) : s[i] < A
           \/ q.bar.kind = "bar"
  <2>1. \A i \in 1 .. Len(s) : N - WinSize =< s[i] /\ s[i] < N BY <1>3, <1>5
  <2> QED BY <2>1, <1>5, <1>7, AllGivenUp
<1>9. /\ q \in Originators /\ p = [q EXCEPT !.retry = q.retry \ gone]
  BY <1>8 DEF Narrows, Cleaned, gone, s
<1> HIDE DEF q
<1>10. /\ p \in Originators /\ p.start = q.start /\ p.acked = q.acked /\ p.bar = q.bar
       /\ p.outstanding = q.outstanding /\ p.retry = q.retry \ gone
  BY <1>9 DEF Originators
<1>11. p.retry \cap expired = {}
  BY <1>8, <1>10 DEF Narrows, gone, IsExpired
<1>12. ASSUME NEW n \in o.outstanding \cup o.retry, NEW i \in 1 .. Len(s), n =< s[i]
       PROVE  IsExpired(n)
  <2>1. s[i] \in o.retry /\ IsExpired(s[i]) BY <1>5 DEF gone
  <2>2. n \in Int /\ s[i] \in Int BY <2>1, Sizes DEF Originators, Ids
  <2> QED BY <2>1, <2>2, <1>12 DEF OldestFirst
<1>13. \A n \in o.outstanding \cup o.retry : n \in p.outstanding \/ n \in p.retry \/ IsExpired(n)
  BY <1>8, <1>10, <1>12 DEF gone
<1>14. Starts(p, N, B) /\ Narrows(o, p, N, A, B)
  BY <1>8, <1>10 DEF Narrows, Starts
<1>15. Keeps(p, N, B, {}, {})
  BY <1>8, <1>10, <1>11 DEF Keeps
<1>16. Covers(p, N, B, {})
  <2>1. ASSUME NEW i \in B .. N - 1
        PROVE  i \in p.outstanding \/ i \in p.retry \/ NumberOf(i) \in p.acked
    <3>1. i \notin gone
      <4>1. \A m \in gone : m < B BY <1>6, <1>8
      <4> QED BY <4>1, <1>8
    <3> QED BY <3>1, <1>8, <1>10 DEF Covers
  <2> QED BY <2>1 DEF Covers
<1>17. p.bar.kind = "bar" \/ (p.bar = o.bar /\ B = A)
  BY <1>8, <1>10
<1> QED BY <1>11, <1>13, <1>14, <1>15, <1>16, <1>17 DEF Ages

LEMMA OldestStay ==
  ASSUME NEW o, NEW p, OldestFirst(o),
         p.outstanding \cup p.retry \subseteq o.outstanding \cup o.retry
  PROVE  OldestFirst(p)
BY DEF OldestFirst

LEMMA ThenIs ==
  ASSUME NEW v, NEW o
  PROVE  /\ GetBar(o) = [PassedBy(o, BySeq(o.start, {m \in o.outstanding : IsExpired(m)}))
                           EXCEPT !.outstanding = @ \ {m \in o.outstanding : IsExpired(m)},
                                  !.bar.start =
                                     PassedBy(o, BySeq(o.start, {m \in o.outstanding : IsExpired(m)})).start]
         /\ HasPackets(o, v) = IF Cleaned(o).retry = {} /\ BarReady(Cleaned(o), v)
                               THEN GetBar(Cleaned(o)) ELSE Cleaned(o)
         /\ Then(Cleaned(o), GetBar) = GetBar(Cleaned(o))
<1>1. GetBar(o) = [PassedBy(o, BySeq(o.start, {m \in o.outstanding : IsExpired(m)}))
                     EXCEPT !.outstanding = @ \ {m \in o.outstanding : IsExpired(m)},
                            !.bar.start =
                               PassedBy(o, BySeq(o.start, {m \in o.outstanding : IsExpired(m)})).start]
  BY DEF GetBar, Then
<1>2. HasPackets(o, v) = IF Cleaned(o).retry = {} /\ BarReady(Cleaned(o), v)
                         THEN GetBar(Cleaned(o)) ELSE Cleaned(o)
  BY DEF HasPackets, Then
<1>3. Then(Cleaned(o), GetBar) = GetBar(Cleaned(o))
  BY DEF Then
<1> QED BY <1>1, <1>2, <1>3

LEMMA GetBarIs ==
  ASSUME NEW o \in Originators, NEW N \in Nat, NEW A,
         Starts(o, N, A), Keeps(o, N, A, {}, {}), Covers(o, N, A, {}), OldestFirst(o),
         o.retry \cap expired = {},
         NEW p, p = GetBar(o)
  PROVE  /\ p.retry = o.retry /\ p.bar.kind = o.bar.kind /\ p.bar.start = p.start
         /\ \E B \in Nat :
              /\ Narrows(o, p, N, A, B) /\ Keeps(p, N, B, {}, {}) /\ Covers(p, N, B, {})
              /\ \A n \in o.outstanding : n \in p.outstanding \/ IsExpired(n)
<1> DEFINE gone == {m \in o.outstanding : IsExpired(m)}
           s == BySeq(o.start, gone)
           q == PassedBy(o, s)
<1>1. A \in Nat /\ A =< N /\ N =< A + WinSize /\ o.start = NumberOf(A)
  BY DEF Starts
<1>2. gone \in SUBSET Ids
  BY DEF Originators
<1>3. \A m \in gone : N - WinSize =< m /\ m < N /\ m \in Int
  BY <1>2, Sizes DEF Keeps, Ids
<1>4. s \in Seq(gone) /\ Range(s) = gone
  <2>1. \A m \in gone : -Half =< m - A /\ m - A < Half BY <1>1, <1>3, Sizes
  <2> HIDE DEF gone
  <2>2. A \in Int /\ s = BySeq(NumberOf(A), gone) BY <1>1
  <2> HIDE DEF s
  <2> QED BY <2>1, <2>2, <1>2, BySeqIs
<1>5. p = [q EXCEPT !.outstanding = @ \ gone, !.bar.start = q.start]
  BY ThenIs
<1> HIDE DEF gone, s
<1>6. s \in Seq(Ids) /\ \A i \in 1 .. Len(s) : s[i] \in gone
  <2>1. \A i \in 1 .. Len(s) : s[i] \in gone BY <1>4, ElementOfSeq
  <2>2. s \in Seq(Ids) BY <1>2, <1>4
  <2> QED BY <2>1, <2>2
<1>7. \A m \in gone : \E i \in 1 .. Len(s) : s[i] = m
  <2>1. DOMAIN s = 1 .. Len(s) BY <1>6, LenProperties
  <2> QED BY <1>4, <2>1 DEF Range
<1>8. ASSUME NEW n \in o.outstanding \cup o.retry, n \notin gone, NEW i \in 1 .. Len(s)
      PROVE  s[i] < n
  <2>1. s[i] \in o.outstanding /\ IsExpired(s[i]) BY <1>6 DEF gone
  <2>2. n \in Int /\ s[i] \in Int BY <2>1, Sizes DEF Originators, Ids
  <2>3. ~ IsExpired(n) BY <1>8 DEF gone, IsExpired
  <2>4. n # s[i] BY <2>1, <2>3
  <2>5. ~ (n < s[i]) BY <2>1, <2>3 DEF OldestFirst
  <2> QED BY <2>2, <2>4, <2>5
<1>9. Keeps(o, N, A, gone, {})
  BY DEF Keeps
<1>10. \A n \in o.retry : n \notin gone
  BY DEF gone, IsExpired
<1>11. /\ q.outstanding = o.outstanding /\ q.retry = o.retry /\ q.bar = o.bar
       /\ \E B \in Nat :
            /\ Narrows(o, q, N, A, B) /\ Keeps(q, N, B, gone, {}) /\ Covers(q, N, B, {})
            /\ \A i \in 1 .. Len(s) : s[i] < B
  <2>1. \A i \in 1 .. Len(s) : N - WinSize =< s[i] /\ s[i] < N BY <1>3, <1>6
  <2>2. \A n \in o.outstanding : n \in gone \/ \A i \in 1 .. Len(s) : s[i] < n
    BY <1>8
  <2>3. \A n \in o.retry : n \in {} \/ \A i \in 1 .. Len(s) : s[i] < n
    BY <1>8, <1>10
  <2> QED BY <2>1, <2>2, <2>3, <1>6, <1>9, AllPassed
<1>12. PICK B \in Nat :
            /\ Narrows(o, q, N, A, B) /\ Keeps(q, N, B, gone, {}) /\ Covers(q, N, B, {})
            /\ \A i \in 1 .. Len(s) : s[i] < B
  BY <1>11
<1>13. q \in Originators
  BY <1>12 DEF Narrows
<1> HIDE DEF q
<1>14. /\ p \in Originators /\ p.start = q.start /\ p.acked = q.acked /\ p.retry = q.retry
       /\ p.outstanding = q.outstanding \ gone
       /\ p.bar.kind = q.bar.kind /\ p.bar.start = q.start
  <2> DEFINE bar == [q.bar EXCEPT !.start = q.start]
             left == q.outstanding \ gone
  <2>1. /\ bar \in [kind : {"none", "bar", "skip"}, start : Seqs \cup {NoSeq}]
        /\ bar.kind = q.bar.kind /\ bar.start = q.start /\ left \in SUBSET Ids
    BY <1>13 DEF Originators
  <2>2. p = [q EXCEPT !.outstanding = left, !.bar = bar] BY <1>5, <1>13 DEF Originators
  <2> HIDE DEF bar, left
  <2>3. /\ p \in Originators /\ p.start = q.start /\ p.acked = q.acked /\ p.retry = q.retry
        /\ p.outstanding = left /\ p.bar = bar
    BY <1>13, <2>1, <2>2 DEF Originators
  <2> QED BY <2>1, <2>3 DEF left
<1>15. \A m \in gone : m < B
  BY <1>7, <1>12
<1>16. Starts(p, N, B)
  BY <1>12, <1>14 DEF Narrows, Starts
<1>17. Narrows(o, p, N, A, B)
  BY <1>11, <1>12, <1>14, <1>15, <1>16 DEF Narrows
<1>18. Keeps(p, N, B, {}, {})
  BY <1>12, <1>14 DEF Keeps
<1>19. Covers(p, N, B, {})
  <2>1. ASSUME NEW i \in B .. N - 1
        PROVE  i \in p.outstanding \/ i \in p.retry \/ NumberOf(i) \in p.acked
    <3>1. i \notin gone BY <1>12, <1>15
    <3> QED BY <3>1, <1>12, <1>14 DEF Covers
  <2> QED BY <2>1 DEF Covers
<1>20. \A n \in o.outstanding : n \in p.outstanding \/ IsExpired(n)
  BY <1>11, <1>14 DEF gone
<1> QED BY <1>11, <1>14, <1>17, <1>18, <1>19, <1>20

(* When nothing is heard.                                                  *)
LEMMA HasPacketsIs ==
  ASSUME NEW o \in Originators, NEW N \in Nat, NEW A, NEW queued,
         Starts(o, N, A), Keeps(o, N, A, {}, expired), Covers(o, N, A, {}), OldestFirst(o),
         NEW p, p = HasPackets(o, queued)
  PROVE  \E B \in Nat : Ages(o, p, N, A, B)
<1>1. PICK q : q = Cleaned(o)
  OBVIOUS
<1>2. PICK B \in Nat : Ages(o, q, N, A, B)
  BY <1>1, CleanedIs
<1>3. q.retry \cap expired = {}
  BY <1>1, CleanedIs
<1>4. p = IF q.retry = {} /\ BarReady(q, queued) THEN GetBar(q) ELSE q
  BY <1>1, ThenIs
<1>5. CASE q.retry = {} /\ BarReady(q, queued)
  <2>1. q.bar.kind # "none" BY <1>5 DEF BarReady
  <2>2. /\ q \in Originators /\ Starts(q, N, B) /\ Keeps(q, N, B, {}, {}) /\ Covers(q, N, B, {})
        /\ q.outstanding \cup q.retry \subseteq o.outstanding \cup o.retry
    BY <1>2 DEF Ages, Narrows
  <2>3. OldestFirst(q) BY <2>2, OldestStay
  <2>4. p = GetBar(q) BY <1>4, <1>5
  <2>5. PICK C \in Nat :
          /\ Narrows(q, p, N, B, C) /\ Keeps(p, N, C, {}, {}) /\ Covers(p, N, C, {})
          /\ \A n \in q.outstanding : n \in p.outstanding \/ IsExpired(n)
    BY <1>3, <2>2, <2>3, <2>4, GetBarIs
  <2>6. p.retry = q.retry /\ p.bar.kind = q.bar.kind
    BY <1>3, <2>2, <2>3, <2>4, GetBarIs
  <2>7. A \in Nat BY DEF Starts
  <2>8. Narrows(o, q, N, A, B) BY <1>2 DEF Ages
  <2>9. Narrows(o, p, N, A, C) BY <2>5, <2>7, <2>8, NarrowsOn
  <2> QED BY <1>2, <2>1, <2>5, <2>6, <2>9 DEF Ages
<1>6. CASE ~ (q.retry = {} /\ BarReady(q, queued))
  BY <1>2, <1>4, <1>6
<1> QED BY <1>5, <1>6

LEMMA DiscardOutstandingIs ==
  ASSUME NEW o \in Originators, NEW N \in Nat, NEW A,
         Starts(o, N, A), Keeps(o, N, A, {}, {}), Covers(o, N, A, {}), o.outstanding # {},
         NEW p, p = DiscardOutstanding(o)
  PROVE  /\ p.bar.kind = "bar"
         /\ \E B \in Nat :
              Narrows(o, p, N, A, B) /\ Keeps(p, N, B, {}, expired) /\ Covers(p, N, B, {})
<1> DEFINE s == BySeq(o.start, o.outstanding)
           q == Discarded(o, s)
<1>1. A \in Nat /\ A =< N /\ N =< A + WinSize /\ o.start = NumberOf(A)
  BY DEF Starts
<1>2. o.outstanding \in SUBSET Ids
  BY DEF Originators
<1>3. \A m \in o.outstanding : N - WinSize =< m /\ m < N /\ m \in Int /\ A =< m
  BY <1>2, Sizes DEF Keeps, Ids
<1>4. s \in Seq(o.outstanding) /\ Range(s) = o.outstanding
  <2>1. \A m \in o.outstanding : -Half =< m - A /\ m - A < Half BY <1>1, <1>3, Sizes
  <2>2. A \in Int /\ s = BySeq(NumberOf(A), o.outstanding) BY <1>1
  <2> HIDE DEF s
  <2> QED BY <2>1, <2>2, <1>2, BySeqIs
<1> HIDE DEF s
<1>5. s \in Seq(Ids) /\ \A i \in 1 .. Len(s) : s[i] \in o.outstanding
  <2>1. \A i \in 1 .. Len(s) : s[i] \in o.outstanding BY <1>4, ElementOfSeq
  <2>2. s \in Seq(Ids) BY <1>2, <1>4
  <2> QED BY <2>1, <2>2
<1>6. \A m \in o.outstanding : \E i \in 1 .. Len(s) : s[i] = m
  <2>1. DOMAIN s = 1 .. Len(s) BY <1>5, LenProperties
  <2> QED BY <1>4, <2>1 DEF Range
<1>7. Keeps(o, N, A, {}, expired)
  BY DEF Keeps
<1>8. PICK B \in Nat :
        /\ Narrows(o, q, N, A, B) /\ Keeps(q, N, B, {}, expired) /\ Covers(q, N, B, {})
        /\ \A i \in 1 .. Len(s) : s[i] < B
        /\ \/ q = o /\ B = A /\ \A i \in 1 .. Len(s) : s[i] < A
           \/ q.bar.kind = "bar"
  <2>1. \A i \in 1 .. Len(s) : N - WinSize =< s[i] /\ s[i] < N BY <1>3, <1>5
  <2>2. \A n \in o.retry : IsExpired(n) => n \in expired BY DEF IsExpired
  <2>3. \E B \in Nat :
           /\ Narrows(o, q, N, A, B) /\ Keeps(q, N, B, {}, expired) /\ Covers(q, N, B, {})
           /\ \A i \in 1 .. Len(s) : s[i] < B
           /\ \A n \in o.outstanding : n \in q.outstanding \/ \E i \in 1 .. Len(s) : n =< s[i]
           /\ \A n \in o.retry :
                n \in q.retry \/ (~ IsExpired(n) /\ \E i \in 1 .. Len(s) : n =< s[i])
           /\ \/ q = o /\ B = A /\ \A i \in 1 .. Len(s) : s[i] < A
              \/ q.bar.kind = "bar"
    BY <2>1, <2>2, <1>5, <1>7, AllGivenUp
  <2> QED BY <2>3
<1>9. q \in Originators /\ p = [q EXCEPT !.outstanding = {}]
  BY <1>8 DEF Narrows, DiscardOutstanding, s
<1> HIDE DEF q
<1>10. /\ p \in Originators /\ p.start = q.start /\ p.acked = q.acked /\ p.bar = q.bar
       /\ p.outstanding = {} /\ p.retry = q.retry
  BY <1>9 DEF Originators
<1>11. \A m \in o.outstanding : m < B
  BY <1>6, <1>8
<1>12. q.bar.kind = "bar"
  <2>1. PICK m \in o.outstanding : TRUE OBVIOUS
  <2>2. ~ (m < A) BY <1>1, <1>3
  <2> QED BY <2>2, <1>6, <1>8
<1>13. Starts(p, N, B)
  BY <1>8, <1>10 DEF Narrows, Starts
<1>14. Narrows(o, p, N, A, B)
  BY <1>8, <1>10, <1>11, <1>13 DEF Narrows
<1>15. Keeps(p, N, B, {}, expired)
  BY <1>8, <1>10 DEF Keeps
<1>16. Covers(p, N, B, {})
  <2>1. ASSUME NEW i \in B .. N - 1
        PROVE  i \in p.outstanding \/ i \in p.retry \/ NumberOf(i) \in p.acked
    <3>1. i \notin q.outstanding
      <4>1. i \notin o.outstanding BY <1>8, <1>11
      <4> QED BY <4>1, <1>8 DEF Narrows
    <3> QED BY <3>1, <1>8, <1>10 DEF Covers
  <2> QED BY <2>1 DEF Covers
<1> QED BY <1>10, <1>12, <1>14, <1>15, <1>16

(* Frames of the window that are stored in turn.                           *)
LEMMA AllStored ==
  ASSUME NEW o \in Originators, NEW N \in Nat, NEW A, NEW mpdus \in Seq(Ids),
         Starts(o, N, A), \A i \in 1 .. Len(mpdus) : A =< mpdus[i] /\ mpdus[i] < A + WinSize
  PROVE  Stored(o, mpdus) = [o EXCEPT !.outstanding = @ \cup Range(mpdus)]
<1> DEFINE L == Len(mpdus)
           S == {a \in Originators : Starts(a, N, A)}
<1>1. L \in Nat /\ (\A i \in 1 .. L : mpdus[i] \in Ids) /\ A \in Nat
  BY LenProperties, ElementOfSeq DEF Starts
<1>2. ASSUME NEW a \in S, NEW i \in 1 .. L
      PROVE  /\ StorePacket(a, mpdus[i]) = [a EXCEPT !.outstanding = @ \cup {mpdus[i]}]
             /\ StorePacket(a, mpdus[i]) \in S
  <2>1. StorePacket(a, mpdus[i]) = [a EXCEPT !.outstanding = @ \cup {mpdus[i]}]
    BY <1>1, StoredOneIs
  <2>2. [a EXCEPT !.outstanding = @ \cup {mpdus[i]}] \in S
    BY <1>1 DEF Starts, Originators
  <2> QED BY <2>1, <2>2
<1>3. o \in S
  OBVIOUS
<1>4. PICK f \in [0 .. L -> S] :
        /\ f[0] = o /\ Stored(o, mpdus) = f[L]
        /\ \A i \in 1 .. L : f[i] = StorePacket(f[i - 1], mpdus[i])
  <2> HIDE DEF S
  <2>1. \A a \in S, i \in 1 .. Len(mpdus) : StorePacket(a, mpdus[i]) \in S BY <1>2
  <2>2. \E f :
          /\ Turns(f, S, o, Len(mpdus)) /\ Stored(o, mpdus) = f[Len(mpdus)]
          /\ \A i \in 1 .. Len(mpdus) : f[i] = StorePacket(f[i - 1], mpdus[i])
    BY <2>1, <1>3, StoredIs
  <2> QED BY <2>2 DEF Turns
<1> DEFINE First(i) == {mpdus[j] : j \in 1 .. i}
           T == {i \in 0 .. L : f[i] = [o EXCEPT !.outstanding = @ \cup First(i)]}
<1>5. 0 \in T
  <2>1. First(0) = {} OBVIOUS
  <2>2. o.outstanding \cup {} = o.outstanding OBVIOUS
  <2>3. o = [o EXCEPT !.outstanding = o.outstanding] BY DEF Originators
  <2> HIDE DEF First
  <2> QED BY <1>1, <1>4, <2>1, <2>2, <2>3
<1>6. ASSUME NEW i \in 0 .. L - 1, i \in T PROVE i + 1 \in T
  <2>1. i + 1 \in 1 .. L /\ (i + 1) - 1 = i /\ i \in Nat /\ f[i] \in S BY <1>1
  <2>2. f[i + 1] = [f[i] EXCEPT !.outstanding = @ \cup {mpdus[i + 1]}]
    BY <1>2, <1>4, <2>1
  <2>3. First(i + 1) = First(i) \cup {mpdus[i + 1]}
    <3>1. 1 .. i + 1 = 1 .. i \cup {i + 1} BY <2>1
    <3> QED BY <3>1
  <2>4. f[i] = [o EXCEPT !.outstanding = @ \cup First(i)] BY <1>6
  <2> HIDE DEF First
  <2>5. f[i + 1] = [o EXCEPT !.outstanding = @ \cup First(i + 1)]
    BY <2>2, <2>3, <2>4 DEF Originators
  <2> QED BY <2>1, <2>5
<1>7. L \in T
  <2> HIDE DEF T
  <2>1. \A i \in 0 .. L - 1 : i \in T => i + 1 \in T BY <1>6
  <2>2. \A i \in 0 .. L : i \in T BY <1>1, <1>5, <2>1, Reaches
  <2> QED BY <1>1, <2>2
<1>8. First(L) = Range(mpdus)
  <2>1. DOMAIN mpdus = 1 .. L BY LenProperties
  <2> QED BY <2>1 DEF Range
<1> HIDE DEF First
<1> QED BY <1>4, <1>7, <1>8

(* From o to p the window moves from A to B by what is said of the frame m. *)
SettlesOne(o, p, m, N, A, B, received) ==
  /\ p \in Originators /\ p.outstanding = o.outstanding /\ p.bar = o.bar
  /\ o.retry \subseteq p.retry
  /\ \A n \in p.retry : n \in o.retry \/ (n = m /\ NumberOf(m) \notin received)
  /\ A =< m /\ NumberOf(m) \notin received => m \in p.retry
  /\ A =< B /\ Starts(p, N, B)
  /\ \A i \in A .. N - 1 :
       i < B \/ NumberOf(i) \in p.acked =>
         NumberOf(i) \in o.acked \/ (i = m /\ NumberOf(m) \in received)
  /\ \A i \in B .. N - 1 : NumberOf(i) \in o.acked => NumberOf(i) \in p.acked
  /\ m < B \/ NumberOf(m) \in p.acked \/ m \in p.retry

LEMMA SettledOneIs ==
  ASSUME NEW o \in Originators, NEW N \in Nat, NEW A, NEW D \in Nat, NEW X, NEW Y, NEW Z, NEW m \in Ids,
         Starts(o, N, A), Keeps(o, N, A, X, Y), Covers(o, N, A, Z),
         N - WinSize =< m, m < N, m \in X, D =< m, N =< D + WinSize, D =< N,
         m \in Y \/ (m \notin o.retry /\ (A =< m => NumberOf(m) \notin o.acked)),
         NEW received, NEW p, p = SettleOne(o, m, NumberOf(D), received)
  PROVE  \E B \in Nat :
           SettlesOne(o, p, m, N, A, B, received) /\ Keeps(p, N, B, X, Y) /\ Covers(p, N, B, Z \ {m})
<1>1. A \in Nat /\ A =< N /\ m \in Int
  BY Sizes DEF Starts, Ids
<1>2. CASE NumberOf(m) \in received
  <2>1. p = NotifyAckedMpdu(o, m) BY <1>2 DEF SettleOne
  <2>2. m \in o.retry => m \in Y OBVIOUS
  <2>3. /\ p \in Originators
        /\ p.outstanding = o.outstanding /\ p.retry = o.retry /\ p.bar = o.bar
        /\ \E B \in Nat :
             Acks(o, p, m, N, A, B) /\ Keeps(p, N, B, X, Y) /\ Covers(p, N, B, Z \ {m})
    BY <2>1, <2>2, AckedIs
  <2>4. PICK B \in Nat :
             Acks(o, p, m, N, A, B) /\ Keeps(p, N, B, X, Y) /\ Covers(p, N, B, Z \ {m})
    BY <2>3
  <2>5. \A i \in A .. N - 1 :
          i < B \/ NumberOf(i) \in p.acked =>
            NumberOf(i) \in o.acked \/ (i = m /\ NumberOf(m) \in received)
    BY <1>2, <2>4 DEF Acks
  <2>6. \A n \in p.retry : n \in o.retry \/ (n = m /\ NumberOf(m) \notin received)
    BY <2>3
  <2> QED BY <1>2, <2>3, <2>4, <2>5, <2>6 DEF Acks, SettlesOne
<1>3. CASE NumberOf(m) \notin received
  <2>1. ~ IsOld(NumberOf(D), NumberOf(m))
    <3>1. D \in Int /\ -Half =< m - D /\ m - D < Half BY <1>1, Sizes
    <3> QED BY <1>1, <3>1, OldOrNot
  <2>2. p = InsertInRetryQueue(o, m) BY <1>3, <2>1 DEF SettleOne
  <2>3. /\ p \in Originators
        /\ p.start = o.start /\ p.acked = o.acked /\ p.outstanding = o.outstanding
        /\ p.bar = o.bar /\ p.retry = o.retry \cup {n \in {m} : A =< m}
        /\ Starts(p, N, A) /\ Keeps(p, N, A, X, Y) /\ Covers(p, N, A, Z \ {m})
    BY <2>2, RetriedIs DEF TriesAgain
  <2>4. m < A \/ NumberOf(m) \in p.acked \/ m \in p.retry BY <1>1, <2>3
  <2>5. \A i \in A .. N - 1 :
          i < A \/ NumberOf(i) \in p.acked =>
            NumberOf(i) \in o.acked \/ (i = m /\ NumberOf(m) \in received)
    BY <1>1, <2>3
  <2>6. /\ o.retry \subseteq p.retry
        /\ \A n \in p.retry : n \in o.retry \/ (n = m /\ NumberOf(m) \notin received)
        /\ A =< m /\ NumberOf(m) \notin received => m \in p.retry
    BY <1>3, <2>3
  <2> QED BY <1>1, <2>3, <2>4, <2>5, <2>6 DEF SettlesOne
<1> QED BY <1>2, <1>3

(* From o to p the frames of D are settled: each has left the window, is   *)
(* acknowledged, or is to be sent again if it is not reported as received. *)
Settles(o, p, N, A, B, D, received) ==
  /\ p \in Originators /\ B \in Nat /\ A =< B
  /\ Starts(p, N, B) /\ Keeps(p, N, B, D, {}) /\ Covers(p, N, B, {})
  /\ p.outstanding = o.outstanding /\ p.bar = o.bar /\ o.retry \subseteq p.retry
  /\ \A n \in p.retry : n \in o.retry \/ (n \in D /\ NumberOf(n) \notin received)
  /\ \A n \in D : /\ n < B \/ NumberOf(n) \in p.acked \/ n \in p.retry
                  /\ NumberOf(n) \notin received => n \in p.retry
  /\ \A i \in A .. N - 1 :
       i < B \/ NumberOf(i) \in p.acked =>
         NumberOf(i) \in o.acked \/ (i \in D /\ NumberOf(i) \in received)

LEMMA SettlesOn ==
  ASSUME NEW o \in Originators, NEW N \in Nat, NEW A, NEW a, NEW B, NEW D, NEW received, NEW m,
         Starts(o, N, A), Keeps(o, N, A, {}, {}), Settles(o, a, N, A, B, D, received),
         m \in o.outstanding, m \notin D, D \subseteq o.outstanding,
         NEW q, q = SettleOne(a, m, NumberOf(A), received)
  PROVE  \E C : Settles(o, q, N, A, C, D \cup {m}, received)
<1>1. /\ A \in Nat /\ A =< N /\ N =< A + WinSize
      /\ m \in Ids /\ m \in Int /\ A =< m /\ N - WinSize =< m /\ m < N
  BY Sizes DEF Originators, Ids, Keeps, Starts
<1>2. \A n \in o.outstanding : n \in Int /\ A =< n /\ n < N
  BY Sizes DEF Originators, Ids, Keeps
<1>3. /\ a \in Originators /\ B \in Nat /\ A =< B
      /\ Starts(a, N, B) /\ Keeps(a, N, B, D, {}) /\ Covers(a, N, B, {})
      /\ a.outstanding = o.outstanding /\ a.bar = o.bar /\ o.retry \subseteq a.retry
      /\ \A n \in a.retry : n \in o.retry \/ (n \in D /\ NumberOf(n) \notin received)
  BY DEF Settles
<1>4. B =< m /\ NumberOf(m) \notin a.acked /\ m \notin a.retry
  BY <1>3 DEF Keeps
<1> DEFINE E == D \cup {m}
<1>5. Keeps(a, N, B, E, {})
  BY <1>3 DEF Keeps
<1>6. PICK C \in Nat :
        SettlesOne(a, q, m, N, B, C, received) /\ Keeps(q, N, C, E, {}) /\ Covers(q, N, C, {})
  <2>1. m \in E OBVIOUS
  <2>2. {} \ {m} = {} OBVIOUS
  <2> HIDE DEF E
  <2>3. \E C \in Nat : /\ SettlesOne(a, q, m, N, B, C, received)
                       /\ Keeps(q, N, C, E, {}) /\ Covers(q, N, C, {} \ {m})
    BY <1>1, <1>3, <1>4, <1>5, <2>1, SettledOneIs
  <2> QED BY <2>2, <2>3
<1>7. /\ q \in Originators /\ q.outstanding = a.outstanding /\ q.bar = a.bar
      /\ a.retry \subseteq q.retry
      /\ \A n \in q.retry : n \in a.retry \/ (n = m /\ NumberOf(m) \notin received)
      /\ B =< m /\ NumberOf(m) \notin received => m \in q.retry
      /\ B =< C /\ Starts(q, N, C)
      /\ \A i \in B .. N - 1 :
           i < C \/ NumberOf(i) \in q.acked =>
             NumberOf(i) \in a.acked \/ (i = m /\ NumberOf(m) \in received)
      /\ \A i \in C .. N - 1 : NumberOf(i) \in a.acked => NumberOf(i) \in q.acked
      /\ m < C \/ NumberOf(m) \in q.acked \/ m \in q.retry
  BY <1>6 DEF SettlesOne
<1>8. ASSUME NEW n \in E
      PROVE  /\ n < C \/ NumberOf(n) \in q.acked \/ n \in q.retry
             /\ NumberOf(n) \notin received => n \in q.retry
  <2>1. CASE n = m
    BY <1>4, <1>7, <2>1
  <2>2. CASE n \in D
    <3>1. /\ n < B \/ NumberOf(n) \in a.acked \/ n \in a.retry
          /\ NumberOf(n) \notin received => n \in a.retry
      BY <2>2 DEF Settles
    <3>2. n \in Int /\ n < N BY <1>2, <2>2
    <3>3. n < C \/ n \in C .. N - 1 BY <3>2, <1>1
    <3> QED BY <1>3, <1>7, <3>1, <3>2, <3>3
  <2> QED BY <2>1, <2>2
<1>9. ASSUME NEW i \in A .. N - 1, i < C \/ NumberOf(i) \in q.acked
      PROVE  NumberOf(i) \in o.acked \/ (i \in E /\ NumberOf(i) \in received)
  <2>1. i < B \/ NumberOf(i) \in a.acked =>
          NumberOf(i) \in o.acked \/ (i \in D /\ NumberOf(i) \in received)
    BY DEF Settles
  <2>2. i < B \/ i \in B .. N - 1 BY <1>1, <1>3
  <2> QED BY <1>7, <1>9, <2>1, <2>2
<1>10. \A n \in q.retry : n \in o.retry \/ (n \in E /\ NumberOf(n) \notin received)
  BY <1>3, <1>7
<1>11. A =< C
  BY <1>1, <1>3, <1>7
<1> QED BY <1>3, <1>6, <1>7, <1>8, <1>9, <1>10, <1>11 DEF Settles

(* What a BlockAck says of the outstanding frames.                         *)
LEMMA AllSettled ==
  ASSUME NEW o \in Originators, NEW N \in Nat, NEW A, NEW mpdus \in Seq(Ids), NEW received,
         Starts(o, N, A), Keeps(o, N, A, {}, {}), Covers(o, N, A, {}),
         \A i \in 1 .. Len(mpdus) : mpdus[i] \in o.outstanding,
         \A i, j \in 1 .. Len(mpdus) : i < j => mpdus[i] # mpdus[j],
         NEW p, p = Settled(o, mpdus, NumberOf(A), received)
  PROVE  \E B : Settles(o, p, N, A, B, Range(mpdus), received)
<1> DEFINE L == Len(mpdus)
           W == 0 .. N - 1
           S == {a \in Originators : a.outstanding = o.outstanding /\ \E B :
                                       Starts(a, N, B) /\ Keeps(a, N, B, Ids, Ids)}
           First(i) == {mpdus[j] : j \in 1 .. i}
<1>1. /\ L \in Nat /\ (\A i \in 1 .. L : mpdus[i] \in Ids)
      /\ A \in Nat /\ A =< N /\ N =< A + WinSize
  BY LenProperties, ElementOfSeq DEF Starts
<1>2. ASSUME NEW a \in S, NEW i \in 1 .. L
      PROVE  SettleOne(a, mpdus[i], NumberOf(A), received) \in S
  <2>1. PICK B : Starts(a, N, B) /\ Keeps(a, N, B, Ids, Ids) OBVIOUS
  <2>2. PICK m : m = mpdus[i] OBVIOUS
  <2>3. PICK q : q = SettleOne(a, m, NumberOf(A), received) OBVIOUS
  <2>4. a \in Originators /\ m \in Ids /\ a.outstanding = o.outstanding /\ m \in o.outstanding
    BY <1>1, <2>2
  <2>5. A =< m /\ N - WinSize =< m /\ m < N BY <2>4 DEF Keeps
  <2>6. Covers(a, N, B, 0 .. N - 1)
    BY <2>1 DEF Covers, Starts
  <2> HIDE DEF S
  <2>7. /\ q \in Originators /\ q.outstanding = a.outstanding
        /\ \E C \in Nat : Starts(q, N, C) /\ Keeps(q, N, C, Ids, Ids)
    <3>1. PICK Z : Z = 0 .. N - 1 OBVIOUS
    <3>2. Covers(a, N, B, Z) BY <2>6, <3>1
    <3>3. \E C \in Nat : /\ SettlesOne(a, q, m, N, B, C, received)
                         /\ Keeps(q, N, C, Ids, Ids) /\ Covers(q, N, C, Z \ {m})
      BY <1>1, <2>1, <2>3, <2>4, <2>5, <3>2, SettledOneIs
    <3> QED BY <3>3 DEF SettlesOne
  <2>8. q \in S BY <2>4, <2>7 DEF S
  <2> QED BY <2>2, <2>3, <2>8
<1>3. o \in S
  BY DEF Keeps
<1>4. PICK f \in [0 .. L -> S] :
        /\ f[0] = o /\ p = f[L]
        /\ \A i \in 1 .. L : f[i] = SettleOne(f[i - 1], mpdus[i], NumberOf(A), received)
  <2> HIDE DEF S
  <2>0. PICK start : start = NumberOf(A) OBVIOUS
  <2>1. \A a \in S, i \in 1 .. Len(mpdus) : SettleOne(a, mpdus[i], start, received) \in S
    BY <1>2, <2>0
  <2>2. \E f :
          /\ Turns(f, S, o, Len(mpdus)) /\ Settled(o, mpdus, start, received) = f[Len(mpdus)]
          /\ \A i \in 1 .. Len(mpdus) : f[i] = SettleOne(f[i - 1], mpdus[i], start, received)
    BY <2>1, <1>3, SettledIs
  <2> QED BY <2>0, <2>2 DEF Turns
<1> DEFINE T == {i \in 0 .. L : \E B : Settles(o, f[i], N, A, B, First(i), received)}
<1>5. 0 \in T
  <2>1. First(0) = {} OBVIOUS
  <2> HIDE DEF First
  <2>2. Settles(o, o, N, A, A, {}, received) BY <1>1 DEF Settles
  <2> QED BY <1>1, <1>4, <2>1, <2>2
<1>6. ASSUME NEW i \in 0 .. L - 1, i \in T PROVE i + 1 \in T
  <2>1. PICK B : Settles(o, f[i], N, A, B, First(i), received) BY <1>6
  <2>2. i + 1 \in 1 .. L /\ (i + 1) - 1 = i /\ i \in Nat /\ \A j \in 1 .. i : j \in 1 .. L /\ j < i + 1
    BY <1>1
  <2>3. PICK m, a, q, D : m = mpdus[i + 1] /\ a = f[i] /\ q = f[i + 1] /\ D = First(i)
    OBVIOUS
  <2>4. q = SettleOne(a, m, NumberOf(A), received) BY <1>4, <2>2, <2>3
  <2>5. m \in o.outstanding BY <2>2, <2>3
  <2>6. m \notin D /\ D \subseteq o.outstanding BY <2>2, <2>3
  <2>7. First(i + 1) = D \cup {m}
    <3>1. 1 .. i + 1 = 1 .. i \cup {i + 1} BY <2>2
    <3> QED BY <2>3, <3>1
  <2> HIDE DEF First
  <2>8. \E C : Settles(o, q, N, A, C, D \cup {m}, received)
    BY <2>1, <2>3, <2>4, <2>5, <2>6, SettlesOn
  <2> QED BY <2>2, <2>3, <2>7, <2>8
<1>7. L \in T
  <2> HIDE DEF T
  <2>1. \A i \in 0 .. L - 1 : i \in T => i + 1 \in T BY <1>6
  <2>2. \A i \in 0 .. L : i \in T BY <1>1, <1>5, <2>1, Reaches
  <2> QED BY <1>1, <2>2
<1>8. First(L) = Range(mpdus)
  <2>1. DOMAIN mpdus = 1 .. L BY LenProperties
  <2> QED BY <2>1 DEF Range
<1> HIDE DEF First
<1> QED BY <1>4, <1>7, <1>8

-----------------------------------------------------------------------------
(* The recipient: lists of frames in their order.                          *)

Ascending(s) == \A i, j \in 1 .. Len(s) : i < j => s[i] < s[j]

LEMMA PartIs ==
  ASSUME NEW s \in Seq(Ids), NEW m \in Nat, NEW n \in Nat, 1 =< m, m =< n + 1, n =< Len(s)
  PROVE  /\ SubSeq(s, m, n) \in Seq(Ids) /\ Len(SubSeq(s, m, n)) = n - m + 1
         /\ \A i \in 1 .. n - m + 1 : SubSeq(s, m, n)[i] = s[m + i - 1]
         /\ Range(SubSeq(s, m, n)) = {s[i] : i \in m .. n}
         /\ Ascending(s) => Ascending(SubSeq(s, m, n))
<1>1. \A i \in m .. n : s[i] \in Ids
  <2>1. \A i \in m .. n : i \in 1 .. Len(s) BY LenProperties
  <2> QED BY <2>1, ElementOfSeq
<1> DEFINE t == SubSeq(s, m, n)
<1>2. /\ t \in Seq(Ids) /\ Len(t) = n - m + 1
      /\ \A i \in 1 .. n - m + 1 : t[i] = s[m + i - 1]
  <2>1. /\ t \in Seq(Ids) /\ Len(t) = (IF m =< n THEN n - m + 1 ELSE 0)
        /\ \A i \in 1 .. n - m + 1 : t[i] = s[m + i - 1]
    BY <1>1, SubSeqProperties
  <2> QED BY <2>1
<1> HIDE DEF t
<1>3. Range(t) = {s[i] : i \in m .. n}
  <2>1. DOMAIN t = 1 .. n - m + 1 BY <1>2, LenProperties
  <2>2. ASSUME NEW i \in m .. n PROVE s[i] \in Range(t)
    <3>1. i - m + 1 \in 1 .. n - m + 1 /\ m + (i - m + 1) - 1 = i OBVIOUS
    <3>2. t[i - m + 1] = s[i] BY <1>2, <3>1
    <3> QED BY <2>1, <3>1, <3>2 DEF Range
  <2>3. ASSUME NEW x \in Range(t) PROVE x \in {s[i] : i \in m .. n}
    <3>1. PICK i \in 1 .. n - m + 1 : x = t[i] BY <2>1 DEF Range
    <3>2. m + i - 1 \in m .. n /\ x = s[m + i - 1] BY <1>2, <3>1
    <3> QED BY <3>2
  <2> QED BY <2>2, <2>3
<1>4. ASSUME Ascending(s) PROVE Ascending(t)
  <2>1. ASSUME NEW i \in 1 .. Len(t), NEW j \in 1 .. Len(t), i < j PROVE t[i] < t[j]
    <3>1. i \in 1 .. n - m + 1 /\ j \in 1 .. n - m + 1 BY <1>2
    <3>2. m + i - 1 \in 1 .. Len(s) /\ m + j - 1 \in 1 .. Len(s) /\ m + i - 1 < m + j - 1
      BY <3>1, <2>1, LenProperties
    <3>3. s[m + i - 1] < s[m + j - 1] BY <3>2, <1>4 DEF Ascending
    <3> QED BY <1>2, <3>1, <3>3
  <2> QED BY <2>1 DEF Ascending
<1> QED BY <1>2, <1>3, <1>4 DEF t

LEMMA JoinIs ==
  ASSUME NEW s \in Seq(Ids), NEW t \in Seq(Ids)
  PROVE  /\ s \o t \in Seq(Ids) /\ Len(s \o t) = Len(s) + Len(t)
         /\ \A i \in 1 .. Len(s) : (s \o t)[i] = s[i]
         /\ \A i \in 1 .. Len(t) : (s \o t)[Len(s) + i] = t[i]
         /\ Range(s \o t) = Range(s) \cup Range(t)
         /\ Ascending(s) /\ Ascending(t) /\ (\A x \in Range(s), y \in Range(t) : x < y)
              => Ascending(s \o t)
<1> DEFINE u == s \o t
<1>1. /\ u \in Seq(Ids) /\ Len(u) = Len(s) + Len(t) /\ Len(s) \in Nat /\ Len(t) \in Nat
      /\ \A i \in 1 .. Len(s) + Len(t) : u[i] = IF i <= Len(s) THEN s[i] ELSE t[i - Len(s)]
  BY ConcatProperties, LenProperties
<1>2. DOMAIN u = 1 .. Len(s) + Len(t) /\ DOMAIN s = 1 .. Len(s) /\ DOMAIN t = 1 .. Len(t)
  BY <1>1, LenProperties
<1> HIDE DEF u
<1>3. \A i \in 1 .. Len(s) : i \in 1 .. Len(s) + Len(t) /\ u[i] = s[i]
  BY <1>1
<1>4. \A i \in 1 .. Len(t) : Len(s) + i \in 1 .. Len(s) + Len(t) /\ u[Len(s) + i] = t[i]
  <2>1. ASSUME NEW i \in 1 .. Len(t)
        PROVE  Len(s) + i \in 1 .. Len(s) + Len(t) /\ u[Len(s) + i] = t[i]
    <3>1. Len(s) + i \in 1 .. Len(s) + Len(t) /\ ~ (Len(s) + i <= Len(s)) /\ Len(s) + i - Len(s) = i
      BY <1>1
    <3> QED BY <1>1, <3>1
  <2> QED BY <2>1
<1>5. \A i \in 1 .. Len(s) + Len(t) :
        (i \in 1 .. Len(s) /\ u[i] = s[i]) \/ (i - Len(s) \in 1 .. Len(t) /\ u[i] = t[i - Len(s)])
  BY <1>1
<1>6. Range(u) = Range(s) \cup Range(t)
  <2>1. \A x \in Range(s) \cup Range(t) : x \in Range(u)
    <3>1. \A i \in 1 .. Len(s) : s[i] \in Range(u) BY <1>2, <1>3 DEF Range
    <3>2. \A i \in 1 .. Len(t) : t[i] \in Range(u) BY <1>2, <1>4 DEF Range
    <3> QED BY <1>2, <3>1, <3>2 DEF Range
  <2>2. \A x \in Range(u) : x \in Range(s) \cup Range(t)
    <3>1. ASSUME NEW i \in 1 .. Len(s) + Len(t) PROVE u[i] \in Range(s) \cup Range(t)
      <4>1. CASE i \in 1 .. Len(s) /\ u[i] = s[i]
        BY <1>2, <4>1 DEF Range
      <4>2. CASE i - Len(s) \in 1 .. Len(t) /\ u[i] = t[i - Len(s)]
        BY <1>2, <4>2 DEF Range
      <4> QED BY <1>5, <4>1, <4>2
    <3> QED BY <1>2, <3>1 DEF Range
  <2> QED BY <2>1, <2>2
<1>7. ASSUME Ascending(s), Ascending(t), \A x \in Range(s), y \in Range(t) : x < y
      PROVE  Ascending(u)
  <2>1. /\ \A i \in 1 .. Len(s) : s[i] \in Range(s)
        /\ \A i \in 1 .. Len(t) : t[i] \in Range(t)
    BY <1>2 DEF Range
  <2>2. ASSUME NEW i \in 1 .. Len(u), NEW j \in 1 .. Len(u), i < j PROVE u[i] < u[j]
    <3>1. i \in 1 .. Len(s) + Len(t) /\ j \in 1 .. Len(s) + Len(t) BY <1>1
    <3>2. CASE i \in 1 .. Len(s) /\ j \in 1 .. Len(s)
      BY <1>3, <1>7, <2>2, <3>2 DEF Ascending
    <3>3. CASE i \notin 1 .. Len(s) /\ j \notin 1 .. Len(s)
      <4>1. i - Len(s) \in 1 .. Len(t) /\ j - Len(s) \in 1 .. Len(t) /\ i - Len(s) < j - Len(s)
        BY <1>1, <2>2, <3>1, <3>3
      <4>2. u[i] = t[i - Len(s)] /\ u[j] = t[j - Len(s)] BY <1>5, <3>1, <3>3
      <4> QED BY <1>7, <4>1, <4>2 DEF Ascending
    <3>4. CASE i \in 1 .. Len(s) /\ j \notin 1 .. Len(s)
      BY <1>5, <1>7, <2>1, <3>1, <3>4
    <3>5. ~ (i \notin 1 .. Len(s) /\ j \in 1 .. Len(s))
      BY <1>1, <2>2, <3>1
    <3> QED BY <3>2, <3>3, <3>4, <3>5
  <2> QED BY <2>2 DEF Ascending
<1> QED BY <1>1, <1>3, <1>4, <1>6, <1>7 DEF u

(* Frames in their order are as far apart as their places, at least.       *)
LEMMA Apart ==
  ASSUME NEW s \in Seq(Ids), Ascending(s), NEW i \in 1 .. Len(s), NEW j \in i .. Len(s)
  PROVE  s[i] + (j - i) =< s[j]
<1> DEFINE n == Len(s) - i
           T == {k \in 0 .. n : s[i] + k =< s[i + k]}
<1>1. n \in Nat /\ \A k \in 0 .. n : i + k \in 1 .. Len(s)
  BY LenProperties
<1>2. \A k \in 1 .. Len(s) : s[k] \in Int
  BY ElementOfSeq, Sizes DEF Ids
<1>3. 0 \in T
  BY <1>1, <1>2
<1>4. ASSUME NEW k \in 0 .. n - 1, k \in T PROVE k + 1 \in T
  <2>1. /\ k \in 0 .. n /\ k + 1 \in 0 .. n /\ i + k \in 1 .. Len(s) /\ i + (k + 1) \in 1 .. Len(s)
        /\ i + k < i + (k + 1)
    BY <1>1
  <2>2. s[i + k] < s[i + (k + 1)] BY <2>1 DEF Ascending
  <2>3. s[i] + k =< s[i + k] BY <1>4
  <2>4. s[i] \in Int /\ s[i + k] \in Int /\ s[i + (k + 1)] \in Int BY <1>2, <2>1
  <2>5. s[i] + (k + 1) =< s[i + (k + 1)] BY <2>1, <2>2, <2>3, <2>4
  <2> QED BY <2>1, <2>5
<1>5. \A k \in 0 .. n : k \in T
  <2> HIDE DEF T, n
  <2>1. \A k \in 0 .. n - 1 : k \in T => k + 1 \in T BY <1>4
  <2> QED BY <1>1, <1>3, <2>1, Reaches
<1>6. j - i \in 0 .. n /\ i + (j - i) = j
  BY LenProperties
<1> QED BY <1>5, <1>6

Recipients ==
  [start : Seqs, buffer : Seq(Ids), winStart : Seqs, bitmap : SUBSET Seqs, delivered : Seq(Ids)]

-----------------------------------------------------------------------------
(* What is passed up: the last WinSize of it are remembered.               *)

LastOf(u, g, c) ==
  /\ u \in Seq(Ids) /\ g \in Seq(Ids)
  /\ IF Len(u) =< WinSize THEN c = 0 ELSE c = Len(u) - WinSize
  /\ Len(g) = Len(u) - c /\ Len(g) =< WinSize
  /\ \A i \in 1 .. Len(g) : g[i] = u[c + i]

LEMMA GivenIs ==
  ASSUME NEW r, NEW d \in Seq(Ids), r.delivered = d, NEW s \in Seq(Ids)
  PROVE  \E c \in Nat : LastOf(d \o s, Given(r, s), c)
<1>1. PICK all \in Seq(Ids) : all = d \o s
  BY JoinIs
<1>2. PICK L \in Nat : L = Len(all)
  BY LenProperties
<1>3. PICK c \in Nat : IF L =< WinSize THEN c = 0 ELSE c = L - WinSize
  <2>1. CASE L =< WinSize
    BY <2>1
  <2>2. CASE ~ (L =< WinSize)
    <3>1. L - WinSize \in Nat BY <2>2, Sizes
    <3> QED BY <2>2, <3>1
  <2> QED BY <2>1, <2>2
<1>4. c =< L /\ 1 =< c + 1 /\ c + 1 =< L + 1 /\ c + 1 \in Nat
  BY <1>2, <1>3, Sizes
<1>5. Max({1, L - WinSize + 1}) = c + 1
  <2>1. PICK k \in Int : k = L - WinSize + 1 BY Sizes
  <2>2. Max({1, k}) = IF 1 =< k THEN k ELSE 1
    <3>1. PICK e \in Int : e = 1 OBVIOUS
    <3>2. Max({e, k}) = IF e =< k THEN k ELSE e BY LargerOf
    <3> QED BY <3>1, <3>2
  <2> QED BY <1>2, <1>3, <2>1, <2>2, Sizes
<1>6. Given(r, s) = SubSeq(all, c + 1, L)
  BY <1>1, <1>2, <1>5 DEF Given
<1>7. /\ SubSeq(all, c + 1, L) \in Seq(Ids) /\ Len(SubSeq(all, c + 1, L)) = L - (c + 1) + 1
      /\ \A i \in 1 .. L - (c + 1) + 1 : SubSeq(all, c + 1, L)[i] = all[c + 1 + i - 1]
  BY <1>2, <1>4, PartIs
<1>8. \A i \in Int : c + 1 + i - 1 = c + i
  OBVIOUS
<1>9. L - (c + 1) + 1 = L - c /\ L - c =< WinSize
  BY <1>2, <1>3, Sizes
<1>10. PICK g \in Seq(Ids) : g = SubSeq(all, c + 1, L)
  BY <1>7
<1>11. Len(g) = L - c /\ \A i \in 1 .. L - c : g[i] = all[c + i]
  BY <1>7, <1>8, <1>9, <1>10
<1>12. LastOf(all, g, c)
  BY <1>2, <1>3, <1>9, <1>11 DEF LastOf
<1> QED BY <1>1, <1>6, <1>10, <1>12

LEMMA GivenTwice ==
  ASSUME NEW r, NEW p, NEW d \in Seq(Ids), r.delivered = d, NEW s \in Seq(Ids), NEW t \in Seq(Ids),
         p.delivered = Given(r, s)
  PROVE  Given(p, t) = Given(r, s \o t)
<1>1. PICK c \in Nat : LastOf(d \o s, Given(r, s), c)
  BY GivenIs
<1>2. PICK h \in Seq(Ids) : h = Given(r, s) /\ p.delivered = h
  BY <1>1 DEF LastOf
<1>3. PICK e \in Nat : LastOf(h \o t, Given(p, t), e)
  BY <1>2, GivenIs
<1>4. PICK u \in Seq(Ids) : u = s \o t
  BY JoinIs
<1>5. PICK g \in Nat : LastOf(d \o u, Given(r, u), g)
  BY GivenIs
<1>6. PICK v \in Seq(Ids) : v = d \o s
  BY JoinIs
<1>7. d \o u = v \o t
  BY <1>4, <1>6, ConcatAssociative, SMTT(30)
<1>8. /\ \A i \in 1 .. Len(h) : (h \o t)[i] = h[i]
      /\ \A i \in 1 .. Len(t) : (h \o t)[Len(h) + i] = t[i]
      /\ Len(h \o t) = Len(h) + Len(t)
  BY JoinIs
<1>9. /\ \A i \in 1 .. Len(v) : (v \o t)[i] = v[i]
      /\ \A i \in 1 .. Len(t) : (v \o t)[Len(v) + i] = t[i]
      /\ Len(v \o t) = Len(v) + Len(t)
  BY JoinIs
<1>10. PICK L \in Nat : L = Len(v)
  BY LenProperties
<1>11. PICK T \in Nat : T = Len(t)
  BY LenProperties
<1>12. PICK x \in Seq(Ids) : x = Given(p, t)
  BY <1>3 DEF LastOf
<1>13. PICK y \in Seq(Ids) : y = Given(r, u)
  BY <1>5 DEF LastOf
<1>14. /\ (IF L =< WinSize THEN c = 0 ELSE c = L - WinSize)
       /\ Len(h) = L - c
       /\ \A i \in 1 .. L - c : h[i] = v[c + i]
  BY <1>1, <1>2, <1>6, <1>10 DEF LastOf
<1>15. /\ (IF L - c + T =< WinSize THEN e = 0 ELSE e = L - c + T - WinSize)
       /\ Len(x) = L - c + T - e
       /\ \A i \in 1 .. L - c + T - e : x[i] = (h \o t)[e + i]
  <2>1. /\ (IF Len(h \o t) =< WinSize THEN e = 0 ELSE e = Len(h \o t) - WinSize)
        /\ Len(x) = Len(h \o t) - e
        /\ \A i \in 1 .. Len(x) : x[i] = (h \o t)[e + i]
    BY <1>3, <1>12, Zenon DEF LastOf
  <2>2. Len(h \o t) = L - c + T BY <1>8, <1>11, <1>14
  <2>3. Len(x) = L - c + T - e BY <2>1, <2>2
  <2>4. (IF L - c + T =< WinSize THEN e = 0 ELSE e = L - c + T - WinSize) BY <2>1, <2>2, Sizes
  <2>5. \A i \in 1 .. L - c + T - e : x[i] = (h \o t)[e + i] BY <2>1, <2>3
  <2> QED BY <2>3, <2>4, <2>5
<1>16. /\ (IF L + T =< WinSize THEN g = 0 ELSE g = L + T - WinSize)
       /\ Len(y) = L + T - g
       /\ \A i \in 1 .. L + T - g : y[i] = (v \o t)[g + i]
  <2>1. /\ (IF Len(v \o t) =< WinSize THEN g = 0 ELSE g = Len(v \o t) - WinSize)
        /\ Len(y) = Len(v \o t) - g
        /\ \A i \in 1 .. Len(y) : y[i] = (v \o t)[g + i]
    BY <1>5, <1>7, <1>13, Zenon DEF LastOf
  <2>2. Len(v \o t) = L + T BY <1>9, <1>10, <1>11
  <2>3. Len(y) = L + T - g BY <2>1, <2>2
  <2>4. (IF L + T =< WinSize THEN g = 0 ELSE g = L + T - WinSize) BY <2>1, <2>2, Sizes
  <2>5. \A i \in 1 .. L + T - g : y[i] = (v \o t)[g + i] BY <2>1, <2>3
  <2> QED BY <2>3, <2>4, <2>5
<1>17. g = c + e /\ L + T - g = L - c + T - e
  <2>1. PICK W \in Nat : W = WinSize
    BY Sizes
  <2>2. /\ IF L =< W THEN c = 0 ELSE c = L - W
        /\ IF L - c + T =< W THEN e = 0 ELSE e = L - c + T - W
        /\ IF L + T =< W THEN g = 0 ELSE g = L + T - W
    BY <1>14, <1>15, <1>16, <2>1
  <2>3. g = c + e
    <3>1. CASE L =< W
      BY <2>2, <3>1
    <3>2. CASE ~ (L =< W)
      BY <2>2, <3>2
    <3> QED BY <3>1, <3>2
  <2> QED BY <2>3
<1>18. ASSUME NEW i \in 1 .. Len(x) PROVE x[i] = y[i]
  <2>1. i \in 1 .. L - c + T - e BY <1>15
  <2>2. x[i] = (h \o t)[e + i] BY <1>15, <2>1
  <2>3. y[i] = (v \o t)[g + i] BY <1>16, <1>17, <2>1
  <2>4. CASE e + i =< L - c
    <3>1. e + i \in 1 .. L - c /\ g + i \in 1 .. L /\ c + (e + i) = g + i
      <4>1. i \in Nat /\ 1 =< i BY <2>1
      <4> QED BY <1>17, <2>4, <4>1
    <3>2. (h \o t)[e + i] = h[e + i] BY <1>8, <1>14, <3>1
    <3>3. (v \o t)[g + i] = v[g + i] BY <1>9, <1>10, <3>1
    <3>4. h[e + i] = v[c + (e + i)] BY <1>14, <3>1
    <3> QED BY <2>2, <2>3, <3>1, <3>2, <3>3, <3>4
  <2>5. CASE ~ (e + i =< L - c)
    <3>1. PICK k \in Int : k = e + i - (L - c)
      BY <2>1
    <3>2. k \in 1 .. T /\ e + i = (L - c) + k /\ g + i = L + k
      BY <1>17, <2>1, <2>5, <3>1
    <3>3. (h \o t)[Len(h) + k] = t[k] BY <1>8, <1>11, <3>2
    <3>4. (v \o t)[Len(v) + k] = t[k] BY <1>9, <1>11, <3>2
    <3>5. Len(h) + k = e + i /\ Len(v) + k = g + i BY <1>10, <1>14, <3>2
    <3> QED BY <2>2, <2>3, <3>3, <3>4, <3>5
  <2> QED BY <2>4, <2>5
<1>19. Len(x) = Len(y)
  BY <1>15, <1>16, <1>17
<1>20. x = y
  BY <1>18, <1>19, SeqEqual
<1> QED BY <1>4, <1>12, <1>13, <1>20

(* In their order, and none of the last WinSize numbers is forgotten.      *)
LEMMA GivenInOrder ==
  ASSUME NEW r, NEW d \in Seq(Ids), r.delivered = d, NEW s \in Seq(Ids),
         NEW R \in Nat, NEW Q \in Nat, R =< Q,
         Ascending(d), Ascending(s),
         \A m \in Range(d) : m < R, \A m \in Range(s) : R =< m /\ m < Q
  PROVE  /\ Given(r, s) \in Seq(Ids) /\ Ascending(Given(r, s)) /\ Len(Given(r, s)) =< WinSize
         /\ \A m \in Range(Given(r, s)) : m < Q
         /\ \A m \in Range(d) \cup Range(s) : Q - WinSize =< m => m \in Range(Given(r, s))
<1>1. PICK c \in Nat : LastOf(d \o s, Given(r, s), c)
  BY GivenIs
<1>2. PICK all \in Seq(Ids) : all = d \o s
  BY JoinIs
<1>3. PICK g \in Seq(Ids) : g = Given(r, s)
  BY <1>1 DEF LastOf
<1>4. PICK L \in Nat : L = Len(all)
  BY LenProperties
<1>5. /\ (IF L =< WinSize THEN c = 0 ELSE c = L - WinSize)
      /\ Len(g) = L - c /\ L - c =< WinSize
      /\ \A i \in 1 .. L - c : g[i] = all[c + i]
  BY <1>1, <1>2, <1>3, <1>4 DEF LastOf
<1>6. \A x \in Range(d) \cup Range(s) : x \in Int
  <2>1. DOMAIN d = 1 .. Len(d) /\ DOMAIN s = 1 .. Len(s) BY LenProperties
  <2>2. \A i \in 1 .. Len(d) : d[i] \in Ids BY ElementOfSeq
  <2>3. \A i \in 1 .. Len(s) : s[i] \in Ids BY ElementOfSeq
  <2>4. \A x \in Ids : x \in Int BY Sizes DEF Ids
  <2> QED BY <2>1, <2>2, <2>3, <2>4 DEF Range
<1>7. \A x \in Range(d), y \in Range(s) : x < y
  BY <1>6
<1>8. Range(all) = Range(d) \cup Range(s) /\ Ascending(all)
  BY <1>2, <1>7, JoinIs
<1>9. DOMAIN all = 1 .. L /\ DOMAIN g = 1 .. L - c
  BY <1>4, <1>5, LenProperties
<1>10. \A i \in 1 .. L - c : c + i \in 1 .. L
  OBVIOUS
<1>11. Ascending(g)
  <2>1. ASSUME NEW i \in 1 .. L - c, NEW j \in 1 .. L - c, i < j PROVE g[i] < g[j]
    <3>1. c + i < c + j /\ c + i \in 1 .. Len(all) /\ c + j \in 1 .. Len(all)
      BY <1>4, <1>10, <2>1
    <3>2. all[c + i] < all[c + j] BY <1>8, <3>1 DEF Ascending
    <3> QED BY <1>5, <3>2
  <2> QED BY <1>5, <2>1 DEF Ascending
<1>12. \A m \in Range(all) : m \in Int /\ m < Q
  BY <1>6, <1>8
<1>13. ASSUME NEW m \in Range(g) PROVE m < Q
  <2>1. PICK i \in 1 .. L - c : m = g[i] BY <1>9 DEF Range
  <2>2. m = all[c + i] /\ c + i \in 1 .. L BY <1>5, <1>10, <2>1
  <2>3. m \in Range(all) BY <1>9, <2>2 DEF Range
  <2> QED BY <1>12, <2>3
<1>14. ASSUME NEW m \in Range(all), Q - WinSize =< m PROVE m \in Range(g)
  <2>1. PICK k \in 1 .. L : m = all[k] BY <1>9 DEF Range
  <2>2. CASE c < k
    <3>1. k - c \in 1 .. L - c /\ c + (k - c) = k BY <2>2
    <3>2. g[k - c] = m BY <1>5, <2>1, <3>1
    <3> QED BY <1>9, <3>1, <3>2 DEF Range
  <2>3. CASE ~ (c < k)
    <3>1. L \in k .. L /\ L - k >= WinSize /\ L \in 1 .. L /\ L \in Int BY <1>5, <2>3, Sizes
    <3>2. all[k] + (L - k) =< all[L] BY <1>4, <1>8, <3>1, Apart
    <3>3. all[L] \in Range(all) BY <1>9, <3>1 DEF Range
    <3>4. m \in Int /\ all[L] \in Int /\ all[L] < Q /\ WinSize \in Int BY <1>12, <3>3, Sizes
    <3>5. FALSE BY <1>14, <2>1, <3>1, <3>2, <3>4
    <3> QED BY <3>5
  <2> QED BY <2>2, <2>3
<1> QED BY <1>3, <1>5, <1>8, <1>11, <1>13, <1>14

-----------------------------------------------------------------------------
(* The reorder buffer.                                                     *)

LEMMA InsertIs ==
  ASSUME NEW s \in Seq(Ids), NEW n \in 0 .. Len(s), NEW m \in Ids, Ascending(s),
         \A i \in 1 .. n : s[i] < m, \A i \in n + 1 .. Len(s) : m < s[i]
  PROVE  /\ InsertAt(s, n + 1, m) \in Seq(Ids) /\ Ascending(InsertAt(s, n + 1, m))
         /\ Range(InsertAt(s, n + 1, m)) = Range(s) \cup {m}
<1>1. PICK L \in Nat : L = Len(s) /\ DOMAIN s = 1 .. L
  BY LenProperties
<1>2. PICK a \in Seq(Ids) : a = SubSeq(s, 1, n) /\ Ascending(a) /\ Range(a) = {s[i] : i \in 1 .. n}
  <2>1. PICK k \in Nat : k = 1 OBVIOUS
  <2>2. k =< n + 1 /\ n =< Len(s) /\ n \in Nat /\ 1 =< k BY <1>1, <2>1
  <2>3. SubSeq(s, k, n) \in Seq(Ids) /\ Ascending(SubSeq(s, k, n))
        /\ Range(SubSeq(s, k, n)) = {s[i] : i \in k .. n}
    BY <2>2, PartIs
  <2> QED BY <2>1, <2>3
<1>3. PICK c \in Seq(Ids) :
        c = SubSeq(s, n + 1, L) /\ Ascending(c) /\ Range(c) = {s[i] : i \in n + 1 .. L}
  <2>1. n + 1 =< L + 1 /\ L =< Len(s) /\ n + 1 \in Nat /\ 1 =< n + 1 BY <1>1
  <2> QED BY <2>1, PartIs
<1>4. PICK b \in Seq(Ids) : b = <<m>> /\ Ascending(b) /\ Range(b) = {m}
  <2>1. <<m>> \in Seq(Ids) /\ Len(<<m>>) = 1 /\ <<m>>[1] = m OBVIOUS
  <2>2. Ascending(<<m>>) BY <2>1 DEF Ascending
  <2>3. Range(<<m>>) = {m} BY <2>1 DEF Range
  <2> QED BY <2>1, <2>2, <2>3
<1>5. InsertAt(s, n + 1, m) = (a \o b) \o c
  <2>1. PICK k \in Nat : k = n + 1 /\ k - 1 = n OBVIOUS
  <2>2. InsertAt(s, k, m) = SubSeq(s, 1, k - 1) \o <<m>> \o SubSeq(s, k, Len(s)) BY DEF InsertAt
  <2> QED BY <1>1, <1>2, <1>3, <1>4, <2>1, <2>2, Zenon
<1>6. \A i \in 1 .. L : s[i] \in Int
  BY <1>1, ElementOfSeq, Sizes DEF Ids
<1>7. \A x \in Range(a), y \in Range(b) : x < y
  BY <1>2, <1>4
<1>8. a \o b \in Seq(Ids) /\ Ascending(a \o b) /\ Range(a \o b) = Range(a) \cup {m}
  <2>1. a \o b \in Seq(Ids) /\ Ascending(a \o b) /\ Range(a \o b) = Range(a) \cup Range(b)
    BY <1>2, <1>4, <1>7, JoinIs
  <2> QED BY <1>4, <2>1
<1>9. \A x \in Range(a \o b), y \in Range(c) : x < y
  <2>1. ASSUME NEW x \in Range(a), NEW y \in Range(c) PROVE x < y
    <3>1. PICK i \in 1 .. n : x = s[i] BY <1>2, <2>1
    <3>2. PICK j \in n + 1 .. L : y = s[j] BY <1>3, <2>1
    <3>3. i \in 1 .. Len(s) /\ j \in 1 .. Len(s) /\ i < j BY <1>1, <3>1, <3>2
    <3> QED BY <3>1, <3>2, <3>3 DEF Ascending
  <2>2. \A y \in Range(c) : m < y BY <1>1, <1>3
  <2> QED BY <1>8, <2>1, <2>2
<1>10. (a \o b) \o c \in Seq(Ids) /\ Ascending((a \o b) \o c)
       /\ Range((a \o b) \o c) = Range(a) \cup {m} \cup Range(c)
  <2>1. PICK d \in Seq(Ids) : d = a \o b BY <1>8
  <2> QED BY <1>3, <1>8, <1>9, <2>1, JoinIs
<1>11. Range(s) = Range(a) \cup Range(c)
  <2>1. 1 .. L = 1 .. n \cup (n + 1 .. L) BY <1>1
  <2>2. Range(s) = {s[i] : i \in 1 .. L} BY <1>1 DEF Range
  <2> QED BY <1>2, <1>3, <2>1, <2>2
<1> QED BY <1>5, <1>10, <1>11

(* From r to p the window moves from R to Q, and the frames of t are passed*)
(* up, in their order.                                                     *)
Advances(r, R, p, Q, t) ==
  /\ r \in Recipients /\ p \in Recipients /\ R \in Nat /\ Q \in Nat
  /\ R =< Q /\ t \in Seq(Ids) /\ Ascending(t)
  /\ \A m \in Range(t) : R =< m /\ m < Q
  /\ p.delivered = Given(r, t)

LEMMA AdvancesOn ==
  ASSUME NEW r, NEW p, NEW q, NEW R, NEW Q, NEW S, NEW t, NEW u,
         Advances(r, R, p, Q, t), Advances(p, Q, q, S, u)
  PROVE  Advances(r, R, q, S, t \o u) /\ Range(t \o u) = Range(t) \cup Range(u)
<1>1. PICK d \in Seq(Ids) : r.delivered = d
  BY DEF Recipients, Advances
<1>2. r \in Recipients /\ q \in Recipients /\ R \in Nat /\ Q \in Nat /\ S \in Nat
      /\ t \in Seq(Ids) /\ u \in Seq(Ids) /\ p.delivered = Given(r, t) /\ q.delivered = Given(p, u)
      /\ R =< Q /\ Q =< S /\ Ascending(t) /\ Ascending(u)
      /\ (\A m \in Range(t) : R =< m /\ m < Q) /\ (\A m \in Range(u) : Q =< m /\ m < S)
  BY DEF Advances
<1>3. q.delivered = Given(r, t \o u)
  BY <1>1, <1>2, GivenTwice
<1>4. \A m \in Range(t) \cup Range(u) : m \in Int
  <2>1. Range(t) \subseteq Ids /\ Range(u) \subseteq Ids
    BY <1>2, LenProperties, ElementOfSeq DEF Range
  <2> QED BY <2>1, Sizes DEF Ids
<1>5. \A x \in Range(t), y \in Range(u) : x < y
  BY <1>2, <1>4
<1>6. t \o u \in Seq(Ids) /\ Range(t \o u) = Range(t) \cup Range(u) /\ Ascending(t \o u)
  BY <1>2, <1>5, JoinIs
<1>7. \A m \in Range(t) \cup Range(u) : R =< m /\ m < S
  BY <1>2, <1>4
<1>8. R =< S
  BY <1>2
<1> QED BY <1>3, <1>6, <1>7, <1>8 DEF Advances

(* From r to p the start of the window is set from R to H, and then moves  *)
(* over what has come, to Q; what is left behind is passed up.             *)
Passes(r, p, R, H, Q, t) ==
  /\ p \in Recipients /\ p.start = NumberOf(Q) /\ p.winStart = r.winStart /\ p.bitmap = r.bitmap
  /\ H =< Q /\ Advances(r, R, p, Q, t) /\ H .. Q - 1 \subseteq Range(t)
  /\ Range(r.buffer) = Range(t) \cup Range(p.buffer)
  /\ Ascending(p.buffer) /\ \A b \in Range(p.buffer) : Q < b

LEMMA UntilLostIs ==
  ASSUME NEW r \in Recipients, NEW R \in Nat, NEW N \in Nat, N =< R + WinSize,
         r.start = NumberOf(R), Ascending(r.buffer),
         \A b \in Range(r.buffer) : R =< b /\ b < N
  PROVE  \E Q \in Nat : \E t : Passes(r, PassUntilLost(r), R, R, Q, t)
<1>1. PICK s \in Seq(Ids) : s = r.buffer
  BY DEF Recipients
<1>2. PICK L \in Nat : L = Len(s) /\ DOMAIN s = 1 .. L
  BY LenProperties
<1>3. \A i \in 1 .. L : s[i] \in Int /\ R =< s[i] /\ s[i] < N
  <2>1. \A i \in 1 .. L : s[i] \in Int BY <1>2, ElementOfSeq, Sizes DEF Ids
  <2>2. \A i \in 1 .. L : s[i] \in Range(s) BY <1>2 DEF Range
  <2> QED BY <1>1, <2>1, <2>2
<1>4. \A i \in 1 .. L : \A j \in i .. L : s[i] + (j - i) =< s[j]
  BY <1>1, <1>2, Apart
<1>5. ASSUME NEW i \in 1 .. L PROVE R + (i - 1) =< s[i] /\ i =< WinSize
  <2>1. 1 \in 1 .. L /\ i \in 1 .. L OBVIOUS
  <2>2. s[1] + (i - 1) =< s[i] BY <1>4, <2>1
  <2>3. R =< s[1] /\ s[1] \in Int /\ s[i] \in Int /\ s[i] < N BY <1>3, <2>1
  <2> QED BY <2>2, <2>3, Sizes
<1> DEFINE P == {i \in 1 .. L : s[i] = R + (i - 1)}
           T == {k \in 0 .. L : \A i \in 1 .. k : i \in P}
<1>6. ASSUME NEW i \in 1 .. L
      PROVE  NumberOf(s[i]) = (r.start + i - 1) % SeqSpace <=> i \in P
  <2>1. (NumberOf(R) + (i - 1)) % SeqSpace = NumberOf(R + (i - 1)) BY Shift
  <2>2. NumberOf(R) + (i - 1) = r.start + i - 1 BY NumberType
  <2>3. s[i] \in Int /\ R + (i - 1) \in Int
        /\ -SeqSpace < s[i] - (R + (i - 1)) /\ s[i] - (R + (i - 1)) < SeqSpace
    BY <1>3, <1>5, Sizes
  <2>4. NumberOf(s[i]) = NumberOf(R + (i - 1)) => s[i] = R + (i - 1) BY <2>3, SameNumber
  <2> QED BY <2>1, <2>2, <2>4
<1>7. {k \in 0 .. Len(r.buffer) : \A i \in 1 .. k : NumberOf(r.buffer[i]) = (r.start + i - 1) % SeqSpace} = T
  <2>1. ASSUME NEW k \in 0 .. L
        PROVE  (\A i \in 1 .. k : NumberOf(s[i]) = (r.start + i - 1) % SeqSpace) <=> k \in T
    <3>1. \A i \in 1 .. k : i \in 1 .. L OBVIOUS
    <3> HIDE DEF P
    <3> QED BY <1>6, <3>1
  <2> HIDE DEF T
  <2>2. \A k \in T : k \in 0 .. L BY DEF T
  <2> QED BY <1>1, <1>2, <2>1, <2>2
<1>8. PICK n \in 0 .. L :
        n = Max(T) /\ (\A i \in 1 .. n : i \in P) /\ (n < L => n + 1 \notin P)
  <2>1. T = Runs(L, P) BY DEF Runs
  <2> HIDE DEF P, T
  <2>2. /\ Max(T) \in 0 .. L
        /\ \A i \in 1 .. Max(T) : i \in P
        /\ Max(T) < L => Max(T) + 1 \notin P
    BY <2>1, Longest
  <2> QED BY <2>2
<1> HIDE DEF T
<1>9. PICK t \in Seq(Ids) :
        /\ t = SubSeq(s, 1, n) /\ Ascending(t)
        /\ Range(t) = {s[i] : i \in 1 .. n}
  <2>1. PICK k \in Nat : k = 1 OBVIOUS
  <2>2. k =< n + 1 /\ n =< Len(s) /\ n \in Nat /\ 1 =< k BY <1>2, <2>1
  <2>3. SubSeq(s, k, n) \in Seq(Ids) /\ Ascending(SubSeq(s, k, n))
        /\ Range(SubSeq(s, k, n)) = {s[i] : i \in k .. n}
    BY <1>1, <2>2, PartIs
  <2> QED BY <2>1, <2>3
<1>10. PICK u \in Seq(Ids) :
        /\ u = SubSeq(s, n + 1, L) /\ Ascending(u)
        /\ Range(u) = {s[i] : i \in n + 1 .. L}
  <2>1. PICK k \in Nat : k = n + 1 BY <1>2
  <2>2. 1 =< k /\ k =< L + 1 /\ L =< Len(s) BY <1>2, <2>1
  <2>3. SubSeq(s, k, L) \in Seq(Ids) /\ Ascending(SubSeq(s, k, L))
        /\ Range(SubSeq(s, k, L)) = {s[i] : i \in k .. L}
    <3>1. s \in Seq(Ids) /\ Ascending(s) /\ L \in Nat BY <1>1
    <3> QED BY <2>2, <3>1, PartIs
  <2> QED BY <2>1, <2>3
<1>11. PICK Q \in Nat : Q = R + n
  OBVIOUS
<1>12. (r.start + n) % SeqSpace = NumberOf(Q)
  BY <1>11, Shift
<1>13. PICK g \in Seq(Ids) : g = Given(r, t)
  <2>1. PICK d \in Seq(Ids) : r.delivered = d BY DEF Recipients
  <2>2. PICK c \in Nat : LastOf(d \o t, Given(r, t), c) BY <2>1, GivenIs
  <2> QED BY <2>2 DEF LastOf
<1>14. PICK p : p = PassUntilLost(r)
  OBVIOUS
<1>15. p = [r EXCEPT !.start = NumberOf(Q), !.buffer = u, !.delivered = g]
  BY <1>1, <1>2, <1>7, <1>8, <1>9, <1>10, <1>12, <1>13, <1>14 DEF PassUntilLost
<1>16. /\ p \in Recipients /\ p.start = NumberOf(Q) /\ p.winStart = r.winStart /\ p.bitmap = r.bitmap
       /\ p.buffer = u /\ p.delivered = g
  <2>1. NumberOf(Q) \in Seqs BY NumberType
  <2> QED BY <1>15, <2>1 DEF Recipients
<1>17. \A i \in 1 .. n : s[i] = R + (i - 1)
  BY <1>8
<1>18. Range(t) = R .. Q - 1
  <2>1. ASSUME NEW x \in R .. Q - 1 PROVE x \in Range(t)
    <3>1. x - R + 1 \in 1 .. n BY <1>11
    <3>2. s[x - R + 1] = x BY <1>17, <3>1
    <3> QED BY <1>9, <3>1, <3>2
  <2>2. ASSUME NEW x \in Range(t) PROVE x \in R .. Q - 1
    <3>1. PICK i \in 1 .. n : x = s[i] BY <1>9
    <3>2. x = R + (i - 1) BY <1>17, <3>1
    <3> QED BY <1>11, <3>2
  <2> QED BY <2>1, <2>2
<1>19. ASSUME NEW b \in Range(u) PROVE Q < b
  <2>1. PICK i \in n + 1 .. L : b = s[i] BY <1>10
  <2>2. n + 1 \in 1 .. L /\ i \in n + 1 .. L /\ i \in 1 .. L /\ n < L BY <2>1
  <2>3. s[n + 1] + (i - (n + 1)) =< s[i] BY <1>4, <2>2
  <2>4. s[n + 1] # R + ((n + 1) - 1) BY <1>8, <2>2
  <2>5. R + ((n + 1) - 1) =< s[n + 1] BY <1>5, <2>2
  <2>6. s[n + 1] \in Int /\ s[i] \in Int BY <1>3, <2>2
  <2>7. s[n + 1] # Q /\ Q =< s[n + 1]
    <3>1. R + ((n + 1) - 1) = Q BY <1>11
    <3> QED BY <2>4, <2>5, <3>1, Zenon
  <2>8. Q < s[n + 1] BY <2>6, <2>7
  <2>9. s[n + 1] =< s[i] BY <2>2, <2>3, <2>6
  <2> QED BY <2>1, <2>6, <2>8, <2>9
<1>20. Range(r.buffer) = Range(t) \cup Range(u)
  <2>1. 1 .. L = 1 .. n \cup (n + 1 .. L) OBVIOUS
  <2>2. Range(s) = {s[i] : i \in 1 .. L} BY <1>2 DEF Range
  <2> QED BY <1>1, <1>9, <1>10, <2>1, <2>2
<1>21. Advances(r, R, p, Q, t)
  <2>1. \A m \in Range(t) : R =< m /\ m < Q BY <1>18
  <2>2. R =< Q BY <1>11
  <2> QED BY <1>9, <1>13, <1>16, <2>1, <2>2 DEF Advances
<1>22. R =< Q
  BY <1>11
<1>23. Passes(r, p, R, R, Q, t)
  BY <1>10, <1>16, <1>18, <1>19, <1>20, <1>21, <1>22 DEF Passes
<1> QED BY <1>14, <1>23

(* In an ascending list of less than a lap no number comes twice.          *)
LEMMA OnceEachSame ==
  ASSUME NEW u \in Seq(Ids), Ascending(u), NEW a \in Int, NEW b \in Int, b =< a + SeqSpace,
         \A x \in Range(u) : a =< x /\ x < b
  PROVE  OnceEach(u) = u
<1>1. PICK L \in Nat : L = Len(u) /\ DOMAIN u = 1 .. L
  BY LenProperties
<1>2. ASSUME NEW i \in 1 .. L, NEW j \in 1 .. L, i < j
      PROVE  NumberOf(u[i]) # NumberOf(u[j])
  <2>1. u[i] \in Range(u) /\ u[j] \in Range(u) BY <1>1 DEF Range
  <2>2. u[i] \in Int /\ u[j] \in Int BY <1>1, ElementOfSeq, Sizes DEF Ids
  <2>3. u[i] < u[j] BY <1>1, <1>2 DEF Ascending
  <2>4. -SeqSpace < u[i] - u[j] /\ u[i] - u[j] < SeqSpace
    <3>1. a =< u[i] /\ u[j] < b BY <2>1
    <3>2. SeqSpace \in Nat /\ WinSize \in Nat /\ 4 * WinSize < SeqSpace BY Sizes
    <3> QED BY <2>2, <2>3, <3>1, <3>2
  <2>5. NumberOf(u[i]) = NumberOf(u[j]) => u[i] = u[j] BY <2>2, <2>4, SameNumber
  <2> QED BY <2>2, <2>3, <2>5
<1>3. \A i \in 1 .. L : u[i] \in Ids
  BY <1>1, ElementOfSeq
<1>4. \A s \in Seq(Ids), i \in 1 .. Len(u) : PassOne(s, u[i]) \in Seq(Ids)
  BY <1>1, <1>3 DEF PassOne
<1>5. <<>> \in Seq(Ids)
  OBVIOUS
<1>6. \E f : /\ Turns(f, Seq(Ids), <<>>, Len(u)) /\ OnceEach(u) = f[Len(u)]
             /\ \A i \in 1 .. Len(u) : f[i] = PassOne(f[i - 1], u[i])
  BY <1>4, <1>5, OnceEachIs
<1>7. PICK f : /\ f \in [0 .. L -> Seq(Ids)] /\ f[0] = <<>> /\ OnceEach(u) = f[L]
               /\ \A i \in 1 .. L : f[i] = PassOne(f[i - 1], u[i])
  BY <1>1, <1>6 DEF Turns
<1> DEFINE T == {i \in 0 .. L : Len(f[i]) = i /\ \A k \in 1 .. i : f[i][k] = u[k]}
<1>8. 0 \in T
  BY <1>7
<1>9. ASSUME NEW i \in 0 .. L - 1, i \in T PROVE i + 1 \in T
  <2>1. PICK s \in Seq(Ids) : s = f[i] BY <1>7
  <2>2. Len(s) = i /\ \A k \in 1 .. i : s[k] = u[k] BY <1>9, <2>1
  <2>3. PICK x \in Ids : x = u[i + 1] BY <1>3
  <2>4. f[i + 1] = PassOne(s, x)
    <3>1. i + 1 \in 1 .. L /\ (i + 1) - 1 = i OBVIOUS
    <3> QED BY <1>7, <2>1, <2>3, <3>1
  <2>5. s = <<>> \/ NumberOf(Last(s)) # NumberOf(x)
    <3>1. CASE i = 0
      BY <2>2, <3>1, EmptySeq
    <3>2. CASE i # 0
      <4>1. i \in 1 .. L /\ i + 1 \in 1 .. L /\ i < i + 1 /\ i \in 1 .. i BY <3>2
      <4>2. Last(s) = u[i] BY <2>2, <4>1 DEF Last
      <4> QED BY <1>2, <2>3, <4>1, <4>2
    <3> QED BY <3>1, <3>2
  <2>6. f[i + 1] = Append(s, x) BY <2>4, <2>5 DEF PassOne
  <2>7. Len(Append(s, x)) = i + 1 /\ Append(s, x)[i + 1] = x
        /\ \A k \in 1 .. i : Append(s, x)[k] = s[k]
    BY <2>2, AppendProperties
  <2>8. \A k \in 1 .. i + 1 : k \in 1 .. i \/ k = i + 1 OBVIOUS
  <2>9. \A k \in 1 .. i + 1 : Append(s, x)[k] = u[k] BY <2>2, <2>3, <2>7, <2>8
  <2>10. Append(s, x) \in Seq(Ids) BY <2>2, <2>3, AppendProperties
  <2> QED BY <2>6, <2>7, <2>9, <2>10, SMTT(30)
<1>10. L \in T
  <2> HIDE DEF T
  <2>1. \A i \in 0 .. L - 1 : i \in T => i + 1 \in T BY <1>9
  <2>2. \A i \in 0 .. L : i \in T BY <1>8, <2>1, Reaches
  <2> QED BY <2>2
<1>11. PICK s \in Seq(Ids) : s = f[L] /\ Len(s) = Len(u) /\ \A k \in 1 .. Len(u) : s[k] = u[k]
  BY <1>1, <1>7, <1>10
<1>12. s = u
  BY <1>11, SeqEqual
<1> QED BY <1>7, <1>11, <1>12

(* What is before the start leaves the buffer.                             *)
Clears(r, p, R, H, t) ==
  /\ p \in Recipients /\ p.start = r.start /\ p.winStart = r.winStart /\ p.bitmap = r.bitmap
  /\ Advances(r, R, p, H, t)
  /\ Range(r.buffer) = Range(t) \cup Range(p.buffer)
  /\ Ascending(p.buffer) /\ \A b \in Range(p.buffer) : H =< b

LEMMA SmallerIs ==
  ASSUME NEW r \in Recipients, NEW R \in Nat, NEW H \in Nat, NEW N \in Nat,
         R =< H, H =< N, N =< R + WinSize, r.start = NumberOf(H), Ascending(r.buffer),
         \A b \in Range(r.buffer) : R =< b /\ b < N
  PROVE  \E t : Clears(r, PassSmaller(r), R, H, t)
<1>1. PICK s \in Seq(Ids) : s = r.buffer
  BY DEF Recipients
<1>2. PICK L \in Nat : L = Len(s) /\ DOMAIN s = 1 .. L
  BY LenProperties
<1>3. \A i \in 1 .. L : s[i] \in Int /\ R =< s[i] /\ s[i] < N
  <2>1. \A i \in 1 .. L : s[i] \in Int BY <1>2, ElementOfSeq, Sizes DEF Ids
  <2>2. \A i \in 1 .. L : s[i] \in Range(s) BY <1>2 DEF Range
  <2> QED BY <1>1, <2>1, <2>2
<1> DEFINE P == {i \in 1 .. L : s[i] < H}
           T == Runs(L, P)
<1>4. ASSUME NEW i \in 1 .. L
      PROVE  Mapped(r.start, NumberOf(s[i])) < Half <=> i \in P
  <2>1. s[i] \in Int /\ -Half =< s[i] - H /\ s[i] - H < Half BY <1>3, Sizes
  <2>2. Mapped(NumberOf(H), NumberOf(s[i])) = s[i] - H + Half BY <2>1, OldOrNot
  <2>3. s[i] - H + Half < Half <=> s[i] < H BY <2>1, Sizes
  <2> QED BY <2>2, <2>3
<1>5. {k \in 0 .. Len(r.buffer) : \A i \in 1 .. k : Mapped(r.start, NumberOf(r.buffer[i])) < Half} = T
  <2>1. ASSUME NEW k \in 0 .. L
        PROVE  (\A i \in 1 .. k : Mapped(r.start, NumberOf(s[i])) < Half) <=> k \in T
    <3>1. \A i \in 1 .. k : i \in 1 .. L OBVIOUS
    <3> HIDE DEF P
    <3> QED BY <1>4, <3>1 DEF Runs
  <2>2. \A k \in T : k \in 0 .. L BY DEF Runs
  <2> HIDE DEF T
  <2> QED BY <1>1, <1>2, <2>1, <2>2
<1>6. PICK n \in 0 .. L :
        n = Max(T) /\ (\A i \in 1 .. n : i \in P) /\ (n < L => n + 1 \notin P)
  <2>1. T = Runs(L, P) OBVIOUS
  <2> HIDE DEF P, T
  <2>2. /\ Max(T) \in 0 .. L
        /\ \A i \in 1 .. Max(T) : i \in P
        /\ Max(T) < L => Max(T) + 1 \notin P
    BY <2>1, Longest
  <2> QED BY <2>2
<1> HIDE DEF T
<1>7. PICK t \in Seq(Ids) :
        /\ t = SubSeq(s, 1, n) /\ Ascending(t)
        /\ Range(t) = {s[i] : i \in 1 .. n}
  <2>1. PICK k \in Nat : k = 1 OBVIOUS
  <2>2. k =< n + 1 /\ n =< Len(s) /\ n \in Nat /\ 1 =< k BY <1>2, <2>1
  <2>3. SubSeq(s, k, n) \in Seq(Ids) /\ Ascending(SubSeq(s, k, n))
        /\ Range(SubSeq(s, k, n)) = {s[i] : i \in k .. n}
    BY <1>1, <2>2, PartIs
  <2> QED BY <2>1, <2>3
<1>8. PICK u \in Seq(Ids) :
        /\ u = SubSeq(s, n + 1, L) /\ Ascending(u)
        /\ Range(u) = {s[i] : i \in n + 1 .. L}
  <2>1. PICK k \in Nat : k = n + 1 BY <1>2
  <2>2. 1 =< k /\ k =< L + 1 /\ L =< Len(s) BY <1>2, <2>1
  <2>3. SubSeq(s, k, L) \in Seq(Ids) /\ Ascending(SubSeq(s, k, L))
        /\ Range(SubSeq(s, k, L)) = {s[i] : i \in k .. L}
    <3>1. s \in Seq(Ids) /\ Ascending(s) /\ L \in Nat BY <1>1
    <3> QED BY <2>2, <3>1, PartIs
  <2> QED BY <2>1, <2>3
<1>9. OnceEach(t) = t
  <2>1. \A x \in Range(t) : R =< x /\ x < N
    <3>1. \A i \in 1 .. n : i \in 1 .. L OBVIOUS
    <3> QED BY <1>3, <1>7, <3>1
  <2>2. R \in Int /\ N \in Int /\ N =< R + SeqSpace BY Sizes
  <2>3. t \in Seq(Ids) /\ Ascending(t) BY <1>7
  <2> QED BY <2>1, <2>2, <2>3, OnceEachSame, Zenon
<1>10. PICK g \in Seq(Ids) : g = Given(r, t)
  <2>1. PICK d \in Seq(Ids) : r.delivered = d BY DEF Recipients
  <2>2. PICK c \in Nat : LastOf(d \o t, Given(r, t), c) BY <2>1, GivenIs
  <2> QED BY <2>2 DEF LastOf
<1>11. PICK p : p = PassSmaller(r)
  OBVIOUS
<1>12. p = [r EXCEPT !.buffer = u, !.delivered = g]
  BY <1>1, <1>2, <1>5, <1>6, <1>7, <1>8, <1>9, <1>10, <1>11 DEF PassSmaller
<1>13. /\ p \in Recipients /\ p.start = r.start /\ p.winStart = r.winStart /\ p.bitmap = r.bitmap
       /\ p.buffer = u /\ p.delivered = g
  BY <1>12 DEF Recipients
<1>14. ASSUME NEW b \in Range(u) PROVE H =< b
  <2>1. PICK i \in n + 1 .. L : b = s[i] BY <1>8
  <2>2. n + 1 \in 1 .. L /\ i \in 1 .. L /\ n < L BY <2>1
  <2>3. H =< s[n + 1]
    <3>1. n + 1 \notin P BY <1>6, <2>2
    <3>2. ~ (s[n + 1] < H) BY <2>2, <3>1
    <3>3. s[n + 1] \in Int BY <1>3, <2>2
    <3> QED BY <3>2, <3>3
  <2>4. s[n + 1] =< s[i]
    <3>1. CASE i = n + 1
      BY <1>3, <2>2, <3>1
    <3>2. CASE i # n + 1
      <4>1. n + 1 < i BY <2>1, <3>2
      <4>2. s[n + 1] < s[i] BY <1>1, <1>2, <2>2, <4>1 DEF Ascending
      <4> QED BY <1>3, <2>2, <4>2
    <3> QED BY <3>1, <3>2
  <2>5. s[n + 1] \in Int /\ s[i] \in Int BY <1>3, <2>2
  <2> QED BY <2>1, <2>3, <2>4, <2>5
<1>15. Range(r.buffer) = Range(t) \cup Range(u)
  <2>1. 1 .. L = 1 .. n \cup (n + 1 .. L) OBVIOUS
  <2>2. Range(s) = {s[i] : i \in 1 .. L} BY <1>2 DEF Range
  <2> QED BY <1>1, <1>7, <1>8, <2>1, <2>2
<1>16. Advances(r, R, p, H, t)
  <2>1. ASSUME NEW m \in Range(t) PROVE R =< m /\ m < H
    <3>1. PICK i \in 1 .. n : m = s[i] BY <1>7, <2>1
    <3>2. i \in P /\ i \in 1 .. L BY <1>6, <3>1
    <3> QED BY <1>3, <3>1, <3>2
  <2> QED BY <1>7, <1>10, <1>13, <2>1 DEF Advances
<1>17. Clears(r, p, R, H, t)
  BY <1>8, <1>13, <1>14, <1>15, <1>16 DEF Clears
<1> QED BY <1>11, <1>17

(* The window is moved to H.                                               *)
LEMMA MovedToIs ==
  ASSUME NEW r \in Recipients, NEW R \in Nat, NEW H \in Nat, NEW N \in Nat,
         R =< H, H =< N, N =< R + WinSize, Ascending(r.buffer),
         \A b \in Range(r.buffer) : R =< b /\ b < N
  PROVE  \E Q \in Nat : \E t : Passes(r, MoveTo(r, NumberOf(H)), R, H, Q, t)
<1>1. PICK a : a = [r EXCEPT !.start = NumberOf(H)]
  OBVIOUS
<1>2. /\ a \in Recipients /\ a.start = NumberOf(H) /\ a.buffer = r.buffer /\ a.winStart = r.winStart
      /\ a.bitmap = r.bitmap /\ a.delivered = r.delivered
  <2>1. NumberOf(H) \in Seqs BY NumberType
  <2> QED BY <1>1, <2>1 DEF Recipients
<1>3. PICK c : c = PassSmaller(a)
  OBVIOUS
<1>4. \E t : Clears(a, PassSmaller(a), R, H, t)
  BY <1>2, SmallerIs
<1>5. PICK t : Clears(a, c, R, H, t)
  BY <1>3, <1>4
<1>6. \A b \in Range(c.buffer) : H =< b /\ b < N
  BY <1>2, <1>5 DEF Clears
<1>7. c \in Recipients /\ c.start = NumberOf(H) /\ Ascending(c.buffer) /\ Advances(a, R, c, H, t)
  BY <1>2, <1>5 DEF Clears
<1>8. N =< H + WinSize
  BY Sizes
<1>9. \E Q \in Nat : \E u : Passes(c, PassUntilLost(c), H, H, Q, u)
  BY <1>6, <1>7, <1>8, UntilLostIs
<1>10. PICK Q, u : Q \in Nat /\ Passes(c, PassUntilLost(c), H, H, Q, u)
  BY <1>9
<1>11. PICK p : p = PassUntilLost(c)
  OBVIOUS
<1>12. p = MoveTo(r, NumberOf(H))
  BY <1>1, <1>3, <1>11 DEF MoveTo, Then
<1>13. Passes(c, p, H, H, Q, u)
  BY <1>10, <1>11
<1>14. Advances(a, R, p, Q, t \o u) /\ Range(t \o u) = Range(t) \cup Range(u)
  <2>1. Advances(c, H, p, Q, u) BY <1>13 DEF Passes
  <2>2. Advances(a, R, c, H, t) BY <1>7
  <2>3. Advances(a, R, p, Q, t \o u) BY <2>1, <2>2, AdvancesOn
  <2> QED BY <2>1, <2>2, <2>3, AdvancesOn
<1>15. Given(a, t \o u) = Given(r, t \o u)
  BY <1>2 DEF Given
<1>16. Advances(r, R, p, Q, t \o u)
  BY <1>14, <1>15 DEF Advances
<1>17. Range(r.buffer) = Range(t) \cup Range(c.buffer) /\ c.winStart = r.winStart /\ c.bitmap = r.bitmap
  BY <1>2, <1>5 DEF Clears
<1>18. Range(r.buffer) = Range(t \o u) \cup Range(p.buffer)
  BY <1>13, <1>14, <1>17 DEF Passes
<1>19. H .. Q - 1 \subseteq Range(t \o u)
  BY <1>13, <1>14 DEF Passes
<1>20. Passes(r, p, R, H, Q, t \o u)
  BY <1>13, <1>16, <1>17, <1>18, <1>19 DEF Passes
<1> QED BY <1>10, <1>12, <1>20

-----------------------------------------------------------------------------
(* The recipient's score.                                                  *)

Remembers(r, R) ==
  /\ r \in Recipients /\ R \in Nat
  /\ Ascending(r.delivered) /\ Len(r.delivered) =< WinSize /\ \A m \in Range(r.delivered) : m < R

LEMMA RemembersOn ==
  ASSUME NEW r, NEW p, NEW R, NEW Q, NEW t, Remembers(r, R), Advances(r, R, p, Q, t)
  PROVE  /\ Remembers(p, Q)
         /\ \A m \in Range(r.delivered) : Q - WinSize =< m => m \in Range(p.delivered)
         /\ \A m \in Range(t) : Q - WinSize =< m => m \in Range(p.delivered)
<1>1. PICK d \in Seq(Ids) : r.delivered = d
  BY DEF Recipients, Remembers
<1>2. /\ t \in Seq(Ids) /\ R \in Nat /\ Q \in Nat /\ R =< Q /\ Ascending(d) /\ Ascending(t)
      /\ (\A m \in Range(d) : m < R) /\ (\A m \in Range(t) : R =< m /\ m < Q)
      /\ p.delivered = Given(r, t) /\ p \in Recipients
  BY <1>1 DEF Remembers, Advances
<1>3. /\ Given(r, t) \in Seq(Ids) /\ Ascending(Given(r, t)) /\ Len(Given(r, t)) =< WinSize
      /\ \A m \in Range(Given(r, t)) : m < Q
      /\ \A m \in Range(d) \cup Range(t) : Q - WinSize =< m => m \in Range(Given(r, t))
  BY <1>1, <1>2, GivenInOrder
<1> QED BY <1>1, <1>2, <1>3 DEF Remembers

LEMMA GivenNothing ==
  ASSUME NEW r, NEW R, Remembers(r, R)
  PROVE  Advances(r, R, r, R, <<>>) /\ Range(<<>>) = {}
<1>1. PICK d \in Seq(Ids) : r.delivered = d /\ Len(d) =< WinSize
  BY DEF Recipients, Remembers
<1>2. PICK e \in Seq(Ids) : e = <<>> /\ Len(e) = 0 /\ Range(e) = {} /\ Ascending(e)
  <2>1. <<>> \in Seq(Ids) /\ Len(<<>>) = 0 OBVIOUS
  <2>2. DOMAIN <<>> = 1 .. 0 BY <2>1, LenProperties
  <2>3. Range(<<>>) = {} BY <2>2 DEF Range
  <2>4. Ascending(<<>>) BY <2>1 DEF Ascending
  <2> QED BY <2>1, <2>3, <2>4
<1>3. PICK c \in Nat : LastOf(d \o e, Given(r, e), c)
  BY <1>1, GivenIs
<1>4. d \o e = d
  BY <1>2, ConcatEmptySeq
<1>5. PICK L \in Nat : L = Len(d)
  BY LenProperties
<1>6. PICK g \in Seq(Ids) : g = Given(r, e)
  BY <1>3 DEF LastOf
<1>7. c = 0 /\ Len(g) = L - c /\ \A i \in 1 .. Len(g) : g[i] = d[c + i]
  BY <1>1, <1>3, <1>4, <1>5, <1>6 DEF LastOf
<1>8. Len(g) = Len(d) /\ \A i \in 1 .. Len(g) : g[i] = d[i]
  BY <1>5, <1>7
<1>9. g = d
  BY <1>8, SeqEqual
<1>10. R \in Nat /\ r \in Recipients
  BY DEF Remembers
<1> QED BY <1>1, <1>2, <1>6, <1>9, <1>10 DEF Advances

Got(r, R, i) == i < R \/ i \in Range(r.buffer)

(* The reorder window of r starts at R, and the score at V.  A bit of the  *)
(* score's window stands for a frame that has been received, and what is   *)
(* in the buffer has its bit.                                              *)
Score(r, R, V, N) ==
  /\ Remembers(r, R) /\ V \in Nat /\ N \in Nat
  /\ V =< R /\ R =< V + WinSize /\ R =< N /\ N =< R + WinSize
  /\ r.start = NumberOf(R) /\ r.winStart = NumberOf(V)
  /\ Ascending(r.buffer)
  /\ \A b \in Range(r.buffer) : R < b /\ b < N /\ b < V + WinSize /\ NumberOf(b) \in r.bitmap
  /\ \A i \in V .. V + WinSize - 1 : NumberOf(i) \in r.bitmap => Got(r, R, i)

(* The same before the reorder window moves from R to H.                   *)
Scores(r, R, H, V, N) ==
  /\ Remembers(r, R) /\ H \in Nat /\ V \in Nat /\ N \in Nat
  /\ R =< H /\ H =< N /\ N =< R + WinSize /\ V =< H /\ H =< V + WinSize
  /\ r.winStart = NumberOf(V)
  /\ Ascending(r.buffer)
  /\ \A b \in Range(r.buffer) : R =< b /\ b < N /\ b < V + WinSize /\ NumberOf(b) \in r.bitmap
  /\ \A i \in V .. V + WinSize - 1 : NumberOf(i) \in r.bitmap => i < H \/ i \in Range(r.buffer)

LEMMA ScoreOn ==
  ASSUME NEW r, NEW p, NEW R, NEW H, NEW Q, NEW V, NEW N, NEW t,
         Scores(r, R, H, V, N), Passes(r, p, R, H, Q, t)
  PROVE  /\ Score(p, Q, V, N)
         /\ \A i \in Int : Got(p, Q, i) <=> i < H \/ i \in Range(r.buffer)
<1>1. /\ R \in Nat /\ H \in Nat /\ V \in Nat /\ N \in Nat /\ Q \in Nat /\ WinSize \in Nat
      /\ R =< H /\ H =< N /\ N =< R + WinSize /\ V =< H /\ H =< V + WinSize /\ H =< Q /\ R =< Q
  BY Sizes DEF Scores, Passes, Remembers, Advances
<1>2. Remembers(p, Q)
  <2>1. Remembers(r, R) /\ Advances(r, R, p, Q, t) BY DEF Scores, Passes
  <2> QED BY <2>1, RemembersOn
<1>3. Range(t) \cup Range(p.buffer) = Range(r.buffer)
  BY DEF Passes
<1>4. \A m \in Range(t) : R =< m /\ m < Q
  BY DEF Passes, Advances
<1>5. \A b \in Range(p.buffer) : Q < b
  BY DEF Passes
<1>6. \A b \in Range(r.buffer) : R =< b /\ b < N /\ b < V + WinSize /\ NumberOf(b) \in r.bitmap
  BY DEF Scores
<1>7. \A b \in Range(r.buffer) : b \in Int
  <2>1. r.buffer \in Seq(Ids) BY DEF Scores, Remembers, Recipients
  <2>2. \A b \in Range(r.buffer) : b \in Ids BY <2>1, LenProperties, ElementOfSeq DEF Range
  <2> QED BY <2>2, Sizes DEF Ids
<1>8. \A i \in H .. Q - 1 : i \in Range(t)
  BY DEF Passes
<1>9. ASSUME NEW i \in Int PROVE Got(p, Q, i) <=> i < H \/ i \in Range(r.buffer)
  <2>1. ASSUME i < Q PROVE i < H \/ i \in Range(r.buffer)
    <3>1. i < H \/ i \in H .. Q - 1 BY <1>1, <2>1
    <3> QED BY <1>3, <1>8, <3>1
  <2>2. ASSUME i < H PROVE i < Q BY <1>1, <2>2
  <2>3. ASSUME i \in Range(r.buffer) PROVE i < Q \/ i \in Range(p.buffer)
    BY <1>3, <1>4, <2>3
  <2> QED BY <1>3, <2>1, <2>2, <2>3 DEF Got
<1>10. Q =< N /\ Q =< V + WinSize
  <2>1. CASE Q = H
    BY <1>1, <2>1
  <2>2. CASE Q # H
    <3>1. Q - 1 \in H .. Q - 1 BY <1>1, <2>2
    <3>2. Q - 1 \in Range(r.buffer) BY <1>3, <1>8, <3>1
    <3>3. Q - 1 < N /\ Q - 1 < V + WinSize BY <1>6, <3>2
    <3> QED BY <1>1, <3>3
  <2> QED BY <2>1, <2>2
<1>11. \A b \in Range(p.buffer) : Q < b /\ b < N /\ b < V + WinSize /\ NumberOf(b) \in p.bitmap
  BY <1>3, <1>5, <1>6 DEF Passes
<1>12. ASSUME NEW i \in V .. V + WinSize - 1, NumberOf(i) \in p.bitmap PROVE Got(p, Q, i)
  <2>1. NumberOf(i) \in r.bitmap BY <1>12 DEF Passes
  <2>2. i < H \/ i \in Range(r.buffer) BY <2>1 DEF Scores
  <2>3. i \in Int OBVIOUS
  <2> QED BY <1>9, <2>2, <2>3
<1>13. V =< Q /\ N =< Q + WinSize
  BY <1>1
<1>14. p.start = NumberOf(Q) /\ p.winStart = NumberOf(V) /\ Ascending(p.buffer)
  BY DEF Passes, Scores
<1>15. Score(p, Q, V, N)
  BY <1>1, <1>2, <1>10, <1>11, <1>12, <1>13, <1>14 DEF Score
<1> QED BY <1>9, <1>15

(* A frame is stored, and its bit set; the score moves on as far as needed,*)
(* and what comes in from the last lap is cleared.                         *)
Counts(r, p, V, U, m) ==
  /\ U \in Nat /\ V =< U /\ (U = V \/ U = m - WinSize + 1) /\ m < U + WinSize
  /\ p \in Recipients
  /\ p = [r EXCEPT !.winStart = NumberOf(U),
                   !.bitmap = (@ \ Numbers(V + WinSize, m - 1)) \cup {NumberOf(m)}]

LEMMA BitIs ==
  ASSUME NEW r \in Recipients, NEW V \in Nat, NEW m \in Nat, r.winStart = NumberOf(V),
         V =< m, m < V + 2 * WinSize, NEW p, p = UpdateWithMpdu(r, NumberOf(m))
  PROVE  \E U : Counts(r, p, V, U, m)
<1>1. WinSize \in Nat /\ 2 * WinSize < Half /\ Half \in Nat /\ WinSize >= 1
  BY Sizes
<1>2. -Half =< m - V /\ m - V < Half /\ m \in Int /\ V \in Int
  BY <1>1
<1>3. ~ IsOld(r.winStart, NumberOf(m)) /\ (InWindow(NumberOf(m), r.winStart) <=> m < V + WinSize)
  <2>1. /\ IsOld(NumberOf(V), NumberOf(m)) <=> m < V
        /\ InWindow(NumberOf(m), NumberOf(V)) <=> (V =< m /\ m < V + WinSize)
    BY <1>2, OldOrNot
  <2> QED BY <1>1, <2>1
<1>4. NumberOf(m) \in Seqs /\ \A U \in Nat : NumberOf(U) \in Seqs
  BY <1>2, NumberType
<1>5. r.bitmap \in SUBSET Seqs
  BY DEF Recipients
<1>6. CASE m < V + WinSize
  <2>1. p = [r EXCEPT !.bitmap = @ \cup {NumberOf(m)}]
    BY <1>3, <1>6 DEF UpdateWithMpdu
  <2>2. Numbers(V + WinSize, m - 1) = {}
    <3>1. V + WinSize .. m - 1 = {} BY <1>1, <1>6
    <3> QED BY <3>1 DEF Numbers
  <2>3. p = [r EXCEPT !.winStart = NumberOf(V),
                      !.bitmap = (@ \ Numbers(V + WinSize, m - 1)) \cup {NumberOf(m)}]
    BY <2>1, <2>2 DEF Recipients
  <2>4. p \in Recipients
    BY <1>4, <1>5, <2>1 DEF Recipients
  <2>5. V =< V /\ m < V + WinSize
    BY <1>6
  <2>6. Counts(r, p, V, V, m) BY <2>3, <2>4, <2>5, Zenon DEF Counts
  <2> QED BY <2>6
<1>7. CASE ~ (m < V + WinSize)
  <2> DEFINE end == (r.winStart + WinSize - 1) % SeqSpace
             delta == (NumberOf(m) - end) % SeqSpace
  <2>1. PICK E \in Nat : E = V + WinSize - 1
    BY <1>1
  <2>2. end = NumberOf(E)
    <3>1. (NumberOf(V) + (WinSize - 1)) % SeqSpace = NumberOf(V + (WinSize - 1)) BY <1>1, Shift
    <3>2. NumberOf(V) + (WinSize - 1) = r.winStart + WinSize - 1 /\ V + (WinSize - 1) = E
      BY <1>1, <1>2, <2>1, NumberType
    <3> QED BY <3>1, <3>2
  <2>3. delta = m - E
    <3>1. E \in Int /\ m \in Int /\ -SeqSpace =< m - E /\ m - E < SeqSpace /\ E =< m
      BY <1>1, <1>7, <2>1, Sizes
    <3>2. Dist(NumberOf(E), NumberOf(m)) = m - E BY <3>1, Distance
    <3> QED BY <2>2, <3>2 DEF Dist
  <2>4. PICK k \in Nat : k = m - E /\ k >= 1
    BY <1>1, <1>7, <2>1
  <2>5. PICK U \in Nat : U = V + k /\ U = m - WinSize + 1
    BY <1>1, <2>1, <2>4
  <2>6. (r.winStart + k) % SeqSpace = NumberOf(U)
    BY <1>2, <2>5, Shift
  <2>7. Span(end + 1, k - 1) = Numbers(V + WinSize, m - 1)
    <3>1. Span(NumberOf(E) + 1, k - 1) = {NumberOf(i) : i \in E + 1 .. E + 1 + (k - 1) - 1}
      BY SpanOf
    <3>2. E + 1 = V + WinSize /\ E + 1 + (k - 1) - 1 = m - 1 BY <1>1, <2>1, <2>4
    <3> QED BY <2>2, <3>1, <3>2 DEF Numbers
  <2>8. p = [r EXCEPT !.winStart = (@ + delta) % SeqSpace,
                      !.bitmap = (@ \ Span(end + 1, delta - 1)) \cup {NumberOf(m)}]
    BY <1>3, <1>7 DEF UpdateWithMpdu
  <2> HIDE DEF end, delta
  <2>9. p = [r EXCEPT !.winStart = NumberOf(U),
                      !.bitmap = (@ \ Numbers(V + WinSize, m - 1)) \cup {NumberOf(m)}]
    BY <2>3, <2>4, <2>6, <2>7, <2>8
  <2>10. p \in Recipients
    BY <1>4, <1>5, <2>9 DEF Recipients
  <2>11. V =< U /\ m < U + WinSize
    BY <1>1, <2>4, <2>5
  <2>12. Counts(r, p, V, U, m) BY <2>5, <2>9, <2>10, <2>11 DEF Counts
  <2> QED BY <2>12
<1> QED BY <1>6, <1>7

(* The frame m is put in its place.                                        *)
LEMMA InPlace ==
  ASSUME NEW r \in Recipients, NEW R \in Nat, NEW N \in Nat, N =< R + WinSize, r.start = NumberOf(R),
         Ascending(r.buffer), \A b \in Range(r.buffer) : R =< b /\ b < N,
         NEW m \in Ids, R =< m, m < N, m \notin Range(r.buffer)
  PROVE  \E u \in Seq(Ids) :
           /\ StoreMpduIfNeeded(r, m) = UpdateWithMpdu([r EXCEPT !.buffer = u], NumberOf(m))
           /\ Ascending(u) /\ Range(u) = Range(r.buffer) \cup {m}
<1>1. PICK s \in Seq(Ids) : s = r.buffer
  BY DEF Recipients
<1>2. PICK L \in Nat : L = Len(s) /\ DOMAIN s = 1 .. L
  BY LenProperties
<1>3. \A i \in 1 .. L : s[i] \in Int /\ R =< s[i] /\ s[i] < N /\ s[i] # m
  <2>1. \A i \in 1 .. L : s[i] \in Int BY <1>2, ElementOfSeq, Sizes DEF Ids
  <2>2. \A i \in 1 .. L : s[i] \in Range(s) BY <1>2 DEF Range
  <2> QED BY <1>1, <2>1, <2>2
<1>4. m \in Int
  BY Sizes DEF Ids
<1> DEFINE P == {i \in 1 .. L : s[i] < m}
           T == Runs(L, P)
<1>5. ASSUME NEW i \in 1 .. L
      PROVE  Mapped(r.start, NumberOf(s[i])) < Mapped(r.start, NumberOf(m)) <=> i \in P
  <2>1. s[i] \in Int /\ -Half =< s[i] - R /\ s[i] - R < Half /\ -Half =< m - R /\ m - R < Half
    BY <1>3, <1>4, Sizes
  <2>2. Mapped(NumberOf(R), NumberOf(s[i])) = s[i] - R + Half BY <2>1, OldOrNot
  <2>3. Mapped(NumberOf(R), NumberOf(m)) = m - R + Half BY <1>4, <2>1, OldOrNot
  <2>4. s[i] - R + Half < m - R + Half <=> s[i] < m BY <1>4, <2>1, Sizes
  <2> QED BY <2>2, <2>3, <2>4
<1>6. {k \in 0 .. Len(r.buffer) :
         \A i \in 1 .. k : Mapped(r.start, NumberOf(r.buffer[i])) < Mapped(r.start, NumberOf(m))} = T
  <2>1. ASSUME NEW k \in 0 .. L
        PROVE  (\A i \in 1 .. k : Mapped(r.start, NumberOf(s[i])) < Mapped(r.start, NumberOf(m)))
                 <=> k \in T
    <3>1. \A i \in 1 .. k : i \in 1 .. L OBVIOUS
    <3> HIDE DEF P
    <3> QED BY <1>5, <3>1 DEF Runs
  <2>2. \A k \in T : k \in 0 .. L BY DEF Runs
  <2> HIDE DEF T
  <2> QED BY <1>1, <1>2, <2>1, <2>2
<1>7. PICK n \in 0 .. L :
        n = Max(T) /\ (\A i \in 1 .. n : i \in P) /\ (n < L => n + 1 \notin P)
  <2>1. T = Runs(L, P) OBVIOUS
  <2> HIDE DEF P, T
  <2>2. /\ Max(T) \in 0 .. L
        /\ \A i \in 1 .. Max(T) : i \in P
        /\ Max(T) < L => Max(T) + 1 \notin P
    BY <2>1, Longest
  <2> QED BY <2>2
<1> HIDE DEF T
<1>8. \A i \in 1 .. n : s[i] < m
  BY <1>7
<1>9. ASSUME NEW i \in n + 1 .. L PROVE m < s[i]
  <2>1. n + 1 \in 1 .. L /\ i \in 1 .. L /\ n < L OBVIOUS
  <2>2. m < s[n + 1] BY <1>3, <1>4, <1>7, <2>1
  <2>3. CASE i = n + 1
    BY <2>2, <2>3
  <2>4. CASE i # n + 1
    <3>1. n + 1 < i BY <2>4
    <3>2. s[n + 1] < s[i] BY <1>1, <1>2, <2>1, <3>1 DEF Ascending
    <3>3. s[n + 1] \in Int /\ s[i] \in Int BY <1>3, <2>1
    <3> QED BY <1>4, <2>2, <3>2, <3>3
  <2> QED BY <2>3, <2>4
<1>10. PICK u : u = InsertAt(s, n + 1, m)
  OBVIOUS
<1>11. u \in Seq(Ids) /\ Ascending(u) /\ Range(u) = Range(s) \cup {m}
  <2>1. /\ n \in 0 .. Len(s) /\ Ascending(s)
        /\ \A i \in 1 .. n : s[i] < m
        /\ \A i \in n + 1 .. Len(s) : m < s[i]
    BY <1>1, <1>2, <1>8, <1>9
  <2> QED BY <1>10, <2>1, InsertIs
<1>12. StoreMpduIfNeeded(r, m) = UpdateWithMpdu([r EXCEPT !.buffer = u], NumberOf(m))
  BY <1>1, <1>6, <1>7, <1>10 DEF StoreMpduIfNeeded
<1> QED BY <1>1, <1>11, <1>12

LEMMA StoredIsScored ==
  ASSUME NEW r, NEW R, NEW V, NEW N, Score(r, R, V, N),
         NEW m \in Ids, R =< m, m < N, m \notin Range(r.buffer),
         NEW p, p = StoreMpduIfNeeded(r, m)
  PROVE  /\ p.delivered = r.delivered /\ p.start = r.start /\ Range(p.buffer) = Range(r.buffer) \cup {m}
         /\ \E U \in Nat : V =< U /\ (U = V \/ U =< N - WinSize) /\ Scores(p, R, R, U, N)
<1>0. SeqSpace \in Nat /\ 4 * WinSize < SeqSpace
  BY Sizes
<1>1. /\ r \in Recipients /\ R \in Nat /\ V \in Nat /\ N \in Nat /\ WinSize \in Nat /\ WinSize >= 1
      /\ V =< R /\ R =< V + WinSize /\ R =< N /\ N =< R + WinSize
      /\ r.start = NumberOf(R) /\ r.winStart = NumberOf(V) /\ Ascending(r.buffer)
  BY Sizes DEF Score, Remembers
<1>2. \A b \in Range(r.buffer) : R < b /\ b < N /\ b < V + WinSize /\ NumberOf(b) \in r.bitmap
  BY DEF Score
<1>3. m \in Nat /\ m \in Int
  BY Sizes DEF Ids
<1>4. \A b \in Range(r.buffer) : b \in Int
  <2>1. r.buffer \in Seq(Ids) BY <1>1 DEF Recipients
  <2>2. \A b \in Range(r.buffer) : b \in Ids BY <2>1, LenProperties, ElementOfSeq DEF Range
  <2> QED BY <2>2, Sizes DEF Ids
<1>5. PICK u \in Seq(Ids) :
        /\ p = UpdateWithMpdu([r EXCEPT !.buffer = u], NumberOf(m))
        /\ Ascending(u) /\ Range(u) = Range(r.buffer) \cup {m}
  <2>1. \A b \in Range(r.buffer) : R =< b /\ b < N BY <1>1, <1>2, <1>4
  <2> QED BY <1>1, <2>1, InPlace
<1>6. PICK a : a = [r EXCEPT !.buffer = u]
  OBVIOUS
<1>7. /\ a \in Recipients /\ a.buffer = u /\ a.start = r.start /\ a.winStart = r.winStart
      /\ a.bitmap = r.bitmap /\ a.delivered = r.delivered
  BY <1>1, <1>6 DEF Recipients
<1>8. PICK U \in Nat :
        /\ V =< U /\ (U = V \/ U = m - WinSize + 1) /\ m < U + WinSize
        /\ p \in Recipients
        /\ p = [a EXCEPT !.winStart = NumberOf(U),
                         !.bitmap = (@ \ Numbers(V + WinSize, m - 1)) \cup {NumberOf(m)}]
  <2>1. a.winStart = NumberOf(V) /\ V =< m /\ m < V + 2 * WinSize BY <1>1, <1>3, <1>7
  <2>2. p = UpdateWithMpdu(a, NumberOf(m)) BY <1>5, <1>6
  <2>3. a \in Recipients BY <1>7
  <2>4. PICK U : Counts(a, p, V, U, m) BY <1>1, <1>3, <2>1, <2>2, <2>3, BitIs
  <2> QED BY <2>4 DEF Counts
<1>9. /\ p.buffer = u /\ p.start = r.start /\ p.winStart = NumberOf(U) /\ p.delivered = r.delivered
      /\ p.bitmap = (r.bitmap \ Numbers(V + WinSize, m - 1)) \cup {NumberOf(m)}
  BY <1>7, <1>8 DEF Recipients
<1>10. \A b \in Range(u) : R =< b /\ b < N /\ b < U + WinSize
  BY <1>1, <1>2, <1>3, <1>4, <1>5, <1>8
<1>11. ASSUME NEW b \in Range(u) PROVE NumberOf(b) \in p.bitmap
  <2>1. CASE b = m
    BY <1>9, <2>1
  <2>2. CASE b \in Range(r.buffer)
    <3>1. b \in Int /\ R < b /\ b < V + WinSize BY <1>2, <1>4, <2>2
    <3>2. (m - 1) - SeqSpace < b /\ b < (V + WinSize) + SeqSpace
          /\ V + WinSize \in Int /\ m - 1 \in Int
      BY <1>0, <1>1, <1>3, <3>1
    <3>3. NumberOf(b) \in Numbers(V + WinSize, m - 1) <=> b \in V + WinSize .. m - 1
      BY <3>1, <3>2, HasNumber
    <3>4. NumberOf(b) \notin Numbers(V + WinSize, m - 1) BY <3>1, <3>3, <1>1
    <3> QED BY <1>2, <1>9, <2>2, <3>4
  <2> QED BY <1>5, <2>1, <2>2
<1>12. ASSUME NEW i \in U .. U + WinSize - 1, NumberOf(i) \in p.bitmap
       PROVE  i < R \/ i \in Range(u)
  <2>1. i \in Int /\ U =< i /\ i < U + WinSize BY <1>1
  <2>2. CASE NumberOf(i) = NumberOf(m)
    <3>1. -SeqSpace < i - m /\ i - m < SeqSpace
      <4>1. U =< m /\ m < U + WinSize BY <1>1, <1>3, <1>8
      <4>2. U \in Int /\ WinSize =< SeqSpace BY <1>0, <1>1
      <4> QED BY <1>0, <1>1, <1>3, <2>1, <4>1, <4>2
    <3>2. i = m BY <1>3, <2>1, <2>2, <3>1, SameNumber
    <3> QED BY <1>5, <3>2
  <2>3. CASE NumberOf(i) # NumberOf(m)
    <3>1. NumberOf(i) \in r.bitmap /\ NumberOf(i) \notin Numbers(V + WinSize, m - 1)
      BY <1>9, <1>12, <2>3
    <3>2. i < V + WinSize
      <4>1. i # m BY <2>3
      <4>2. i \notin V + WinSize .. m - 1 BY <3>1 DEF Numbers
      <4>3. m \in Int /\ V \in Int /\ WinSize \in Int BY <1>1, <1>3
      <4>4. i < m \/ m < i BY <2>1, <4>1, <4>3
      <4>5. V =< U /\ (U = V \/ U = m - WinSize + 1) /\ U \in Int BY <1>8
      <4>6. CASE U = V
        BY <2>1, <4>6
      <4>7. CASE U = m - WinSize + 1
        <5>1. i =< m BY <2>1, <4>3, <4>7
        <5>2. i < m BY <2>1, <4>3, <4>4, <5>1
        <5> QED BY <2>1, <4>2, <4>3, <5>2
      <4> QED BY <4>5, <4>6, <4>7
    <3>3. i \in V .. V + WinSize - 1 BY <1>1, <1>8, <2>1, <3>2
    <3>4. Got(r, R, i) BY <3>1, <3>3 DEF Score
    <3> QED BY <1>5, <3>4 DEF Got
  <2> QED BY <2>2, <2>3
<1>13. Remembers(p, R)
  BY <1>8, <1>9 DEF Score, Remembers
<1>14. U =< R /\ R =< U + WinSize
  BY <1>1, <1>3, <1>8
<1>15. Scores(p, R, R, U, N)
  <2>1. \A b \in Range(p.buffer) : R =< b /\ b < N /\ b < U + WinSize /\ NumberOf(b) \in p.bitmap
    BY <1>9, <1>10, <1>11
  <2>2. \A i \in U .. U + WinSize - 1 : NumberOf(i) \in p.bitmap => i < R \/ i \in Range(p.buffer)
    BY <1>9, <1>12
  <2>3. R =< R /\ Ascending(p.buffer) BY <1>1, <1>5, <1>9
  <2> QED BY <1>1, <1>8, <1>9, <1>13, <1>14, <2>1, <2>2, <2>3 DEF Scores
<1>16. U = V \/ U =< N - WinSize
  BY <1>1, <1>3, <1>8
<1> QED BY <1>5, <1>8, <1>9, <1>15, <1>16

(* From r to p the frames of D are received: what can be passed up is, as  *)
(* the list t, and the score moves from V to U.                            *)
Hears(r, p, D, R, Q, V, U, N, t) ==
  /\ Score(p, Q, U, N) /\ V =< U /\ (U = V \/ U =< N - WinSize)
  /\ Advances(r, R, p, Q, t) /\ \A i \in R .. Q - 1 : i \in Range(t)
  /\ \A i \in Int : Got(p, Q, i) <=> Got(r, R, i) \/ i \in D

LEMMA HearsNothing ==
  ASSUME NEW r, NEW R, NEW V, NEW N, Score(r, R, V, N),
         NEW D, \A i \in D : Got(r, R, i)
  PROVE  Hears(r, r, D, R, R, V, V, N, <<>>)
<1>1. Remembers(r, R) /\ V \in Nat /\ R \in Nat
  BY DEF Score, Remembers
<1>2. Advances(r, R, r, R, <<>>)
  BY <1>1, GivenNothing
<1>3. R .. R - 1 = {}
  BY <1>1
<1> QED BY <1>1, <1>2, <1>3 DEF Hears

LEMMA HearsOn ==
  ASSUME NEW r, NEW p, NEW q, NEW D, NEW E, NEW R, NEW Q, NEW S, NEW V, NEW U, NEW W, NEW N,
         NEW t, NEW u, V \in Nat, Hears(r, p, D, R, Q, V, U, N, t), Hears(p, q, E, Q, S, U, W, N, u)
  PROVE  Hears(r, q, D \cup E, R, S, V, W, N, t \o u)
<1>1. Advances(r, R, p, Q, t) /\ Advances(p, Q, q, S, u)
  BY DEF Hears
<1>2. Advances(r, R, q, S, t \o u)
  BY <1>1, AdvancesOn
<1>3. Range(t \o u) = Range(t) \cup Range(u)
  BY <1>1, <1>2, AdvancesOn
<1>4. R \in Nat /\ Q \in Nat /\ S \in Nat /\ R =< Q /\ Q =< S
  BY <1>1 DEF Advances
<1>5. \A i \in R .. S - 1 : i \in Range(t \o u)
  <2>1. \A i \in R .. S - 1 : i \in R .. Q - 1 \/ i \in Q .. S - 1 BY <1>4
  <2> QED BY <1>3, <2>1 DEF Hears
<1>6. Score(q, S, W, N) /\ U \in Nat /\ W \in Nat /\ N \in Nat
  BY DEF Hears, Score
<1>7. V =< W /\ (W = V \/ W =< N - WinSize)
  BY <1>6, Sizes DEF Hears
<1>8. \A i \in Int : Got(q, S, i) <=> Got(r, R, i) \/ i \in D \cup E
  BY DEF Hears
<1> QED BY <1>2, <1>5, <1>6, <1>7, <1>8 DEF Hears

LEMMA ReceivedIs ==
  ASSUME NEW r, NEW R, NEW V, NEW N, Score(r, R, V, N),
         NEW m \in Ids, N - WinSize =< m, m < N, m \notin Range(r.buffer)
  PROVE  \E Q, U, t : Hears(r, ReceiveMpdu(r, m), {m}, R, Q, V, U, N, t)
<1>1. /\ r \in Recipients /\ R \in Nat /\ V \in Nat /\ N \in Nat
      /\ R =< N /\ N =< R + WinSize /\ r.start = NumberOf(R)
  BY DEF Score, Remembers
<1>2. m \in Int /\ WinSize \in Nat /\ Half \in Nat /\ 2 * WinSize < Half
  BY Sizes DEF Ids
<1>3. /\ IsOld(r.start, NumberOf(m)) <=> m < R
      /\ InWindow(NumberOf(m), r.start) <=> (R =< m /\ m < R + WinSize)
  <2>1. -Half =< m - R /\ m - R < Half BY <1>1, <1>2
  <2> QED BY <1>1, <1>2, <2>1, OldOrNot
<1>4. CASE m < R
  <2>1. ReceiveMpdu(r, m) = r BY <1>3, <1>4 DEF ReceiveMpdu
  <2>2. \A i \in {m} : Got(r, R, i) BY <1>4 DEF Got
  <2>3. Hears(r, r, {m}, R, R, V, V, N, <<>>) BY <2>2, HearsNothing
  <2> QED BY <2>1, <2>3
<1>5. CASE ~ (m < R)
  <2>1. R =< m /\ m < R + WinSize BY <1>1, <1>2, <1>5
  <2>2. PICK a : a = StoreMpduIfNeeded(r, m) OBVIOUS
  <2>3. ReceiveMpdu(r, m) = PassUntilLost(a)
    BY <1>3, <1>5, <2>1, <2>2 DEF ReceiveMpdu, Then
  <2>4. a.delivered = r.delivered /\ a.start = r.start /\ Range(a.buffer) = Range(r.buffer) \cup {m}
    BY <2>1, <2>2, StoredIsScored
  <2>5. PICK U \in Nat : V =< U /\ (U = V \/ U =< N - WinSize) /\ Scores(a, R, R, U, N)
    BY <2>1, <2>2, StoredIsScored
  <2>6. PICK Q, t : Q \in Nat /\ Passes(a, PassUntilLost(a), R, R, Q, t)
    <3>1. a \in Recipients /\ Ascending(a.buffer) /\ \A b \in Range(a.buffer) : R =< b /\ b < N
      BY <2>5 DEF Scores, Remembers
    <3>2. \E Q \in Nat : \E t : Passes(a, PassUntilLost(a), R, R, Q, t)
      BY <1>1, <2>4, <3>1, UntilLostIs
    <3> QED BY <3>2
  <2>7. PICK p : p = PassUntilLost(a) OBVIOUS
  <2>8. Passes(a, p, R, R, Q, t) BY <2>6, <2>7
  <2>9. Score(p, Q, U, N) BY <2>5, <2>8, ScoreOn
  <2>10. \A i \in Int : Got(p, Q, i) <=> i < R \/ i \in Range(a.buffer) BY <2>5, <2>8, ScoreOn
  <2>11. Advances(r, R, p, Q, t)
    <3>1. Given(a, t) = Given(r, t) BY <2>4 DEF Given
    <3> QED BY <1>1, <2>8, <3>1 DEF Passes, Advances
  <2>12. \A i \in R .. Q - 1 : i \in Range(t) BY <2>8 DEF Passes
  <2>13. \A i \in Int : Got(p, Q, i) <=> Got(r, R, i) \/ i \in {m} BY <2>4, <2>10 DEF Got
  <2>14. Hears(r, p, {m}, R, Q, V, U, N, t) BY <2>5, <2>9, <2>11, <2>12, <2>13 DEF Hears
  <2> QED BY <2>3, <2>7, <2>14
<1> QED BY <1>4, <1>5

(* The frames of a list, of which those of got are received.               *)
LEMMA AllHeard ==
  ASSUME NEW r, NEW R, NEW V, NEW N, Score(r, R, V, N), NEW got, NEW mpdus \in Seq(Ids),
         \A i \in 1 .. Len(mpdus) :
           N - WinSize =< mpdus[i] /\ mpdus[i] < N /\ mpdus[i] \notin Range(r.buffer),
         \A i, j \in 1 .. Len(mpdus) : i < j => mpdus[i] # mpdus[j]
  PROVE  \E Q, U, t : Hears(r, Heard(r, mpdus, got), Range(mpdus) \cap got, R, Q, V, U, N, t)
<1>1. PICK L \in Nat : L = Len(mpdus) /\ DOMAIN mpdus = 1 .. L
  BY LenProperties
<1> DEFINE First(i) == {mpdus[j] : j \in 1 .. i} \cap got
           Good(a, i) == \E Q, U, t : Hears(r, a, First(i), R, Q, V, U, N, t)
<1>2. \A i \in 1 .. L : mpdus[i] \in Ids /\ mpdus[i] \in Int
  BY <1>1, ElementOfSeq, Sizes DEF Ids
<1>3. R \in Nat /\ V \in Nat /\ r \in Recipients
  BY DEF Score, Remembers
<1>4. ASSUME NEW i \in 1 .. L, NEW a, Good(a, i - 1)
      PROVE  Good(HeardOne(a, mpdus[i], got), i)
  <2>1. PICK m \in Ids : m = mpdus[i] /\ m \in Int BY <1>2
  <2>2. PICK Q, U, t : Hears(r, a, First(i - 1), R, Q, V, U, N, t) BY <1>4
  <2>3. First(i) = First(i - 1) \cup ({m} \cap got)
    <3>1. 1 .. i = 1 .. i - 1 \cup {i} OBVIOUS
    <3> QED BY <2>1, <3>1
  <2>4. CASE m \notin got
    <3>1. HeardOne(a, mpdus[i], got) = a BY <2>1, <2>4 DEF HeardOne
    <3>2. First(i) = First(i - 1) BY <2>3, <2>4
    <3> HIDE DEF First
    <3> QED BY <2>2, <3>1, <3>2
  <2>5. CASE m \in got
    <3>1. HeardOne(a, mpdus[i], got) = ReceiveMpdu(a, m) BY <2>1, <2>5 DEF HeardOne
    <3>2. First(i) = First(i - 1) \cup {m} BY <2>3, <2>5
    <3>3. m \notin First(i - 1)
      <4>1. \A j \in 1 .. i - 1 : j \in 1 .. Len(mpdus) /\ i \in 1 .. Len(mpdus) /\ j < i BY <1>1
      <4> QED BY <2>1, <4>1
    <3> HIDE DEF First
    <3>4. Score(a, Q, U, N) /\ Advances(r, R, a, Q, t) BY <2>2 DEF Hears
    <3>5. m \notin Range(a.buffer)
      <4>1. SUFFICES ASSUME m \in Range(a.buffer) PROVE FALSE OBVIOUS
      <4>2. Q < m BY <3>4, <4>1 DEF Score
      <4>3. Got(r, R, m) BY <2>1, <2>2, <3>3, <4>1 DEF Hears, Got
      <4>4. m \notin Range(r.buffer) BY <1>1, <2>1
      <4>5. m < R BY <4>3, <4>4 DEF Got
      <4>6. R =< Q /\ R \in Nat /\ Q \in Nat BY <3>4 DEF Advances
      <4> QED BY <2>1, <4>2, <4>5, <4>6
    <3>6. N - WinSize =< m /\ m < N BY <1>1, <2>1
    <3>7. PICK S, W, u : Hears(a, ReceiveMpdu(a, m), {m}, Q, S, U, W, N, u)
      BY <3>4, <3>5, <3>6, ReceivedIs
    <3>8. Hears(r, ReceiveMpdu(a, m), First(i - 1) \cup {m}, R, S, V, W, N, t \o u)
      BY <1>3, <2>2, <3>7, HearsOn
    <3> QED BY <3>1, <3>2, <3>8
  <2> QED BY <2>4, <2>5
<1>5. Good(r, 0)
  <2>1. First(0) = {} OBVIOUS
  <2>2. Hears(r, r, {}, R, R, V, V, N, <<>>) BY HearsNothing
  <2> HIDE DEF First
  <2> QED BY <2>1, <2>2
<1> DEFINE G == [i \in 0 .. L |-> {a \in Recipients : Good(a, i)}]
<1>6. ASSUME NEW i \in 1 .. L, NEW a \in G[i - 1]
      PROVE  HeardOne(a, mpdus[i], got) \in G[i]
  <2>1. i - 1 \in 0 .. L /\ i \in 0 .. L BY <1>1
  <2>2. Good(a, i - 1) BY <2>1
  <2>3. Good(HeardOne(a, mpdus[i], got), i) BY <1>4, <2>2
  <2>4. HeardOne(a, mpdus[i], got) \in Recipients BY <2>3 DEF Hears, Advances
  <2> HIDE DEF Good
  <2> QED BY <2>1, <2>3, <2>4
<1> HIDE DEF Good
<1>7. G \in [0 .. Len(mpdus) -> SUBSET Recipients] /\ r \in G[0]
  BY <1>1, <1>3, <1>5
<1>8. \A i \in 1 .. Len(mpdus) : \A a \in G[i - 1] : HeardOne(a, mpdus[i], got) \in G[i]
  BY <1>1, <1>6
<1> HIDE DEF G
<1>9. Heard(r, mpdus, got) \in G[L]
  BY <1>1, <1>3, <1>7, <1>8, HeardIs
<1>10. Good(Heard(r, mpdus, got), L)
  BY <1>1, <1>9 DEF G
<1>11. First(L) = Range(mpdus) \cap got
  BY <1>1 DEF Range
<1> HIDE DEF First
<1> QED BY <1>10, <1>11 DEF Good

(* What can be passed up is, once more, before an Ack.                     *)
LEMMA PassedUpIs ==
  ASSUME NEW r, NEW R, NEW V, NEW N, Score(r, R, V, N)
  PROVE  \E Q, t : Hears(r, MoveTo(r, r.start), {}, R, Q, V, V, N, t)
<1>1. /\ r \in Recipients /\ R \in Nat /\ V \in Nat /\ N \in Nat /\ Ascending(r.buffer)
      /\ R =< N /\ N =< R + WinSize /\ r.start = NumberOf(R)
  BY DEF Score, Remembers
<1>2. \A b \in Range(r.buffer) : b \in Int
  <2>1. r.buffer \in Seq(Ids) BY <1>1 DEF Recipients
  <2>2. \A b \in Range(r.buffer) : b \in Ids BY <2>1, LenProperties, ElementOfSeq DEF Range
  <2> QED BY <2>2, Sizes DEF Ids
<1>3. \A b \in Range(r.buffer) : R =< b /\ b < N
  BY <1>1, <1>2 DEF Score
<1>4. PICK p : p = MoveTo(r, NumberOf(R))
  OBVIOUS
<1>5. PICK Q, t : Q \in Nat /\ Passes(r, p, R, R, Q, t)
  <2>1. R =< R BY <1>1
  <2> QED BY <1>1, <1>3, <1>4, <2>1, MovedToIs
<1>6. Scores(r, R, R, V, N)
  <2>1. \A i \in V .. V + WinSize - 1 : NumberOf(i) \in r.bitmap => i < R \/ i \in Range(r.buffer)
    BY DEF Score, Got
  <2>2. R =< R /\ V =< R /\ R =< V + WinSize BY <1>1 DEF Score
  <2> QED BY <1>1, <1>3, <2>1, <2>2 DEF Score, Scores
<1>7. Score(p, Q, V, N)
  BY <1>5, <1>6, ScoreOn
<1>8. \A i \in Int : Got(p, Q, i) <=> Got(r, R, i) \/ i \in {}
  <2>1. \A i \in Int : Got(p, Q, i) <=> i < R \/ i \in Range(r.buffer) BY <1>5, <1>6, ScoreOn
  <2> QED BY <2>1 DEF Got
<1>9. Advances(r, R, p, Q, t) /\ \A i \in R .. Q - 1 : i \in Range(t)
  BY <1>5 DEF Passes
<1>10. V =< V
  BY <1>1
<1>11. Hears(r, p, {}, R, Q, V, V, N, t)
  BY <1>7, <1>8, <1>9, <1>10 DEF Hears
<1> QED BY <1>1, <1>4, <1>11

(* What the BlockAck says of the frames from the start of the score.       *)
LEMMA ReplyIs ==
  ASSUME NEW r, NEW R, NEW V, NEW N, Score(r, R, V, N), NEW i \in V .. N - 1,
         NEW reply, reply = BlockAckFrom(r, NumberOf(V))
  PROVE  /\ NumberOf(i) \in reply.received => Got(r, R, i)
         /\ i \in Range(r.buffer) => NumberOf(i) \in reply.received
<1>0. SeqSpace \in Nat /\ 4 * WinSize < SeqSpace
  BY Sizes
<1>1. /\ R \in Nat /\ V \in Nat /\ N \in Nat /\ WinSize \in Nat
      /\ R =< V + WinSize /\ N =< R + WinSize
  BY Sizes DEF Score, Remembers
<1>2. i \in Int /\ V =< i /\ i < N
  BY <1>1
<1>3. Span(NumberOf(V), WinSize) = Numbers(V, V + WinSize - 1)
  BY <1>1, SpanAt DEF Numbers
<1>4. reply.received = r.bitmap \cap Numbers(V, V + WinSize - 1)
  BY <1>3 DEF BlockAckFrom
<1>5. NumberOf(i) \in Numbers(V, V + WinSize - 1) <=> i \in V .. V + WinSize - 1
  <2>1. /\ V + WinSize - 1 \in Int /\ V \in Int
        /\ (V + WinSize - 1) - SeqSpace < i /\ i < V + SeqSpace
    BY <1>0, <1>1, <1>2
  <2> QED BY <1>2, <2>1, HasNumber
<1>6. ASSUME NumberOf(i) \in reply.received PROVE Got(r, R, i)
  BY <1>4, <1>5, <1>6 DEF Score
<1>7. ASSUME i \in Range(r.buffer) PROVE NumberOf(i) \in reply.received
  <2>1. i < V + WinSize /\ NumberOf(i) \in r.bitmap BY <1>7 DEF Score
  <2>2. i \in V .. V + WinSize - 1 BY <1>1, <1>2, <2>1
  <2> QED BY <1>4, <1>5, <2>1, <2>2
<1> QED BY <1>6, <1>7

(* The score is moved to H, and bits of the last lap are cleared.          *)
Asks(r, p, V, H) ==
  /\ p \in Recipients
  /\ p = [r EXCEPT !.winStart = NumberOf(H), !.bitmap = p.bitmap]
  /\ p.bitmap \subseteq r.bitmap
  /\ \A i \in H .. H + WinSize - 1 : NumberOf(i) \in p.bitmap => i < V + WinSize
  /\ \A i \in V .. V + WinSize - 1 : NumberOf(i) \in r.bitmap => NumberOf(i) \in p.bitmap

LEMMA AskedIs ==
  ASSUME NEW r \in Recipients, NEW V \in Nat, NEW H \in Nat, r.winStart = NumberOf(V),
         V =< H, H =< V + 2 * WinSize, NEW p, p = UpdateWithBlockAckReq(r, NumberOf(H))
  PROVE  Asks(r, p, V, H)
<1>0. SeqSpace \in Nat /\ 4 * WinSize < SeqSpace
  BY Sizes
<1>1. WinSize \in Nat /\ 2 * WinSize < Half /\ Half \in Nat /\ V \in Int /\ H \in Int
  BY Sizes
<1>2. ~ IsOld(r.winStart, NumberOf(H)) /\ (InWindow(NumberOf(H), r.winStart) <=> H < V + WinSize)
  <2>1. -Half =< H - V /\ H - V < Half BY <1>1
  <2>2. /\ IsOld(NumberOf(V), NumberOf(H)) <=> H < V
        /\ InWindow(NumberOf(H), NumberOf(V)) <=> (V =< H /\ H < V + WinSize)
    BY <1>1, <2>1, OldOrNot
  <2> QED BY <1>1, <2>2
<1>3. PICK count : count = IF InWindow(NumberOf(H), r.winStart)
                           THEN Dist(r.winStart, NumberOf(H)) ELSE WinSize
  OBVIOUS
<1>4. count \in Nat /\ (IF H < V + WinSize THEN count = H - V ELSE count = WinSize)
  <2>1. -SeqSpace =< H - V /\ H - V < SeqSpace BY <1>0, <1>1
  <2>2. Dist(NumberOf(V), NumberOf(H)) = IF V =< H THEN H - V ELSE H - V + SeqSpace
    BY <1>1, <2>1, Distance
  <2>3. CASE H < V + WinSize
    <3>1. count = Dist(NumberOf(V), NumberOf(H)) BY <1>2, <1>3, <2>3
    <3> QED BY <1>1, <2>2, <2>3, <3>1
  <2>4. CASE ~ (H < V + WinSize)
    <3>1. count = WinSize BY <1>2, <1>3, <2>4
    <3> QED BY <1>1, <2>4, <3>1
  <2> QED BY <2>3, <2>4
<1>5. PICK E \in Int : E = H + WinSize - count
  BY <1>1, <1>4
<1>6. Span((NumberOf(H) + WinSize - count) % SeqSpace, count) = Numbers(E, H + WinSize - 1)
  <2>1. (NumberOf(H) + (WinSize - count)) % SeqSpace = NumberOf(H + (WinSize - count))
    BY <1>1, <1>4, Shift
  <2>2. NumberOf(H) + (WinSize - count) = NumberOf(H) + WinSize - count /\ H + (WinSize - count) = E
    BY <1>1, <1>4, <1>5, NumberType
  <2>3. Span(NumberOf(E), count) = {NumberOf(i) : i \in E .. E + count - 1}
    BY <1>4, SpanAt
  <2>4. E + count - 1 = H + WinSize - 1 BY <1>1, <1>4, <1>5
  <2> QED BY <2>1, <2>2, <2>3, <2>4 DEF Numbers
<1>7. p = [r EXCEPT !.winStart = NumberOf(H), !.bitmap = @ \ Numbers(E, H + WinSize - 1)]
  BY <1>2, <1>3, <1>6 DEF UpdateWithBlockAckReq
<1>8. p.bitmap = r.bitmap \ Numbers(E, H + WinSize - 1) /\ r.bitmap \in SUBSET Seqs
  BY <1>7 DEF Recipients
<1>9. NumberOf(H) \in Seqs
  BY <1>1, NumberType
<1>10. p \in Recipients
  BY <1>7, <1>8, <1>9 DEF Recipients
<1>11. ASSUME NEW i \in Int, V =< i, i < H + WinSize
       PROVE  NumberOf(i) \in Numbers(E, H + WinSize - 1) <=> E =< i
  <2>1. H - count =< E /\ E =< H + WinSize /\ V =< E
    BY <1>1, <1>4, <1>5
  <2>2. (H + WinSize - 1) - SeqSpace < i
    BY <1>0, <1>1, <1>11
  <2>3. i < E + SeqSpace
    BY <1>0, <1>1, <1>11, <2>1
  <2>4. NumberOf(i) \in Numbers(E, H + WinSize - 1) <=> i \in E .. H + WinSize - 1
    BY <1>1, <1>5, <2>2, <2>3, HasNumber
  <2> QED BY <1>1, <1>11, <2>4
<1>12. ASSUME NEW i \in H .. H + WinSize - 1, NumberOf(i) \in p.bitmap PROVE i < V + WinSize
  <2>1. i \in Int /\ V =< i /\ i < H + WinSize /\ H =< i BY <1>1
  <2>2. i < E BY <1>5, <1>8, <1>11, <1>12, <2>1
  <2> QED BY <1>1, <1>4, <1>5, <2>1, <2>2
<1>13. ASSUME NEW i \in V .. V + WinSize - 1, NumberOf(i) \in r.bitmap PROVE NumberOf(i) \in p.bitmap
  <2>1. i \in Int /\ V =< i /\ i < H + WinSize /\ i < V + WinSize BY <1>1
  <2>2. ~ (E =< i) BY <1>1, <1>4, <1>5, <2>1
  <2> QED BY <1>8, <1>11, <1>13, <2>1, <2>2
<1>14. p = [r EXCEPT !.winStart = NumberOf(H), !.bitmap = p.bitmap]
  BY <1>7, <1>8
<1> QED BY <1>8, <1>10, <1>12, <1>13, <1>14 DEF Asks

(* A BAR for H: the score is moved there, and the reorder window when it is*)
(* not beyond.                                                             *)
HearsBar(r, a, p, R, Q, V, H, N, t) ==
  /\ Score(p, Q, H, N) /\ H =< Q /\ a.bitmap = p.bitmap
  /\ Advances(r, R, p, Q, t) /\ \A i \in H .. Q - 1 : R =< i => i \in Range(t)
  /\ \A i \in Int : H =< i => (Got(p, Q, i) <=> Got(r, R, i))

LEMMA BarIsHeard ==
  ASSUME NEW r, NEW R, NEW V, NEW N, Score(r, R, V, N),
         NEW H \in Nat, V =< H, N - WinSize =< H, H =< N,
         NEW a, a = UpdateWithBlockAckReq(r, NumberOf(H)),
         NEW p, p = IF IsOld(a.start, NumberOf(H)) THEN a ELSE MoveTo(a, NumberOf(H))
  PROVE  \E Q \in Nat : \E t : HearsBar(r, a, p, R, Q, V, H, N, t)
<1>1. /\ r \in Recipients /\ R \in Nat /\ V \in Nat /\ N \in Nat /\ WinSize \in Nat
      /\ V =< R /\ R =< V + WinSize /\ R =< N /\ N =< R + WinSize
      /\ r.start = NumberOf(R) /\ r.winStart = NumberOf(V) /\ Ascending(r.buffer)
  BY Sizes DEF Score, Remembers
<1>2. H =< V + 2 * WinSize
  BY <1>1
<1>3. Asks(r, a, V, H)
  BY <1>1, <1>2, AskedIs
<1>4. /\ a \in Recipients /\ a.start = r.start /\ a.winStart = NumberOf(H)
      /\ a.buffer = r.buffer /\ a.delivered = r.delivered
  <2>1. a \in Recipients /\ a = [r EXCEPT !.winStart = NumberOf(H), !.bitmap = a.bitmap]
    BY <1>3 DEF Asks
  <2> QED BY <1>1, <2>1 DEF Recipients
<1>5. \A b \in Range(r.buffer) : b \in Int
  <2>1. r.buffer \in Seq(Ids) BY <1>1 DEF Recipients
  <2>2. \A b \in Range(r.buffer) : b \in Ids BY <2>1, LenProperties, ElementOfSeq DEF Range
  <2> QED BY <2>2, Sizes DEF Ids
<1>6. ASSUME NEW b \in Range(a.buffer)
      PROVE  R < b /\ b < N /\ b < H + WinSize /\ NumberOf(b) \in a.bitmap
  <2>1. R < b /\ b < N /\ b < V + WinSize /\ NumberOf(b) \in r.bitmap BY <1>4, <1>6 DEF Score
  <2>2. b \in Int BY <1>4, <1>5, <1>6
  <2>3. b \in V .. V + WinSize - 1 /\ b < H + WinSize BY <1>1, <2>1, <2>2
  <2> QED BY <1>3, <2>1, <2>3 DEF Asks
<1>7. ASSUME NEW i \in H .. H + WinSize - 1, NumberOf(i) \in a.bitmap PROVE Got(r, R, i)
  <2>1. i < V + WinSize /\ NumberOf(i) \in r.bitmap BY <1>3, <1>7 DEF Asks
  <2>2. i \in V .. V + WinSize - 1 BY <1>1, <2>1
  <2> QED BY <2>1, <2>2 DEF Score
<1>8. Remembers(a, R)
  BY <1>4 DEF Score, Remembers
<1>9. IsOld(a.start, NumberOf(H)) <=> H < R
  <2>1. -Half =< H - R /\ H - R < Half /\ H \in Int /\ R \in Int
    <3>1. Half \in Nat /\ 2 * WinSize < Half BY Sizes
    <3>2. -WinSize =< H - R /\ H - R =< WinSize BY <1>1
    <3> QED BY <1>1, <3>1, <3>2
  <2> QED BY <1>1, <1>4, <2>1, OldOrNot
<1>10. CASE H < R
  <2>1. p = a BY <1>9, <1>10
  <2>2. Score(a, R, H, N)
    <3>1. H =< R /\ R =< H + WinSize BY <1>1, <1>10
    <3>2. \A i \in H .. H + WinSize - 1 : NumberOf(i) \in a.bitmap => Got(a, R, i)
      BY <1>4, <1>7 DEF Got
    <3> QED BY <1>1, <1>4, <1>6, <1>8, <3>1, <3>2 DEF Score
  <2>3. Advances(r, R, a, R, <<>>)
    <3>1. Advances(a, R, a, R, <<>>) BY <1>8, GivenNothing
    <3>2. Given(a, <<>>) = Given(r, <<>>) BY <1>4 DEF Given
    <3> QED BY <1>1, <3>1, <3>2 DEF Advances
  <2>4. \A i \in H .. R - 1 : ~ (R =< i) BY <1>1
  <2>5. \A i \in Int : Got(a, R, i) <=> Got(r, R, i) BY <1>4 DEF Got
  <2>6. H =< R BY <1>1, <1>10
  <2>7. HearsBar(r, a, a, R, R, V, H, N, <<>>)
    BY <2>2, <2>3, <2>4, <2>5, <2>6 DEF HearsBar
  <2> QED BY <1>1, <2>1, <2>7
<1>11. CASE ~ (H < R)
  <2>1. p = MoveTo(a, NumberOf(H)) /\ R =< H BY <1>1, <1>9, <1>11
  <2>2. Scores(a, R, H, H, N)
    <3>1. H =< H /\ H =< H + WinSize BY <1>1
    <3>2. \A i \in H .. H + WinSize - 1 : NumberOf(i) \in a.bitmap => i < H \/ i \in Range(a.buffer)
      <4>1. ASSUME NEW i \in H .. H + WinSize - 1, i < R PROVE i < H BY <1>1, <2>1, <4>1
      <4> QED BY <1>4, <1>7, <4>1 DEF Got
    <3>3. \A b \in Range(a.buffer) : R =< b BY <1>1, <1>4, <1>5, <1>6
    <3> QED BY <1>1, <1>4, <1>6, <1>8, <2>1, <3>1, <3>2, <3>3 DEF Scores
  <2>3. PICK Q, t : Q \in Nat /\ Passes(a, p, R, H, Q, t)
    <3>1. \A b \in Range(a.buffer) : R =< b /\ b < N BY <2>2 DEF Scores
    <3>2. Ascending(a.buffer) BY <1>1, <1>4
    <3>3. \E Q \in Nat : \E t : Passes(a, MoveTo(a, NumberOf(H)), R, H, Q, t)
      BY <1>1, <1>4, <2>1, <3>1, <3>2, MovedToIs
    <3> QED BY <2>1, <3>3
  <2>4. Score(p, Q, H, N) BY <2>2, <2>3, ScoreOn
  <2>5. \A i \in Int : Got(p, Q, i) <=> i < H \/ i \in Range(a.buffer) BY <2>2, <2>3, ScoreOn
  <2>6. \A i \in Int : H =< i => (Got(p, Q, i) <=> Got(r, R, i))
    <3>1. ASSUME NEW i \in Int, H =< i PROVE ~ (i < H) /\ ~ (i < R) BY <1>1, <2>1, <3>1
    <3> QED BY <1>4, <2>5, <3>1 DEF Got
  <2>7. Advances(r, R, p, Q, t)
    <3>1. Given(a, t) = Given(r, t) BY <1>4 DEF Given
    <3> QED BY <1>1, <2>3, <3>1 DEF Passes, Advances
  <2>8. H =< Q /\ a.bitmap = p.bitmap /\ \A i \in H .. Q - 1 : i \in Range(t)
    BY <2>3 DEF Passes
  <2>9. HearsBar(r, a, p, R, Q, V, H, N, t)
    BY <2>4, <2>6, <2>7, <2>8 DEF HearsBar
  <2> QED BY <2>3, <2>9
<1> QED BY <1>10, <1>11

-----------------------------------------------------------------------------
(* What is sent.                                                           *)

(* The frames mpdus are taken from o, those from N to M - 1 as new ones.   *)
Batch(o, mpdus, N, A, M) ==
  /\ mpdus \in Seq(Ids) /\ Len(mpdus) >= 1 /\ Ascending(mpdus)
  /\ M \in Nat /\ N =< M /\ M =< A + WinSize /\ M =< arrived
  /\ \A m \in Range(mpdus) : A =< m /\ (m \in o.retry \/ (N =< m /\ m < M))
  /\ N .. M - 1 \subseteq Range(mpdus)
  /\ M = N + Cardinality(Range(mpdus) \ o.retry)

(* The queue is taken up to the end of the window.                         *)
Fits(o, N, A, fits) ==
  /\ N + fits =< A + WinSize
  /\ Ready(o) = BySeq(o.start, {m \in o.retry : ~ Stale(o, m)})
                  \o [i \in 1 .. fits |-> N + i - 1]

LEMMA FitsIs ==
  ASSUME NEW o, NEW A \in Nat, o.start = NumberOf(A), NEW N \in Nat, N = numbered,
         N =< A + WinSize, A =< N, arrived \in Nat, N =< arrived
  PROVE  \E fits \in 0 .. arrived - N : Fits(o, N, A, fits)
<1>1. PICK q \in Nat : q = arrived - N
  OBVIOUS
<1>2. Queued = q
  BY <1>1 DEF Queued
<1> DEFINE P == {i \in 1 .. q : InWindow(NumberOf(N + i - 1), o.start)}
           T == Runs(q, P)
<1>3. {k \in 0 .. Queued : \A i \in 1 .. k : InWindow(NumberOf(numbered + i - 1), o.start)} = T
  <2>1. ASSUME NEW k \in 0 .. q
        PROVE  (\A i \in 1 .. k : InWindow(NumberOf(N + i - 1), o.start)) <=> k \in T
    <3>1. \A i \in 1 .. k : i \in 1 .. q OBVIOUS
    <3> QED BY <3>1 DEF Runs
  <2>2. \A k \in T : k \in 0 .. q BY DEF Runs
  <2> HIDE DEF T
  <2> QED BY <1>2, <2>1, <2>2
<1>4. PICK fits \in 0 .. q : fits = Max(T) /\ \A i \in 1 .. fits : i \in P
  <2>1. T = Runs(q, P) OBVIOUS
  <2> HIDE DEF P, T
  <2>2. /\ Max(T) \in 0 .. q
        /\ \A i \in 1 .. Max(T) : i \in P
    BY <2>1, Longest
  <2> QED BY <2>2
<1> HIDE DEF T
<1>5. N + fits =< A + WinSize
  <2>1. SUFFICES ASSUME ~ (N + fits =< A + WinSize) PROVE FALSE OBVIOUS
  <2>2. PICK i \in 1 .. fits : N + i - 1 = A + WinSize
    <3>1. WinSize \in Nat BY Sizes
    <3>2. A + WinSize - N + 1 \in 1 .. fits /\ N + (A + WinSize - N + 1) - 1 = A + WinSize
      BY <2>1, <3>1
    <3> QED BY <3>2
  <2>3. InWindow(NumberOf(A + WinSize), NumberOf(A)) BY <1>4, <2>2
  <2>4. A \in Int /\ A + WinSize \in Int /\ -Half =< (A + WinSize) - A /\ (A + WinSize) - A < Half
    BY Sizes
  <2>5. A + WinSize < A + WinSize BY <2>3, <2>4, OldOrNot
  <2> QED BY <2>4, <2>5
<1>6. Ready(o) = BySeq(o.start, {m \in o.retry : ~ Stale(o, m)})
                   \o [i \in 1 .. fits |-> N + i - 1]
  BY <1>3, <1>4, Zenon DEF Ready
<1>7. Fits(o, N, A, fits)
  BY <1>5, <1>6, Zenon DEF Fits
<1> QED BY <1>1, <1>7

LEMMA BatchIs ==
  ASSUME NEW o \in Originators, NEW N \in Nat, N = numbered, NEW A,
         Starts(o, N, A), Keeps(o, N, A, {}, {}), arrived \in Nat, N =< arrived, arrived =< MaxMsdus,
         NEW n \in 1 .. Len(Ready(o))
  PROVE  \E M : Batch(o, SubSeq(Ready(o), 1, n), N, A, M)
<1>1. A \in Nat /\ A \in Int /\ A =< N /\ N =< A + WinSize /\ o.start = NumberOf(A)
      /\ WinSize \in Nat /\ 2 * WinSize < Half /\ Half \in Nat /\ o.retry \in SUBSET Ids
  BY Sizes DEF Starts, Originators
<1>2. \A m \in o.retry : m \in Int /\ A =< m /\ m < N /\ N - WinSize =< m
  <2>1. \A m \in o.retry : A =< m /\ m < N /\ N - WinSize =< m BY DEF Keeps
  <2> QED BY <1>1, <2>1, Sizes DEF Ids
<1>3. PICK fits \in 0 .. arrived - N :
        /\ N + fits =< A + WinSize
        /\ Ready(o) = BySeq(o.start, {m \in o.retry : ~ Stale(o, m)})
                        \o [i \in 1 .. fits |-> N + i - 1]
  <2>1. PICK fits \in 0 .. arrived - N : Fits(o, N, A, fits) BY <1>1, FitsIs
  <2> QED BY <2>1, Zenon DEF Fits
<1>4. {m \in o.retry : ~ Stale(o, m)} = o.retry
  <2>1. ASSUME NEW m \in o.retry PROVE ~ Stale(o, m)
    <3>1. m \in Int /\ A =< m /\ m < N /\ N - WinSize =< m BY <1>2
    <3>2. Stale(o, m) <=> m < A BY <1>1, <3>1, PlaceOf
    <3> QED BY <1>1, <3>1, <3>2
  <2> QED BY <2>1
<1>5. PICK a : a = BySeq(NumberOf(A), o.retry)
  OBVIOUS
<1>6. /\ a \in Seq(o.retry) /\ Range(a) = o.retry
      /\ \A i, j \in 1 .. Len(a) : i < j /\ A =< a[j] => A =< a[i] /\ a[i] < a[j]
  <2>1. \A m \in o.retry : -Half =< m - A /\ m - A < Half BY <1>1, <1>2
  <2>2. A \in Int /\ o.retry \in SUBSET Ids BY <1>1
  <2> QED BY <1>5, <2>1, <2>2, BySeqIs
<1>7. a \in Seq(Ids) /\ Ascending(a)
  <2>1. \A i \in 1 .. Len(a) : a[i] \in o.retry BY <1>6, ElementOfSeq
  <2>2. \A i \in 1 .. Len(a) : A =< a[i] BY <1>2, <2>1
  <2>3. Ascending(a) BY <1>6, <2>2 DEF Ascending
  <2>4. a \in Seq(Ids) BY <1>1, <1>6, SeqDef
  <2> QED BY <2>3, <2>4
<1>8. PICK b : b = [i \in 1 .. fits |-> N + i - 1]
  OBVIOUS
<1>9. b \in Seq(Ids) /\ Len(b) = fits /\ Ascending(b) /\ \A i \in 1 .. fits : b[i] = N + i - 1
  <2>1. \A i \in 1 .. fits : N + i - 1 \in Ids BY <1>3, Sizes DEF Ids
  <2>2. b \in [1 .. fits -> Ids] BY <1>8, <2>1
  <2>3. b \in Seq(Ids) /\ Len(b) = fits BY <2>2, LenProperties, SeqDef
  <2>4. \A i \in 1 .. fits : b[i] = N + i - 1 BY <1>8
  <2>5. Ascending(b) BY <2>3, <2>4 DEF Ascending
  <2> QED BY <2>3, <2>4, <2>5
<1>10. \A y \in Range(b) : N =< y /\ y \in Int /\ y < N + fits
  BY <1>9, LenProperties DEF Range
<1>11. PICK s : s = a \o b
  OBVIOUS
<1>12. /\ s \in Seq(Ids) /\ Len(s) = Len(a) + fits /\ Ascending(s)
       /\ \A i \in 1 .. Len(a) : s[i] = a[i]
       /\ \A i \in 1 .. fits : s[Len(a) + i] = N + i - 1
  <2>1. \A x \in Range(a), y \in Range(b) : x < y BY <1>2, <1>6, <1>10
  <2>2. /\ s \in Seq(Ids) /\ Len(s) = Len(a) + Len(b) /\ Ascending(s)
        /\ \A i \in 1 .. Len(a) : s[i] = a[i]
        /\ \A i \in 1 .. Len(b) : s[Len(a) + i] = b[i]
    BY <1>7, <1>9, <1>11, <2>1, JoinIs
  <2> QED BY <1>9, <2>2
<1>13. Ready(o) = s /\ n \in 1 .. Len(s)
  BY <1>1, <1>3, <1>4, <1>5, <1>8, <1>11
<1>14. PICK L \in Nat : L = Len(a)
  BY <1>7, LenProperties
<1>15. \A i \in 1 .. L : a[i] \in o.retry
  BY <1>6, <1>14, ElementOfSeq
<1>16. PICK u : u = SubSeq(s, 1, n)
  OBVIOUS
<1>17. u \in Seq(Ids) /\ Len(u) = n /\ Range(u) = {s[i] : i \in 1 .. n} /\ Ascending(u)
  <2>1. PICK m \in Nat : m = 1 OBVIOUS
  <2>2. n \in Nat /\ 1 =< m /\ m =< n + 1 /\ n =< Len(s) /\ n - m + 1 = n BY <1>12, <1>13, <1>14, <2>1
  <2> QED BY <1>12, <1>16, <2>1, <2>2, PartIs
<1>18. PICK M \in Nat : IF n =< L THEN M = N ELSE M = N + (n - L)
  <2>1. CASE n =< L
    BY <2>1
  <2>2. CASE ~ (n =< L)
    <3>1. N + (n - L) \in Nat BY <1>13, <2>2
    <3> QED BY <2>2, <3>1
  <2> QED BY <2>1, <2>2
<1>19. N =< M /\ M =< N + fits
  BY <1>12, <1>13, <1>14, <1>18
<1>20. ASSUME NEW i \in 1 .. n PROVE A =< s[i] /\ (s[i] \in o.retry \/ (N =< s[i] /\ s[i] < M))
  <2>1. CASE i =< L
    BY <1>2, <1>12, <1>14, <1>15, <2>1
  <2>2. CASE ~ (i =< L)
    <3>1. i - L \in 1 .. fits /\ L + (i - L) = i BY <1>12, <1>13, <1>14, <2>2
    <3>2. s[i] = N + (i - L) - 1 BY <1>12, <1>14, <3>1
    <3> QED BY <1>1, <1>18, <2>2, <3>1, <3>2
  <2> QED BY <2>1, <2>2
<1>21. N .. M - 1 \subseteq Range(u)
  <2>1. SUFFICES ASSUME NEW x \in N .. M - 1 PROVE x \in {s[i] : i \in 1 .. n} BY <1>17
  <2>2. L < n /\ x - N + 1 \in 1 .. fits /\ L + (x - N + 1) \in 1 .. n /\ N + (x - N + 1) - 1 = x
    BY <1>12, <1>13, <1>14, <1>18
  <2>3. s[L + (x - N + 1)] = x BY <1>12, <1>14, <2>2
  <2> QED BY <2>2, <2>3
<1>22. Range(u) \ o.retry = N .. M - 1
  <2>1. \A x \in N .. M - 1 : x \notin o.retry BY <1>2
  <2>2. \A x \in Range(u) : x \in o.retry \/ (N =< x /\ x < M) BY <1>17, <1>20
  <2>3. \A x \in Range(u) : x \in Int
    <3>1. \A i \in 1 .. n : u[i] \in Ids BY <1>17, ElementOfSeq
    <3>2. DOMAIN u = 1 .. n BY <1>17, LenProperties
    <3> QED BY <3>1, <3>2, Sizes DEF Range, Ids
  <2> QED BY <1>21, <2>1, <2>2, <2>3
<1>23. Cardinality(Range(u) \ o.retry) = M - N
  <2>1. PICK e \in Int : e = M - 1 OBVIOUS
  <2>2. Cardinality(N .. e) = IF N > e THEN 0 ELSE e - N + 1 BY FS_Interval
  <2>3. (IF N > e THEN 0 ELSE e - N + 1) = M - N BY <1>19, <2>1
  <2> QED BY <1>22, <2>1, <2>2, <2>3
<1>24. \A m \in Range(u) : A =< m /\ (m \in o.retry \/ (N =< m /\ m < M))
  BY <1>17, <1>20
<1>25. M =< A + WinSize /\ M =< arrived /\ n >= 1 /\ M = N + (M - N)
  <2>1. N + fits =< arrived /\ fits \in Int /\ arrived \in Int
    BY <1>1, <1>3, <1>4
  <2>2. A + WinSize \in Int
    BY <1>1, Sizes
  <2>3. PICK k, l, a1 \in Int : k = N + fits /\ l = A + WinSize /\ a1 = arrived
    BY <2>1, <2>2
  <2>4. M =< k /\ k =< l /\ k =< a1
    BY <1>3, <1>19, <2>1, <2>3, Zenon
  <2>5. M =< A + WinSize /\ M =< arrived
    <3>1. M =< l /\ M =< a1 BY <2>4
    <3> QED BY <2>3, <3>1
  <2> QED BY <1>13, <2>5
<1>26. Batch(o, u, N, A, M)
  BY <1>17, <1>19, <1>21, <1>23, <1>24, <1>25 DEF Batch
<1> QED BY <1>13, <1>16, <1>26

(* They are stored, and no more in the retransmit queue.                   *)
Takes(o, p, mpdus, bar, M, A) ==
  /\ p \in Originators /\ p.outstanding = o.outstanding \cup Range(mpdus)
  /\ p.retry = o.retry \ Range(mpdus) /\ p.bar = bar
  /\ p.start = o.start /\ p.acked = o.acked
  /\ Starts(p, M, A) /\ Keeps(p, M, A, {}, {}) /\ Covers(p, M, A, {})

LEMMA TakenIs ==
  ASSUME NEW o \in Originators, NEW N \in Nat, NEW A, NEW mpdus, NEW M,
         Starts(o, N, A), Keeps(o, N, A, {}, {}), Covers(o, N, A, {}), Batch(o, mpdus, N, A, M),
         NEW bar \in [kind : {"none", "bar", "skip"}, start : Seqs \cup {NoSeq}],
         NEW p, p = Stored([o EXCEPT !.retry = @ \ Range(mpdus), !.bar = bar], mpdus)
  PROVE  Takes(o, p, mpdus, bar, M, A)
<1>0. SeqSpace \in Nat /\ WinSize \in Nat /\ 4 * WinSize < SeqSpace
  BY Sizes
<1>1. /\ A \in Nat /\ A =< N /\ N =< A + WinSize /\ M \in Nat /\ N =< M /\ M =< A + WinSize
      /\ mpdus \in Seq(Ids) /\ o.start = NumberOf(A) /\ NumberOf(A) \notin o.acked
      /\ o.acked \subseteq Numbers(A, N - 1)
  BY DEF Starts, Batch
<1>2. \A i \in 1 .. Len(mpdus) : mpdus[i] \in Ids /\ mpdus[i] \in Range(mpdus)
  BY <1>1, ElementOfSeq, LenProperties DEF Range
<1>3. \A m \in Range(mpdus) : m \in Ids
  BY <1>1, ElementOfSeq, LenProperties DEF Range
<1>4. \A m \in Ids : m \in Int
  BY Sizes DEF Ids
<1>5. \A m \in o.retry : m \in Int /\ A =< m /\ m < N /\ NumberOf(m) \notin o.acked
  <2>1. o.retry \subseteq Ids BY DEF Originators
  <2> QED BY <1>4, <2>1 DEF Keeps
<1>6. \A m \in o.outstanding :
        m \in Int /\ A =< m /\ m < N /\ NumberOf(m) \notin o.acked /\ m \notin o.retry
  <2>1. o.outstanding \subseteq Ids BY DEF Originators
  <2> QED BY <1>4, <2>1 DEF Keeps
<1>7. \A m \in Range(mpdus) : m \in Int /\ A =< m /\ m < M /\ (m \in o.retry \/ N =< m)
  <2>1. \A m \in Range(mpdus) : A =< m /\ (m \in o.retry \/ (N =< m /\ m < M)) BY DEF Batch
  <2> QED BY <1>1, <1>3, <1>4, <1>5, <2>1
<1>8. PICK a : a = [o EXCEPT !.retry = @ \ Range(mpdus), !.bar = bar]
  OBVIOUS
<1>9. /\ a \in Originators /\ a.start = o.start /\ a.acked = o.acked
      /\ a.outstanding = o.outstanding /\ a.retry = o.retry \ Range(mpdus) /\ a.bar = bar
  BY <1>8 DEF Originators
<1>10. Starts(a, N, A)
  BY <1>9 DEF Starts
<1>11. p = [a EXCEPT !.outstanding = @ \cup Range(mpdus)]
  <2>1. \A i \in 1 .. Len(mpdus) : A =< mpdus[i] /\ mpdus[i] < A + WinSize
    BY <1>0, <1>1, <1>2, <1>7
  <2>2. Stored(a, mpdus) = [a EXCEPT !.outstanding = @ \cup Range(mpdus)]
    <3>1. a \in Originators /\ mpdus \in Seq(Ids) /\ Starts(a, N, A) BY <1>1, <1>9, <1>10
    <3> QED BY <2>1, <3>1, AllStored, ZenonT(30)
  <2> QED BY <1>8, <2>2
<1>12. /\ p \in Originators /\ p.outstanding = o.outstanding \cup Range(mpdus)
       /\ p.retry = o.retry \ Range(mpdus) /\ p.bar = bar
       /\ p.start = o.start /\ p.acked = o.acked
  <2>1. a.outstanding \cup Range(mpdus) \in SUBSET Ids BY <1>3, <1>9 DEF Originators
  <2> QED BY <1>9, <1>11, <2>1 DEF Originators
<1>13. Starts(p, M, A)
  <2>1. Numbers(A, N - 1) \subseteq Numbers(A, M - 1)
    <3>1. \A i \in A .. N - 1 : i \in A .. M - 1 BY <1>1
    <3> QED BY <3>1 DEF Numbers
  <2>2. A =< M BY <1>1
  <2> QED BY <1>1, <1>12, <2>1, <2>2 DEF Starts
<1>14. ASSUME NEW m \in Int, N =< m, m < M PROVE NumberOf(m) \notin o.acked
  <2>1. A \in Int /\ N - 1 \in Int /\ (N - 1) - SeqSpace < m /\ m < A + SeqSpace
    BY <1>0, <1>1, <1>14
  <2>2. NumberOf(m) \in Numbers(A, N - 1) <=> m \in A .. N - 1 BY <2>1, HasNumber
  <2> QED BY <1>1, <1>14, <2>2
<1>15. ASSUME NEW m \in p.outstanding
       PROVE  /\ M - WinSize =< m /\ m < M /\ A =< m
              /\ NumberOf(m) \notin p.acked /\ m \notin p.retry
  <2>1. CASE m \in o.outstanding /\ m \notin Range(mpdus)
    <3>1. m \in Int /\ A =< m /\ m < N /\ NumberOf(m) \notin o.acked /\ m \notin o.retry
      BY <1>6, <2>1
    <3>2. M - WinSize =< m /\ m < M BY <1>0, <1>1, <3>1
    <3> QED BY <1>12, <3>1, <3>2
  <2>2. CASE m \in Range(mpdus)
    <3>1. m \in Int /\ A =< m /\ m < M /\ (m \in o.retry \/ N =< m) BY <1>7, <2>2
    <3>2. NumberOf(m) \notin o.acked BY <1>5, <1>14, <3>1
    <3>3. M - WinSize =< m BY <1>0, <1>1, <3>1
    <3> QED BY <1>12, <2>2, <3>1, <3>2, <3>3
  <2> QED BY <1>12, <2>1, <2>2
<1>16. ASSUME NEW m \in p.retry
       PROVE  M - WinSize =< m /\ m < M /\ A =< m /\ NumberOf(m) \notin p.acked
  <2>1. m \in Int /\ A =< m /\ m < N /\ NumberOf(m) \notin o.acked BY <1>5, <1>12
  <2>2. M - WinSize =< m /\ m < M BY <1>0, <1>1, <2>1
  <2> QED BY <1>12, <2>1, <2>2
<1>17. Keeps(p, M, A, {}, {})
  BY <1>15, <1>16 DEF Keeps
<1>18. ASSUME NEW i \in A .. M - 1
       PROVE  i \in p.outstanding \/ i \in p.retry \/ NumberOf(i) \in p.acked
  <2>1. i \in A .. N - 1 \/ i \in N .. M - 1 BY <1>1
  <2>2. CASE i \in A .. N - 1
    BY <1>12, <2>2 DEF Covers
  <2>3. CASE i \in N .. M - 1
    BY <1>12, <2>3 DEF Batch
  <2> QED BY <2>1, <2>2, <2>3
<1>19. Covers(p, M, A, {})
  BY <1>18 DEF Covers
<1> QED BY <1>12, <1>13, <1>17, <1>19 DEF Takes

(* The last frame of a batch that starts the window is its only one.       *)
LEMMA OnlyOne ==
  ASSUME NEW o, NEW mpdus, NEW N \in Nat, NEW A \in Nat, NEW M, Batch(o, mpdus, N, A, M),
         o.start = NumberOf(A), \A m \in o.retry : m < N, N =< A + WinSize,
         DistanceOf(o, Last(mpdus)) = 0
  PROVE  Len(mpdus) = 1 /\ mpdus[1] = A
<1>0. SeqSpace \in Nat /\ WinSize \in Nat /\ 4 * WinSize < SeqSpace /\ SeqSpace >= 1
  BY Sizes
<1>1. PICK L \in Nat : L = Len(mpdus) /\ L >= 1 /\ DOMAIN mpdus = 1 .. L
  BY LenProperties DEF Batch
<1>2. \A i \in 1 .. L : mpdus[i] \in Range(mpdus) /\ mpdus[i] \in Int
  <2>1. \A i \in 1 .. L : mpdus[i] \in Ids BY <1>1, ElementOfSeq DEF Batch
  <2>2. \A i \in 1 .. L : mpdus[i] \in Int BY <2>1, Sizes DEF Ids
  <2>3. \A i \in 1 .. L : mpdus[i] \in Range(mpdus) BY <1>1 DEF Range
  <2> QED BY <2>2, <2>3
<1>3. M \in Nat /\ M =< A + WinSize
  BY DEF Batch
<1>4. \A i \in 1 .. L : A =< mpdus[i] /\ mpdus[i] < A + WinSize
  <2>1. \A m \in Range(mpdus) : A =< m /\ (m \in o.retry \/ (N =< m /\ m < M)) BY DEF Batch
  <2>2. \A i \in 1 .. L : A =< mpdus[i] /\ (mpdus[i] < N \/ mpdus[i] < M) BY <1>2, <2>1
  <2> QED BY <1>0, <1>2, <1>3, <2>2
<1>5. mpdus[L] = A
  <2>1. mpdus[L] \in Int /\ A =< mpdus[L] /\ mpdus[L] < A + WinSize BY <1>1, <1>2, <1>4
  <2>2. A \in Int /\ -SeqSpace =< mpdus[L] - A /\ mpdus[L] - A < SeqSpace BY <1>0, <2>1
  <2>3. Dist(NumberOf(A), NumberOf(mpdus[L])) = mpdus[L] - A BY <2>1, <2>2, Distance
  <2>4. Dist(NumberOf(A), NumberOf(mpdus[L])) = 0 BY <1>1 DEF DistanceOf, Last
  <2> QED BY <2>1, <2>3, <2>4
<1>6. L = 1
  <2>1. SUFFICES ASSUME L # 1 PROVE FALSE OBVIOUS
  <2>2. 1 \in 1 .. L /\ L \in 1 .. L /\ 1 < L BY <1>1, <2>1
  <2>3. mpdus[1] < mpdus[L] BY <1>1, <2>2 DEF Batch, Ascending
  <2>4. A =< mpdus[1] /\ mpdus[1] \in Int BY <1>2, <1>4, <2>2
  <2> QED BY <1>5, <2>3, <2>4
<1> QED BY <1>1, <1>5, <1>6

(* More frames have their numbers.                                         *)
LEMMA ScoreGrows ==
  ASSUME NEW r, NEW R, NEW V, NEW N, Score(r, R, V, N), NEW M \in Nat, N =< M, M =< R + WinSize
  PROVE  Score(r, R, V, M)
<1>1. R \in Nat /\ N \in Nat /\ V \in Nat /\ R =< N
  BY DEF Score, Remembers
<1>2. R =< M
  BY <1>1
<1>3. \A b \in Range(r.buffer) : b \in Int
  <2>1. r.buffer \in Seq(Ids) BY DEF Score, Remembers, Recipients
  <2>2. \A b \in Range(r.buffer) : b \in Ids BY <2>1, LenProperties, ElementOfSeq DEF Range
  <2> QED BY <2>2, Sizes DEF Ids
<1>4. \A b \in Range(r.buffer) : R < b /\ b < M /\ b < V + WinSize /\ NumberOf(b) \in r.bitmap
  <2>1. \A b \in Range(r.buffer) : R < b /\ b < N /\ b < V + WinSize /\ NumberOf(b) \in r.bitmap
    BY DEF Score
  <2> QED BY <1>1, <1>3, <2>1
<1> QED BY <1>2, <1>4 DEF Score

=============================================================================
