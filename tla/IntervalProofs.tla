--------------------------- MODULE IntervalProofs ---------------------------
(***************************************************************************)
(* What the fixpoint engine needs of the interval domain: the order on      *)
(* states is a partial order with join and widening as upper bounds, and    *)
(* the transformers are sound for the concrete steps and monotone in what   *)
(* they call bottom.                                                        *)
(***************************************************************************)
EXTENDS Interval, TLAPS

-----------------------------------------------------------------------------
(* Bounds *)

(* What a bound is: an integer or one of the two infinities. *)
LEMMA BoundType ==
  /\ \A b \in Bounds : b.inf \in {-1, 0, 1} /\ b.n \in Int /\ b = [inf |-> b.inf, n |-> b.n] /\ (b.inf # 0 => b.n = 0)
  /\ \A k \in Int : I(k) \in Bounds /\ I(k) # PlusInf /\ I(k) # MinusInf
  /\ PlusInf \in Bounds /\ MinusInf \in Bounds /\ PlusInf # MinusInf
  /\ \A b \in Bounds : b.inf = 1 <=> b = PlusInf
  /\ \A b \in Bounds : b.inf = -1 <=> b = MinusInf
  /\ \A b \in Bounds : b.inf = 0 <=> b = I(b.n)
BY DEF Bounds, I, PlusInf, MinusInf

(* Ord InterVal is a total order. *)
LEMMA LeqOrder ==
  /\ \A a \in Bounds : leq(a, a)
  /\ \A a, b \in Bounds : leq(a, b) \/ leq(b, a)
  /\ \A a, b \in Bounds : leq(a, b) /\ leq(b, a) => a = b
  /\ \A a, b, c \in Bounds : leq(a, b) /\ leq(b, c) => leq(a, c)
  /\ \A a \in Bounds : leq(MinusInf, a) /\ leq(a, PlusInf)
  /\ \A k, l \in Int : leq(I(k), I(l)) <=> k <= l
<1>1. \A a \in Bounds : leq(a, a)
  BY BoundType DEF leq
<1>2. \A a, b \in Bounds : leq(a, b) \/ leq(b, a)
  BY BoundType DEF leq
<1>3. \A a, b \in Bounds : leq(a, b) /\ leq(b, a) => a = b
  BY BoundType DEF leq
<1>4. \A a, b, c \in Bounds : leq(a, b) /\ leq(b, c) => leq(a, c)
  BY BoundType DEF leq
<1>5. \A a \in Bounds : leq(MinusInf, a) /\ leq(a, PlusInf)
  BY BoundType DEF leq, MinusInf, PlusInf
<1>6. \A k, l \in Int : leq(I(k), I(l)) <=> k <= l
  BY DEF leq, I
<1> QED BY <1>1, <1>2, <1>3, <1>4, <1>5, <1>6

(* min and max pick one of the two bounds, below and above both. *)
LEMMA MinMax ==
  ASSUME NEW a \in Bounds, NEW b \in Bounds
  PROVE  /\ min(a, b) \in {a, b} /\ leq(min(a, b), a) /\ leq(min(a, b), b)
         /\ max(a, b) \in {a, b} /\ leq(a, max(a, b)) /\ leq(b, max(a, b))
BY LeqOrder DEF min, max

-----------------------------------------------------------------------------
(* Values *)

(* What an interval is. *)
LEMMA ValueType ==
  /\ \A v \in Values : /\ v.lo \in Bounds /\ v.hi \in Bounds /\ v.lo # PlusInf /\ v.hi # MinusInf
                       /\ leq(v.lo, v.hi) /\ v = InterVal(v.lo, v.hi)
  /\ \A a, b \in Bounds : a # PlusInf /\ b # MinusInf /\ leq(a, b) => InterVal(a, b) \in Values
  /\ \A k \in Int : kVal(k) \in Values
<1>1. \A v \in Values : /\ v.lo \in Bounds /\ v.hi \in Bounds /\ v.lo # PlusInf /\ v.hi # MinusInf
                        /\ leq(v.lo, v.hi) /\ v = InterVal(v.lo, v.hi)
  BY DEF Values, InterVal
<1>2. \A a, b \in Bounds : a # PlusInf /\ b # MinusInf /\ leq(a, b) => InterVal(a, b) \in Values
  BY DEF Values, InterVal
<1>3. \A k \in Int : kVal(k) \in Values
  BY <1>2, BoundType, LeqOrder DEF kVal
<1> QED BY <1>1, <1>2, <1>3

(* The bounds of an interval, as integers. *)
LEMMA ValueBounds ==
  ASSUME NEW v \in Values
  PROVE  /\ v.lo.inf \in {-1, 0} /\ v.lo.n \in Int /\ v.hi.inf \in {0, 1} /\ v.hi.n \in Int
         /\ v.lo.inf = 0 /\ v.hi.inf = 0 => v.lo.n <= v.hi.n
BY ValueType, BoundType DEF leq

(* leqValue is a partial order. *)
LEMMA LeqValueOrder ==
  /\ \A v \in Values : leqValue(v, v)
  /\ \A v, w \in Values : leqValue(v, w) /\ leqValue(w, v) => v = w
  /\ \A u, v, w \in Values : leqValue(u, v) /\ leqValue(v, w) => leqValue(u, w)
<1>1. \A v \in Values : leqValue(v, v)
  BY ValueType, LeqOrder DEF leqValue
<1>2. \A v, w \in Values : leqValue(v, w) /\ leqValue(w, v) => v = w
  BY ValueType, LeqOrder DEF leqValue
<1>3. \A u, v, w \in Values : leqValue(u, v) /\ leqValue(v, w) => leqValue(u, w)
  BY ValueType, LeqOrder DEF leqValue
<1> QED BY <1>1, <1>2, <1>3

(* join and widen are upper bounds *)
LEMMA JoinValue ==
  ASSUME NEW v \in Values, NEW w \in Values
  PROVE  joinValue(v, w) \in Values /\ leqValue(v, joinValue(v, w)) /\ leqValue(w, joinValue(v, w))
<1> DEFINE a == min(v.lo, w.lo)
           b == max(v.hi, w.hi)
<1>1. /\ a \in {v.lo, w.lo} /\ leq(a, v.lo) /\ leq(a, w.lo)
      /\ b \in {v.hi, w.hi} /\ leq(v.hi, b) /\ leq(w.hi, b)
  BY ValueType, MinMax
<1>2. a \in Bounds /\ b \in Bounds /\ a # PlusInf /\ b # MinusInf
  BY <1>1, ValueType
<1>3. leq(a, b)
  BY <1>1, <1>2, ValueType, LeqOrder
<1> HIDE DEF a, b
<1>4. InterVal(a, b) \in Values /\ leqValue(v, InterVal(a, b)) /\ leqValue(w, InterVal(a, b))
  BY <1>1, <1>2, <1>3, ValueType DEF InterVal, leqValue
<1> QED BY <1>4 DEF joinValue, a, b

(* Widening gives an interval above both. *)
LEMMA WidenValue ==
  ASSUME NEW v \in Values, NEW w \in Values
  PROVE  widenValue(v, w) \in Values /\ leqValue(v, widenValue(v, w)) /\ leqValue(w, widenValue(v, w))
<1> DEFINE a == IF leq(v.lo, w.lo) THEN v.lo ELSE MinusInf
           b == IF leq(w.hi, v.hi) THEN v.hi ELSE PlusInf
<1>1. a \in Bounds /\ b \in Bounds /\ a # PlusInf /\ b # MinusInf
  BY ValueType, BoundType
<1>2. leq(a, v.lo) /\ leq(a, w.lo) /\ leq(v.hi, b) /\ leq(w.hi, b)
  BY ValueType, LeqOrder
<1>3. leq(a, b)
  BY <1>1, <1>2, ValueType, LeqOrder
<1> HIDE DEF a, b
<1>4. InterVal(a, b) \in Values /\ leqValue(v, InterVal(a, b)) /\ leqValue(w, InterVal(a, b))
  BY <1>1, <1>2, <1>3, ValueType DEF InterVal, leqValue
<1> QED BY <1>4 DEF widenValue, a, b

-----------------------------------------------------------------------------
(* States *)

(* The inclusion of states is a partial order. *)
LEMMA LeqStateOrder ==
  /\ \A s \in States : leqState(s, s)
  /\ \A s, t \in States : leqState(s, t) /\ leqState(t, s) => s = t
  /\ \A r, s, t \in States : leqState(r, s) /\ leqState(s, t) => leqState(r, t)
BY LeqValueOrder DEF States, leqState

(* join is an upper bound; a join equal to the stored state means that the  *)
(* new one is included in it: the test of weak_update.                      *)
LEMMA JoinState ==
  ASSUME NEW s \in States, NEW t \in States
  PROVE  joinState(s, t) \in States /\ leqState(s, joinState(s, t)) /\ leqState(t, joinState(s, t))
BY JoinValue DEF States, leqState, joinState

(* so is widen: the test of loop_head_update *)
LEMMA WidenState ==
  ASSUME NEW s \in States, NEW t \in States
  PROVE  widenState(s, t) \in States /\ leqState(s, widenState(s, t)) /\ leqState(t, widenState(s, t))
BY WidenValue DEF States, leqState, widenState

-----------------------------------------------------------------------------
(* The arithmetic of intervals contains the arithmetic of their integers. *)

(* A larger interval holds the same integers and more. *)
LEMMA InLeq ==
  ASSUME NEW k \in Int, NEW v \in Values, NEW w \in Values, In(k, v), leqValue(v, w)
  PROVE  In(k, w)
BY ValueType, BoundType, LeqOrder DEF In, leqValue

(* What it means to lie in an interval. *)
LEMMA InBounds ==
  ASSUME NEW k \in Int, NEW v \in Values, In(k, v)
  PROVE  /\ v.lo.inf = -1 \/ (v.lo.inf = 0 /\ v.lo.n <= k)
         /\ v.hi.inf = 1 \/ (v.hi.inf = 0 /\ k <= v.hi.n)
BY ValueType, BoundType DEF In, leq, I

(* The integers of a constant and of a range. *)
LEMMA InConst ==
  /\ \A k \in Int : In(k, kVal(k))
  /\ \A k, l, u \in Int : l <= k /\ k <= u => In(k, InterVal(I(l), I(u)))
  /\ \A k, l \in Int : In(k, kVal(l)) <=> k = l
BY LeqOrder DEF In, kVal, InterVal, leq, I

(* Addition covers the sums ... *)
LEMMA PlusSound ==
  ASSUME NEW v \in Values, NEW w \in Values
  PROVE  /\ plusValue(v, w) \in Values
         /\ \A k, l \in Int : In(k, v) /\ In(l, w) => In(k + l, plusValue(v, w))
<1> DEFINE a == plusIVal(v.lo, w.lo)
           b == plusIVal(v.hi, w.hi)
<1>1. /\ a.inf = -1 \/ a.inf = 0
      /\ a.inf = 0 => v.lo.inf = 0 /\ w.lo.inf = 0 /\ a.n = v.lo.n + w.lo.n
      /\ a \in Bounds
  BY ValueType, BoundType DEF plusIVal, I
<1>2. /\ b.inf = 1 \/ b.inf = 0
      /\ b.inf = 0 => v.hi.inf = 0 /\ w.hi.inf = 0 /\ b.n = v.hi.n + w.hi.n
      /\ b \in Bounds
  BY ValueType, BoundType DEF plusIVal, I
<1> HIDE DEF a, b
<1>3. leq(a, b)
  BY <1>1, <1>2, ValueBounds, BoundType DEF leq
<1>4. a # PlusInf /\ b # MinusInf
  BY <1>1, <1>2, BoundType
<1>5. InterVal(a, b) \in Values
  BY <1>1, <1>2, <1>3, <1>4, ValueType
<1>6. ASSUME NEW k \in Int, NEW l \in Int, In(k, v), In(l, w)
      PROVE  In(k + l, InterVal(a, b))
  <2>1. k + l \in Int
    OBVIOUS
  <2>2. leq(a, I(k + l)) /\ leq(I(k + l), b)
    BY <1>1, <1>2, <1>6, <2>1, InBounds, ValueType, BoundType DEF leq, I
  <2> QED BY <2>2 DEF In, InterVal
<1> QED BY <1>5, <1>6 DEF plusValue, a, b

(* ... subtraction the differences ... *)
LEMMA SubSound ==
  ASSUME NEW v \in Values, NEW w \in Values, ~subAborts(v, w)
  PROVE  /\ subValue(v, w) \in Values
         /\ \A k, l \in Int : In(k, v) /\ In(l, w) => In(k - l, subValue(v, w))
<1> DEFINE a == subIVal(v.lo, w.hi)
           b == subIVal(v.hi, w.lo)
<1>1. /\ a.inf = -1 \/ a.inf = 0
      /\ a.inf = 0 => v.lo.inf = 0 /\ w.hi.inf = 0 /\ a.n = v.lo.n - w.hi.n
      /\ a \in Bounds
  BY ValueType, BoundType DEF subIVal, negateIVal, I, Bounds
<1>2. /\ b.inf = 1 \/ b.inf = 0
      /\ b.inf = 0 => v.hi.inf = 0 /\ w.lo.inf = 0 /\ b.n = v.hi.n - w.lo.n
      /\ b \in Bounds
  BY ValueType, BoundType DEF subIVal, negateIVal, I, Bounds
<1> HIDE DEF a, b
<1>3. leq(a, b)
  BY <1>1, <1>2, ValueBounds, BoundType DEF leq
<1>4. a # PlusInf /\ b # MinusInf
  BY <1>1, <1>2, BoundType
<1>5. InterVal(a, b) \in Values
  BY <1>1, <1>2, <1>3, <1>4, ValueType
<1>6. ASSUME NEW k \in Int, NEW l \in Int, In(k, v), In(l, w)
      PROVE  In(k - l, InterVal(a, b))
  <2>1. k - l \in Int
    OBVIOUS
  <2>2. leq(a, I(k - l)) /\ leq(I(k - l), b)
    BY <1>1, <1>2, <1>6, <2>1, InBounds, ValueType, BoundType DEF leq, I
  <2> QED BY <2>2 DEF In, InterVal
<1> QED BY <1>5, <1>6 DEF subValue, a, b
(* (products of integers are monotone) *)
LEMMA MulMono ==
  ASSUME NEW x \in Int, NEW y \in Int, NEW z \in Int, x <= y
  PROVE  /\ x * z \in Int /\ y * z \in Int
         /\ z >= 0 => x * z <= y * z
         /\ z <= 0 => y * z <= x * z
         /\ x * z = z * x /\ y * z = z * y
OBVIOUS

(* (no interval is empty) *)
LEMMA NonEmpty ==
  ASSUME NEW v \in Values
  PROVE  \E k \in Int : In(k, v)
<1>1. CASE v.lo.inf = 0
  <2>1. In(v.lo.n, v)
    BY <1>1, ValueBounds DEF In, leq, I
  <2> QED BY <2>1, ValueBounds
<1>2. CASE v.hi.inf = 0
  <2>1. In(v.hi.n, v)
    BY <1>2, ValueBounds DEF In, leq, I
  <2> QED BY <2>1, ValueBounds
<1>3. CASE v.lo.inf # 0 /\ v.hi.inf # 0
  <2>1. In(0, v)
    BY <1>3, ValueBounds DEF In, leq, I
  <2> QED BY <2>1
<1> QED BY <1>1, <1>2, <1>3

(* (a product of bounds is a bound) *)
LEMMA MulType ==
  ASSUME NEW a \in Bounds, NEW b \in Bounds
  PROVE  mulIVal(a, b) \in Bounds
<1>1. CASE a.inf = 0 /\ b.inf = 0
  <2>1. a.n * b.n \in Int
    BY BoundType
  <2> QED BY <1>1, <2>1, BoundType DEF mulIVal
<1>2. CASE ~(a.inf = 0 /\ b.inf = 0)
  BY <1>2, BoundType DEF mulIVal
<1> QED BY <1>1, <1>2

(* A product is at least one of the four products of the bounds and at most *)
(* one of them.                                                             *)
LEMMA MulBelow ==
  ASSUME NEW v \in Values, NEW w \in Values, ~mulAborts(v, w),
         NEW k \in Int, NEW l \in Int, In(k, v), In(l, w)
  PROVE  \E a \in {v.lo, v.hi}, b \in {w.lo, w.hi} : leq(mulIVal(a, b), I(k * l))
<1>0. k * l \in Int
  OBVIOUS
<1>1. /\ v.lo.inf = -1 \/ (v.lo.inf = 0 /\ v.lo.n <= k)
      /\ v.hi.inf = 1 \/ (v.hi.inf = 0 /\ k <= v.hi.n)
      /\ w.lo.inf = -1 \/ (w.lo.inf = 0 /\ w.lo.n <= l)
      /\ w.hi.inf = 1 \/ (w.hi.inf = 0 /\ l <= w.hi.n)
      /\ v.lo.n \in Int /\ v.hi.n \in Int /\ w.lo.n \in Int /\ w.hi.n \in Int
  BY InBounds, ValueBounds
<1>2. \A a \in {v.lo, v.hi}, b \in {w.lo, w.hi} :
        (a.inf # 0 => signum(b) # 0) /\ (b.inf # 0 => signum(a) # 0)
  BY DEF mulAborts, mulIValAborts
<1>3. CASE l >= 0
  <2>1. CASE v.lo.inf = -1
    <3>1. signum(w.hi) = 1
      BY <1>1, <1>2, <1>3, <2>1 DEF signum
    <3>2. mulIVal(v.lo, w.hi) = MinusInf
      BY <2>1, <3>1 DEF mulIVal, signum
    <3> QED BY <1>0, <3>2, LeqOrder, BoundType
  <2>2. CASE v.lo.inf = 0 /\ v.lo.n >= 0
    <3>1. CASE w.lo.inf = -1
      <4>1. mulIVal(v.lo, w.lo) = MinusInf
        BY <1>2, <2>2, <3>1, <1>1 DEF mulIVal, signum
      <4> QED BY <1>0, <4>1, LeqOrder, BoundType
    <3>2. CASE w.lo.inf = 0
      <4>1. v.lo.n * l <= k * l
        BY <1>1, <1>3, <2>2, MulMono
      <4>2. v.lo.n * w.lo.n <= v.lo.n * l
        BY <1>1, <2>2, <3>2, MulMono
      <4>3. v.lo.n * w.lo.n <= k * l
        BY <4>1, <4>2, <1>1
      <4> QED BY <2>2, <3>2, <4>3, LeqOrder, <1>1, <1>0 DEF mulIVal, leq, I
    <3> QED BY <3>1, <3>2, <1>1
  <2>3. CASE v.lo.inf = 0 /\ v.lo.n < 0
    <3>1. CASE w.hi.inf = 1
      <4>1. mulIVal(v.lo, w.hi) = MinusInf
        BY <2>3, <3>1, <1>1 DEF mulIVal, signum
      <4> QED BY <1>0, <4>1, LeqOrder, BoundType
    <3>2. CASE w.hi.inf = 0
      <4>1. v.lo.n * l <= k * l
        BY <1>1, <1>3, <2>3, MulMono
      <4>2. v.lo.n * w.hi.n <= v.lo.n * l
        BY <1>1, <2>3, <3>2, MulMono
      <4>3. v.lo.n * w.hi.n <= k * l
        BY <4>1, <4>2, <1>1
      <4> QED BY <2>3, <3>2, <4>3, <1>1, <1>0 DEF mulIVal, leq, I
    <3> QED BY <3>1, <3>2, <1>1
  <2> QED BY <2>1, <2>2, <2>3, <1>1
<1>4. CASE l < 0
  <2>1. CASE v.hi.inf = 1
    <3>1. signum(w.lo) = -1
      BY <1>1, <1>4 DEF signum
    <3>2. mulIVal(v.hi, w.lo) = MinusInf
      BY <2>1, <3>1 DEF mulIVal, signum
    <3> QED BY <1>0, <3>2, LeqOrder, BoundType
  <2>2. CASE v.hi.inf = 0 /\ v.hi.n >= 0
    <3>1. CASE w.lo.inf = -1
      <4>1. mulIVal(v.hi, w.lo) = MinusInf
        BY <1>2, <2>2, <3>1, <1>1 DEF mulIVal, signum
      <4> QED BY <1>0, <4>1, LeqOrder, BoundType
    <3>2. CASE w.lo.inf = 0
      <4>1. v.hi.n * l <= k * l
        BY <1>1, <1>4, <2>2, MulMono
      <4>2. v.hi.n * w.lo.n <= v.hi.n * l
        BY <1>1, <2>2, <3>2, MulMono
      <4>3. v.hi.n * w.lo.n <= k * l
        BY <4>1, <4>2, <1>1
      <4> QED BY <2>2, <3>2, <4>3, <1>1, <1>0 DEF mulIVal, leq, I
    <3> QED BY <3>1, <3>2, <1>1
  <2>3. CASE v.hi.inf = 0 /\ v.hi.n < 0
    <3>1. CASE w.hi.inf = 1
      <4>1. mulIVal(v.hi, w.hi) = MinusInf
        BY <2>3, <3>1, <1>1 DEF mulIVal, signum
      <4> QED BY <1>0, <4>1, LeqOrder, BoundType
    <3>2. CASE w.hi.inf = 0
      <4>1. v.hi.n * l <= k * l
        BY <1>1, <1>4, <2>3, MulMono
      <4>2. v.hi.n * w.hi.n <= v.hi.n * l
        BY <1>1, <2>3, <3>2, MulMono
      <4>3. v.hi.n * w.hi.n <= k * l
        BY <4>1, <4>2, <1>1
      <4> QED BY <2>3, <3>2, <4>3, <1>1, <1>0 DEF mulIVal, leq, I
    <3> QED BY <3>1, <3>2, <1>1
  <2> QED BY <2>1, <2>2, <2>3, <1>1
<1> QED BY <1>3, <1>4
(* (a product of members is below a product of bounds) *)
LEMMA MulAbove ==
  ASSUME NEW v \in Values, NEW w \in Values, ~mulAborts(v, w),
         NEW k \in Int, NEW l \in Int, In(k, v), In(l, w)
  PROVE  \E a \in {v.lo, v.hi}, b \in {w.lo, w.hi} : leq(I(k * l), mulIVal(a, b))
<1>0. k * l \in Int
  OBVIOUS
<1>1. /\ v.lo.inf = -1 \/ (v.lo.inf = 0 /\ v.lo.n <= k)
      /\ v.hi.inf = 1 \/ (v.hi.inf = 0 /\ k <= v.hi.n)
      /\ w.lo.inf = -1 \/ (w.lo.inf = 0 /\ w.lo.n <= l)
      /\ w.hi.inf = 1 \/ (w.hi.inf = 0 /\ l <= w.hi.n)
      /\ v.lo.n \in Int /\ v.hi.n \in Int /\ w.lo.n \in Int /\ w.hi.n \in Int
  BY InBounds, ValueBounds
<1>2. \A a \in {v.lo, v.hi}, b \in {w.lo, w.hi} :
        (a.inf # 0 => signum(b) # 0) /\ (b.inf # 0 => signum(a) # 0)
  BY DEF mulAborts, mulIValAborts
<1>3. CASE l >= 0
  <2>1. CASE v.hi.inf = 1
    <3>1. signum(w.hi) = 1
      BY <1>1, <1>2, <1>3, <2>1 DEF signum
    <3>2. mulIVal(v.hi, w.hi) = PlusInf
      BY <2>1, <3>1 DEF mulIVal, signum
    <3> QED BY <1>0, <3>2, LeqOrder, BoundType
  <2>2. CASE v.hi.inf = 0 /\ v.hi.n >= 0
    <3>1. CASE w.hi.inf = 1
      <4>1. mulIVal(v.hi, w.hi) = PlusInf
        BY <1>2, <2>2, <3>1, <1>1 DEF mulIVal, signum
      <4> QED BY <1>0, <4>1, LeqOrder, BoundType
    <3>2. CASE w.hi.inf = 0
      <4>1. k * l <= v.hi.n * l
        BY <1>1, <1>3, <2>2, MulMono
      <4>2. v.hi.n * l <= v.hi.n * w.hi.n
        BY <1>1, <2>2, <3>2, MulMono
      <4>3. k * l <= v.hi.n * w.hi.n
        BY <4>1, <4>2, <1>1
      <4> QED BY <2>2, <3>2, <4>3, <1>1, <1>0 DEF mulIVal, leq, I
    <3> QED BY <3>1, <3>2, <1>1
  <2>3. CASE v.hi.inf = 0 /\ v.hi.n < 0
    <3>1. CASE w.lo.inf = -1
      <4>1. mulIVal(v.hi, w.lo) = PlusInf
        BY <1>2, <2>3, <3>1, <1>1 DEF mulIVal, signum
      <4> QED BY <1>0, <4>1, LeqOrder, BoundType
    <3>2. CASE w.lo.inf = 0
      <4>1. k * l <= v.hi.n * l
        BY <1>1, <1>3, <2>3, MulMono
      <4>2. v.hi.n * l <= v.hi.n * w.lo.n
        BY <1>1, <2>3, <3>2, MulMono
      <4>3. k * l <= v.hi.n * w.lo.n
        BY <4>1, <4>2, <1>1
      <4> QED BY <2>3, <3>2, <4>3, <1>1, <1>0 DEF mulIVal, leq, I
    <3> QED BY <3>1, <3>2, <1>1
  <2> QED BY <2>1, <2>2, <2>3, <1>1
<1>4. CASE l < 0
  <2>1. CASE v.lo.inf = -1
    <3>1. signum(w.lo) = -1
      BY <1>1, <1>2, <1>4, <2>1 DEF signum
    <3>2. mulIVal(v.lo, w.lo) = PlusInf
      BY <2>1, <3>1 DEF mulIVal, signum
    <3> QED BY <1>0, <3>2, LeqOrder, BoundType
  <2>2. CASE v.lo.inf = 0 /\ v.lo.n >= 0
    <3>1. CASE w.hi.inf = 1
      <4>1. mulIVal(v.lo, w.hi) = PlusInf
        BY <1>2, <2>2, <3>1, <1>1 DEF mulIVal, signum
      <4> QED BY <1>0, <4>1, LeqOrder, BoundType
    <3>2. CASE w.hi.inf = 0
      <4>1. k * l <= v.lo.n * l
        BY <1>1, <1>4, <2>2, MulMono
      <4>2. v.lo.n * l <= v.lo.n * w.hi.n
        BY <1>1, <2>2, <3>2, MulMono
      <4>3. k * l <= v.lo.n * w.hi.n
        BY <4>1, <4>2, <1>1
      <4> QED BY <2>2, <3>2, <4>3, <1>1, <1>0 DEF mulIVal, leq, I
    <3> QED BY <3>1, <3>2, <1>1
  <2>3. CASE v.lo.inf = 0 /\ v.lo.n < 0
    <3>1. CASE w.lo.inf = -1
      <4>1. mulIVal(v.lo, w.lo) = PlusInf
        BY <1>2, <2>3, <3>1, <1>1 DEF mulIVal, signum
      <4> QED BY <1>0, <4>1, LeqOrder, BoundType
    <3>2. CASE w.lo.inf = 0
      <4>1. k * l <= v.lo.n * l
        BY <1>1, <1>4, <2>3, MulMono
      <4>2. v.lo.n * l <= v.lo.n * w.lo.n
        BY <1>1, <2>3, <3>2, MulMono
      <4>3. k * l <= v.lo.n * w.lo.n
        BY <4>1, <4>2, <1>1
      <4> QED BY <2>3, <3>2, <4>3, <1>1, <1>0 DEF mulIVal, leq, I
    <3> QED BY <3>1, <3>2, <1>1
  <2> QED BY <2>1, <2>2, <2>3, <1>1
<1> QED BY <1>3, <1>4

(* ... and multiplication the products. *)
LEMMA MulSound ==
  ASSUME NEW v \in Values, NEW w \in Values, ~mulAborts(v, w)
  PROVE  /\ mulValue(v, w) \in Values
         /\ \A k, l \in Int : In(k, v) /\ In(l, w) => In(k * l, mulValue(v, w))
<1> DEFINE ac == mulIVal(v.lo, w.lo)
           ad == mulIVal(v.lo, w.hi)
           bc == mulIVal(v.hi, w.lo)
           bd == mulIVal(v.hi, w.hi)
           a == min(min(ac, ad), min(bc, bd))
           b == max(max(ac, ad), max(bc, bd))
<1>1. ac \in Bounds /\ ad \in Bounds /\ bc \in Bounds /\ bd \in Bounds
  BY MulType, ValueType
<1> HIDE DEF ac, ad, bc, bd
<1> DEFINE lo1 == min(ac, ad)
           lo2 == min(bc, bd)
           hi1 == max(ac, ad)
           hi2 == max(bc, bd)
<1>2. /\ lo1 \in Bounds /\ leq(lo1, ac) /\ leq(lo1, ad)
      /\ hi1 \in Bounds /\ leq(ac, hi1) /\ leq(ad, hi1)
  BY <1>1, MinMax
<1>2a. /\ lo2 \in Bounds /\ leq(lo2, bc) /\ leq(lo2, bd)
       /\ hi2 \in Bounds /\ leq(bc, hi2) /\ leq(bd, hi2)
  BY <1>1, MinMax
<1> HIDE DEF lo1, lo2, hi1, hi2
<1>2b. /\ min(lo1, lo2) \in Bounds /\ leq(min(lo1, lo2), lo1) /\ leq(min(lo1, lo2), lo2)
       /\ max(hi1, hi2) \in Bounds /\ leq(hi1, max(hi1, hi2)) /\ leq(hi2, max(hi1, hi2))
  BY <1>2, <1>2a, MinMax
<1>2c. a = min(lo1, lo2) /\ b = max(hi1, hi2)
  BY DEF lo1, lo2, hi1, hi2
<1> HIDE DEF a, b
<1>3. a \in Bounds /\ leq(a, ac) /\ leq(a, ad) /\ leq(a, bc) /\ leq(a, bd)
  BY <1>1, <1>2, <1>2a, <1>2b, <1>2c, LeqOrder
<1>4. b \in Bounds /\ leq(ac, b) /\ leq(ad, b) /\ leq(bc, b) /\ leq(bd, b)
  BY <1>1, <1>2, <1>2a, <1>2b, <1>2c, LeqOrder
<1>5. ASSUME NEW k \in Int, NEW l \in Int, In(k, v), In(l, w)
      PROVE  leq(a, I(k * l)) /\ leq(I(k * l), b) /\ I(k * l) \in Bounds
  <2>0. I(k * l) \in Bounds
    BY BoundType
  <2>1. leq(ac, I(k * l)) \/ leq(ad, I(k * l)) \/ leq(bc, I(k * l)) \/ leq(bd, I(k * l))
    BY <1>5, MulBelow DEF ac, ad, bc, bd
  <2>2. leq(I(k * l), ac) \/ leq(I(k * l), ad) \/ leq(I(k * l), bc) \/ leq(I(k * l), bd)
    BY <1>5, MulAbove DEF ac, ad, bc, bd
  <2> QED BY <2>0, <2>1, <2>2, <1>1, <1>3, <1>4, LeqOrder
<1>6. a # PlusInf /\ b # MinusInf /\ leq(a, b)
  <2>1. PICK k \in Int, l \in Int : In(k, v) /\ In(l, w)
    BY NonEmpty
  <2>2. k * l \in Int
    OBVIOUS
  <2>3. leq(a, I(k * l)) /\ leq(I(k * l), b)
    BY <1>5, <2>1
  <2>4. leq(a, b)
    BY <2>2, <2>3, <1>3, <1>4, BoundType, LeqOrder
  <2>5. a # PlusInf /\ b # MinusInf
    BY <2>2, <2>3, BoundType DEF leq, I, PlusInf, MinusInf
  <2> QED BY <2>4, <2>5
<1>7. InterVal(a, b) \in Values
  BY <1>3, <1>4, <1>6, ValueType
<1>8. \A k, l \in Int : In(k, v) /\ In(l, w) => In(k * l, InterVal(a, b))
  BY <1>5 DEF In, InterVal
<1> QED BY <1>7, <1>8 DEF mulValue, a, b, ac, ad, bc, bd
-----------------------------------------------------------------------------
(* Terms and comparisons *)

Stores == [Vars -> Int]

(* The value of a term is an interval ... *)
LEMMA TermType ==
  ASSUME NEW st \in States, NEW t \in Terms
  PROVE  value(st, t) \in Values
<1>1. CASE t.v = NoVar
  BY <1>1, ValueType DEF value, Terms
<1>2. CASE t.v # NoVar
  <2>1. st[t.v] \in Values /\ kVal(t.c) \in Values
    BY <1>2, ValueType DEF Terms, States
  <2> QED BY <1>2, <2>1, PlusSound DEF value
<1> QED BY <1>1, <1>2

(* ... that holds what the term evaluates to. *)
LEMMA TermSound ==
  ASSUME NEW st \in States, NEW t \in Terms, NEW s \in Stores, Has(st, s)
  PROVE  valueOf(s, t) \in Int /\ In(valueOf(s, t), value(st, t))
<1>1. CASE t.v = NoVar
  BY <1>1, InConst DEF value, valueOf, Terms
<1>2. CASE t.v # NoVar
  <2>1. st[t.v] \in Values /\ kVal(t.c) \in Values /\ s[t.v] \in Int /\ t.c \in Int /\ t.v \in Vars
    BY <1>2, ValueType DEF Terms, States, Stores
  <2>2. In(s[t.v], st[t.v]) /\ In(t.c, kVal(t.c))
    BY <2>1, InConst DEF Has
  <2>3. In(s[t.v] + t.c, plusValue(st[t.v], kVal(t.c)))
    BY <2>1, <2>2, PlusSound
  <2> QED BY <1>2, <2>1, <2>3 DEF value, valueOf
<1> QED BY <1>1, <1>2

(* Addition is monotone ... *)
LEMMA PlusMono ==
  ASSUME NEW v \in Values, NEW w \in Values, NEW vv \in Values, NEW ww \in Values,
         leqValue(v, vv), leqValue(w, ww)
  PROVE  leqValue(plusValue(v, w), plusValue(vv, ww))
<1>1. leq(plusIVal(vv.lo, ww.lo), plusIVal(v.lo, w.lo))
  BY ValueType, BoundType, ValueBounds DEF leqValue, leq, plusIVal, I
<1>2. leq(plusIVal(v.hi, w.hi), plusIVal(vv.hi, ww.hi))
  BY ValueType, BoundType, ValueBounds DEF leqValue, leq, plusIVal, I
<1> QED BY <1>1, <1>2 DEF leqValue, plusValue, InterVal

(* ... and so is the value of a term. *)
LEMMA TermMono ==
  ASSUME NEW st \in States, NEW tt \in States, leqState(st, tt), NEW t \in Terms
  PROVE  leqValue(value(st, t), value(tt, t))
<1>1. CASE t.v = NoVar
  BY <1>1, ValueType, LeqValueOrder DEF value, Terms
<1>2. CASE t.v # NoVar
  <2>1. st[t.v] \in Values /\ tt[t.v] \in Values /\ kVal(t.c) \in Values /\ leqValue(st[t.v], tt[t.v])
    BY <1>2, ValueType DEF Terms, States, leqState
  <2> QED BY <1>2, <2>1, PlusMono, LeqValueOrder DEF value
<1> QED BY <1>1, <1>2

(* writing a variable of the state *)
LEMMA WriteState ==
  ASSUME NEW st \in States, NEW x \in Vars, NEW v \in Values
  PROVE  /\ [st EXCEPT ![x] = v] \in States
         /\ \A s \in Stores, k \in Int : Has(st, s) /\ In(k, v) => Has([st EXCEPT ![x] = v], [s EXCEPT ![x] = k])
<1>1. [st EXCEPT ![x] = v] \in States
  BY DEF States
<1>2. ASSUME NEW s \in Stores, NEW k \in Int, Has(st, s), In(k, v), NEW y \in Vars
      PROVE  In([s EXCEPT ![x] = k][y], [st EXCEPT ![x] = v][y])
  <2>1. CASE y = x
    BY <1>2, <2>1 DEF States, Stores
  <2>2. CASE y # x
    BY <1>2, <2>2 DEF States, Stores, Has
  <2> QED BY <2>1, <2>2
<1>3. \A s \in Stores, k \in Int : Has(st, s) /\ In(k, v) => Has([st EXCEPT ![x] = v], [s EXCEPT ![x] = k])
  BY <1>2 DEF Has
<1> QED BY <1>1, <1>3, Zenon

(* narrow keeps the stores that satisfy the condition ... *)
LEMMA NarrowSound ==
  ASSUME NEW st \in States, NEW t \in Terms, NEW v \in Values
  PROVE  /\ narrow(st, t, v) \in States
         /\ \A s \in Stores : Has(st, s) /\ In(valueOf(s, t), v) => Has(narrow(st, t, v), s)
<1>1. CASE addressable(t)
  <2>1. t.v \in Vars
    BY <1>1 DEF addressable, Terms
  <2>2. ASSUME NEW s \in Stores, Has(st, s), In(valueOf(s, t), v)
        PROVE  Has([st EXCEPT ![t.v] = v], s)
    <3>1. valueOf(s, t) = s[t.v] /\ s[t.v] \in Int
      BY <1>1, <2>1 DEF addressable, valueOf, Stores, Terms
    <3>2. s = [s EXCEPT ![t.v] = s[t.v]]
      BY DEF Stores
    <3> QED BY <2>1, <2>2, <3>1, <3>2, WriteState
  <2>3. [st EXCEPT ![t.v] = v] \in States
    BY <2>1, WriteState
  <2> QED BY <1>1, <2>2, <2>3, Zenon DEF narrow
<1>2. CASE ~addressable(t)
  BY <1>2 DEF narrow
<1> QED BY <1>1, <1>2

(* ... and is monotone. *)
LEMMA NarrowMono ==
  ASSUME NEW st \in States, NEW tt \in States, leqState(st, tt), NEW t \in Terms,
         NEW v \in Values, NEW w \in Values, leqValue(v, w)
  PROVE  leqState(narrow(st, t, v), narrow(tt, t, w))
BY DEF narrow, leqState, States, addressable, Terms
(* interval_leq: the values it narrows its operands to, when it is not bottom *)
LEMMA IntervalLeq ==
  ASSUME NEW st \in States, NEW l \in Terms, NEW r \in Terms
  PROVE  LET lv == value(st, l)
             rv == value(st, r)
             a  == InterVal(lv.lo, min(lv.hi, rv.hi))
             b  == InterVal(max(lv.lo, rv.lo), rv.hi)
             p  == interval_leq(st, l, r)
         IN  /\ p.bot \in BOOLEAN /\ (p.bot <=> ~leq(lv.lo, rv.hi))
             /\ p.bot => p.st = st
             /\ ~p.bot => a \in Values /\ b \in Values /\ p.st = narrow(narrow(st, l, a), r, b)
             /\ p.st \in States
<1> DEFINE lv == value(st, l)
           rv == value(st, r)
           a  == InterVal(lv.lo, min(lv.hi, rv.hi))
           b  == InterVal(max(lv.lo, rv.lo), rv.hi)
           p  == interval_leq(st, l, r)
<1>1. p.bot \in BOOLEAN /\ (p.bot <=> ~leq(lv.lo, rv.hi)) /\ (p.bot => p.st = st)
  BY SMTT(30) DEF interval_leq, effect
<1>2. ~p.bot => p.st = narrow(narrow(st, l, a), r, b)
  BY <1>1 DEF interval_leq, effect
<1>3. lv \in Values /\ rv \in Values
  BY TermType
<1> HIDE DEF lv, rv, p
<1>4. ASSUME leq(lv.lo, rv.hi)
      PROVE  a \in Values /\ b \in Values
  <2>1. /\ min(lv.hi, rv.hi) \in {lv.hi, rv.hi} /\ max(lv.lo, rv.lo) \in {lv.lo, rv.lo}
    BY <1>3, ValueType, MinMax
  <2> QED BY <1>3, <1>4, <2>1, ValueType
<1> HIDE DEF a, b
<1>5. p.st \in States
  BY <1>1, <1>2, <1>4, NarrowSound
<1> QED BY <1>1, <1>2, <1>4, <1>5 DEF lv, rv, a, b, p

(* a store of the state that satisfies l <= r is a store of the result *)
LEMMA IntervalLeqSound ==
  ASSUME NEW st \in States, NEW l \in Terms, NEW r \in Terms, NEW s \in Stores, Has(st, s),
         valueOf(s, l) <= valueOf(s, r)
  PROVE  ~interval_leq(st, l, r).bot /\ Has(interval_leq(st, l, r).st, s)
<1> DEFINE lv == value(st, l)
           rv == value(st, r)
           a  == InterVal(lv.lo, min(lv.hi, rv.hi))
           b  == InterVal(max(lv.lo, rv.lo), rv.hi)
           p  == interval_leq(st, l, r)
           i  == valueOf(s, l)
           j  == valueOf(s, r)
<1>1. lv \in Values /\ rv \in Values /\ i \in Int /\ j \in Int /\ In(i, lv) /\ In(j, rv)
  BY TermType, TermSound
<1>2. i <= j
  OBVIOUS
<1>3. /\ p.bot <=> ~leq(lv.lo, rv.hi)
      /\ ~p.bot => a \in Values /\ b \in Values /\ p.st = narrow(narrow(st, l, a), r, b)
  BY IntervalLeq
<1> HIDE DEF lv, rv, p, i, j
<1>4. /\ lv.lo \in Bounds /\ lv.hi \in Bounds /\ rv.lo \in Bounds /\ rv.hi \in Bounds
      /\ I(i) \in Bounds /\ I(j) \in Bounds
      /\ leq(lv.lo, I(i)) /\ leq(I(i), lv.hi) /\ leq(rv.lo, I(j)) /\ leq(I(j), rv.hi) /\ leq(I(i), I(j))
  BY <1>1, <1>2, ValueType, BoundType, LeqOrder DEF In
<1>5. leq(lv.lo, rv.hi) /\ leq(I(i), rv.hi) /\ leq(lv.lo, I(j))
  BY <1>4, LeqOrder
<1>6. ~p.bot
  BY <1>3, <1>5
<1>7. In(i, a) /\ In(j, b)
  BY <1>4, <1>5, MinMax DEF In, InterVal
<1> HIDE DEF a, b
<1>8. Has(narrow(st, l, a), s) /\ narrow(st, l, a) \in States
  BY <1>3, <1>6, <1>7, NarrowSound DEF i
<1>9. Has(narrow(narrow(st, l, a), r, b), s)
  BY <1>3, <1>6, <1>7, <1>8, NarrowSound DEF j
<1> QED BY <1>3, <1>6, <1>9 DEF p

(* interval_leq is monotone. *)
LEMMA IntervalLeqMono ==
  ASSUME NEW st \in States, NEW tt \in States, leqState(st, tt), NEW l \in Terms, NEW r \in Terms,
         ~interval_leq(st, l, r).bot
  PROVE  ~interval_leq(tt, l, r).bot /\ leqState(interval_leq(st, l, r).st, interval_leq(tt, l, r).st)
<1> DEFINE lv == value(st, l)
           rv == value(st, r)
           a  == InterVal(lv.lo, min(lv.hi, rv.hi))
           b  == InterVal(max(lv.lo, rv.lo), rv.hi)
           lw == value(tt, l)
           rw == value(tt, r)
           c  == InterVal(lw.lo, min(lw.hi, rw.hi))
           d  == InterVal(max(lw.lo, rw.lo), rw.hi)
<1>1. lv \in Values /\ rv \in Values /\ lw \in Values /\ rw \in Values /\ leqValue(lv, lw) /\ leqValue(rv, rw)
  BY TermType, TermMono
<1>2. /\ leq(lv.lo, rv.hi)
      /\ a \in Values /\ b \in Values /\ interval_leq(st, l, r).st = narrow(narrow(st, l, a), r, b)
  BY IntervalLeq
<1>3. /\ interval_leq(tt, l, r).bot <=> ~leq(lw.lo, rw.hi)
      /\ ~interval_leq(tt, l, r).bot =>
           c \in Values /\ d \in Values /\ interval_leq(tt, l, r).st = narrow(narrow(tt, l, c), r, d)
  BY IntervalLeq
<1> HIDE DEF lv, rv, lw, rw
<1>4. leq(lw.lo, rw.hi)
  BY <1>1, <1>2, ValueType, LeqOrder DEF leqValue
<1>5. leqValue(a, c) /\ leqValue(b, d)
  <2>1. /\ leq(lw.lo, lv.lo) /\ leq(rw.lo, rv.lo) /\ leq(lv.hi, lw.hi) /\ leq(rv.hi, rw.hi)
    BY <1>1 DEF leqValue
  <2>2. leq(min(lv.hi, rv.hi), min(lw.hi, rw.hi))
    BY <1>1, <2>1, ValueType, LeqOrder DEF min
  <2>3. leq(max(lw.lo, rw.lo), max(lv.lo, rv.lo))
    BY <1>1, <2>1, ValueType, LeqOrder, SMTT(30) DEF max
  <2> QED BY <2>1, <2>2, <2>3 DEF leqValue, InterVal
<1> HIDE DEF a, b, c, d
<1>6. /\ narrow(st, l, a) \in States /\ narrow(tt, l, c) \in States
      /\ leqState(narrow(st, l, a), narrow(tt, l, c))
  BY <1>2, <1>3, <1>4, <1>5, NarrowSound, NarrowMono
<1>7. leqState(narrow(narrow(st, l, a), r, b), narrow(narrow(tt, l, c), r, d))
  BY <1>2, <1>3, <1>4, <1>5, <1>6, NarrowMono
<1> QED BY <1>2, <1>3, <1>4, <1>7

(* The term with a constant added. *)
LEMMA AddTerm ==
  ASSUME NEW t \in Terms, NEW k \in Int
  PROVE  add(t, k) \in Terms /\ \A s \in Stores : valueOf(s, add(t, k)) = valueOf(s, t) + k /\ valueOf(s, t) \in Int
BY DEF add, Terms, valueOf, Stores
(* apply_logic yields a state. *)
LEMMA ApplyType ==
  ASSUME NEW st \in States, NEW op \in Comparisons, NEW l \in Terms, NEW r \in Terms
  PROVE  apply_logic(st, op, l, r).st \in States /\ apply_logic(st, op, l, r).bot \in BOOLEAN
<1>1. /\ add(l, -1) \in Terms /\ add(r, -1) \in Terms /\ add(r, 1) \in Terms
  BY AddTerm
<1>2. \A u \in States, a, b \in Terms : interval_leq(u, a, b).st \in States /\ interval_leq(u, a, b).bot \in BOOLEAN
  BY IntervalLeq
<1>3. CASE op = "=="
  <2>1. interval_leq(st, l, r).st \in States
    BY <1>2
  <2>2. interval_leq(interval_leq(st, l, r).st, r, l).st \in States
    BY <1>2, <2>1
  <2> QED BY <1>3, <2>2, <1>2, <2>1 DEF apply_logic, apply_equal, effect
<1>4. CASE op = "!="
  <2>1. interval_leq(st, l, add(r, -1)).st \in States
    BY <1>1, <1>2
  <2>2. interval_leq(interval_leq(st, l, add(r, -1)).st, r, add(l, -1)).st \in States
    BY <1>1, <1>2, <2>1
  <2> QED BY <1>4, <2>2, <1>2, <2>1, Zenon DEF apply_logic, apply_not_equal, effect
<1>5. CASE op \in {"<", ">", "<=", ">="}
  BY <1>1, <1>2, <1>5 DEF apply_logic, apply_less, apply_greater
<1> QED BY <1>3, <1>4, <1>5 DEF Comparisons

(* The conditions other than != keep every store that satisfies them. *)
LEMMA ApplySound ==
  ASSUME NEW st \in States, NEW op \in Comparisons \ {"!="}, NEW l \in Terms, NEW r \in Terms,
         NEW s \in Stores, Has(st, s), holds(op, valueOf(s, l), valueOf(s, r))
  PROVE  ~apply_logic(st, op, l, r).bot /\ Has(apply_logic(st, op, l, r).st, s)
<1>1. /\ add(r, -1) \in Terms /\ valueOf(s, add(r, -1)) = valueOf(s, r) - 1
      /\ add(r, 1) \in Terms /\ valueOf(s, add(r, 1)) = valueOf(s, r) + 1
      /\ valueOf(s, l) \in Int /\ valueOf(s, r) \in Int
  <2>1. valueOf(s, l) \in Int /\ valueOf(s, r) \in Int
    BY TermSound
  <2>2. add(r, -1) \in Terms /\ valueOf(s, add(r, -1)) = valueOf(s, r) + (-1)
    BY AddTerm
  <2>3. add(r, 1) \in Terms /\ valueOf(s, add(r, 1)) = valueOf(s, r) + 1
    BY AddTerm
  <2> QED BY <2>1, <2>2, <2>3
<1>2. CASE op = "<"
  <2>1. valueOf(s, l) <= valueOf(s, add(r, -1))
    BY <1>1, <1>2 DEF holds
  <2> QED BY <1>1, <1>2, <2>1, IntervalLeqSound DEF apply_logic, apply_less
<1>3. CASE op = ">"
  <2>1. valueOf(s, add(r, 1)) <= valueOf(s, l)
    BY <1>1, <1>3 DEF holds
  <2> QED BY <1>1, <1>3, <2>1, IntervalLeqSound DEF apply_logic, apply_greater
<1>4. CASE op = "<="
  <2>1. valueOf(s, l) <= valueOf(s, r)
    BY <1>1, <1>4 DEF holds
  <2> QED BY <1>4, <2>1, IntervalLeqSound DEF apply_logic
<1>5. CASE op = ">="
  <2>1. valueOf(s, r) <= valueOf(s, l)
    BY <1>1, <1>5 DEF holds
  <2> QED BY <1>5, <2>1, IntervalLeqSound DEF apply_logic
<1>6. CASE op = "=="
  <2>1. valueOf(s, l) <= valueOf(s, r) /\ valueOf(s, r) <= valueOf(s, l)
    BY <1>1, <1>6 DEF holds
  <2> DEFINE p == interval_leq(st, l, r)
             q == interval_leq(p.st, r, l)
  <2>2. ~p.bot /\ Has(p.st, s) /\ p.st \in States
    BY <2>1, IntervalLeqSound, IntervalLeq
  <2>3. ~q.bot /\ Has(q.st, s)
    BY <2>1, <2>2, IntervalLeqSound
  <2> QED BY <1>6, <2>2, <2>3, Zenon DEF apply_logic, apply_equal, effect
<1> QED BY <1>2, <1>3, <1>4, <1>5, <1>6 DEF Comparisons

(* A condition that is not bottom for a state is not for a larger one. *)
LEMMA ApplyMono ==
  ASSUME NEW st \in States, NEW tt \in States, leqState(st, tt), NEW op \in Comparisons,
         NEW l \in Terms, NEW r \in Terms, ~apply_logic(st, op, l, r).bot
  PROVE  ~apply_logic(tt, op, l, r).bot
<1>1. add(l, -1) \in Terms /\ add(r, -1) \in Terms /\ add(r, 1) \in Terms
  BY AddTerm
<1>2. CASE op \in {"<", ">", "<=", ">="}
  BY <1>1, <1>2, IntervalLeqMono DEF apply_logic, apply_less, apply_greater
<1>3. CASE op = "=="
  <2>1. ~interval_leq(st, l, r).bot /\ ~interval_leq(interval_leq(st, l, r).st, r, l).bot
    BY <1>3, Zenon DEF apply_logic, apply_equal, effect
  <2>2. /\ ~interval_leq(tt, l, r).bot
        /\ leqState(interval_leq(st, l, r).st, interval_leq(tt, l, r).st)
        /\ interval_leq(st, l, r).st \in States /\ interval_leq(tt, l, r).st \in States
    BY <2>1, IntervalLeqMono, IntervalLeq
  <2>3. ~interval_leq(interval_leq(tt, l, r).st, r, l).bot
    BY <2>1, <2>2, IntervalLeqMono
  <2> QED BY <1>3, <2>2, <2>3, Zenon DEF apply_logic, apply_equal, effect
<1>4. CASE op = "!="
  <2> DEFINE p  == interval_leq(st, l, add(r, -1))
             pp == interval_leq(tt, l, add(r, -1))
  <2>1. ~(p.bot /\ interval_leq(p.st, r, add(l, -1)).bot)
    BY <1>4, Zenon DEF apply_logic, apply_not_equal, effect
  <2>2. ~pp.bot \/ ~interval_leq(pp.st, r, add(l, -1)).bot
    <3>1. CASE ~p.bot
      BY <1>1, <3>1, IntervalLeqMono
    <3>2. CASE p.bot /\ pp.bot
      <4>1. p.st = st /\ pp.st = tt
        BY <1>1, <3>2, IntervalLeq
      <4> QED BY <1>1, <2>1, <3>2, <4>1, IntervalLeqMono
    <3>3. CASE ~pp.bot
      BY <3>3
    <3> QED BY <3>1, <3>2, <3>3
  <2> QED BY <1>4, <2>2, Zenon DEF apply_logic, apply_not_equal, effect
<1> QED BY <1>2, <1>3, <1>4 DEF Comparisons
-----------------------------------------------------------------------------
(* The transformers *)

(* What an instruction is. *)
LEMMA CodeFacts ==
  ASSUME NEW i \in Codes
  PROVE  /\ i.k \in {"assign", "nondet", "cond", "skip", "lock", "unlock", "init", "error", "exit"}
         /\ i.x \in Vars /\ i.a \in Terms /\ i.b \in Terms
         /\ i.k = "assign" => i.op \in Operations
         /\ i.k = "cond" => i.op \in Comparisons
         /\ i.k = "nondet" => i.a.c \in Int /\ i.b.c \in Int /\ i.a.c <= i.b.c
BY SMTT(30) DEF Codes, Operands, Terms

(* The value that is assigned holds what the assignment computes. *)
LEMMA AssignSound ==
  ASSUME NEW st \in States, NEW i \in Codes, i.k = "assign", ~aborts(st, i)
  PROVE  LET v == operate(i.op, value(st, i.a), value(st, i.b))
         IN  /\ v \in Values
             /\ \A s \in Stores : Has(st, s) =>
                  LET k == computes(i.op, valueOf(s, i.a), valueOf(s, i.b)) IN k \in Int /\ In(k, v)
<1> DEFINE va == value(st, i.a)
           vb == value(st, i.b)
<1>1. va \in Values /\ vb \in Values
  BY CodeFacts, TermType
<1>2. \A s \in Stores : Has(st, s) =>
        /\ valueOf(s, i.a) \in Int /\ In(valueOf(s, i.a), va)
        /\ valueOf(s, i.b) \in Int /\ In(valueOf(s, i.b), vb)
  BY CodeFacts, TermSound
<1>3. (i.op = "-" => ~subAborts(va, vb)) /\ (i.op = "*" => ~mulAborts(va, vb))
  BY SMTT(30) DEF aborts
<1> HIDE DEF va, vb
<1>4. CASE i.op = "+"
  <2>1. operate(i.op, va, vb) = plusValue(va, vb) /\ \A a, b : computes(i.op, a, b) = a + b
    BY <1>4, SMTT(30) DEF operate, computes
  <2> QED BY <1>1, <1>2, <2>1, PlusSound DEF va, vb
<1>5. CASE i.op = "-"
  <2>1. operate(i.op, va, vb) = subValue(va, vb) /\ \A a, b : computes(i.op, a, b) = a - b
    BY <1>5, SMTT(30) DEF operate, computes
  <2> QED BY <1>1, <1>2, <1>3, <1>5, <2>1, SubSound DEF va, vb
<1>6. CASE i.op = "*"
  <2>1. operate(i.op, va, vb) = mulValue(va, vb) /\ \A a, b : computes(i.op, a, b) = a * b
    BY <1>6 DEF operate, computes
  <2>2. \A a, b \in Int : a * b \in Int
    OBVIOUS
  <2> QED BY <1>1, <1>2, <1>3, <1>6, <2>1, <2>2, MulSound DEF va, vb
<1> QED BY <1>4, <1>5, <1>6, CodeFacts DEF Operations

(* The transformer of an edge yields a state. *)
LEMMA TransformerType ==
  ASSUME NEW st \in States, NEW i \in Codes, ~aborts(st, i)
  PROVE  code_transformer(st, i).st \in States /\ code_transformer(st, i).bot \in BOOLEAN
<1>0. zero \in Values /\ one \in Values
  BY ValueType DEF zero, one
<1>1. CASE i.k = "assign"
  BY <1>1, AssignSound, WriteState, CodeFacts, Zenon DEF code_transformer, assign_transformer, effect
<1>2. CASE i.k = "nondet"
  <2>1. InterVal(I(i.a.c), I(i.b.c)) \in Values
    BY <1>2, CodeFacts, ValueType, BoundType, LeqOrder
  <2> QED BY <1>2, <2>1, WriteState, CodeFacts, Zenon DEF code_transformer, nondet_transformer, effect
<1>3. CASE i.k = "cond"
  BY <1>3, ApplyType, CodeFacts DEF code_transformer
<1>4. CASE i.k = "lock"
  BY <1>0, <1>4, WriteState, CodeFacts DEF code_transformer, lock_transformer, effect
<1>5. CASE i.k \in {"unlock", "init"}
  BY <1>0, <1>5, WriteState, CodeFacts, Zenon DEF code_transformer, effect
<1>6. CASE i.k \in {"skip", "error", "exit"}
  BY <1>6, ZenonT(30) DEF code_transformer, effect
<1> QED BY <1>1, <1>2, <1>3, <1>4, <1>5, <1>6, CodeFacts

(* The transformers are sound: whatever store a concrete step leads to from *)
(* a store of the state is a store of its effect (code_transformer_int),    *)
(* for every statement but the condition !=, and as long as the arithmetic  *)
(* of infinite bounds is not stopped by an error call.                      *)
THEOREM TransformerSound ==
  ASSUME NEW st \in States, NEW i \in Codes, ~aborts(st, i), ~(i.k = "cond" /\ i.op = "!="),
         NEW s \in Stores, Has(st, s), NEW t \in Steps(s, i)
  PROVE  ~code_transformer(st, i).bot /\ Has(code_transformer(st, i).st, t)
<1>0. zero \in Values /\ one \in Values /\ In(0, zero) /\ In(1, one)
  BY ValueType, InConst DEF zero, one
<1>n. 0 \in Int /\ 1 \in Int
  BY SMTT(30)
<1>w. \A v \in Values, k \in Int : In(k, v) => Has([st EXCEPT ![i.x] = v], [s EXCEPT ![i.x] = k])
  BY WriteState, CodeFacts
<1>1. CASE i.k = "assign"
  <2> DEFINE v == operate(i.op, value(st, i.a), value(st, i.b))
             k == computes(i.op, valueOf(s, i.a), valueOf(s, i.b))
  <2>1. t = [s EXCEPT ![i.x] = k]
    BY <1>1, SMTT(30) DEF Steps
  <2>2. v \in Values /\ k \in Int /\ In(k, v)
    BY <1>1, AssignSound
  <2> HIDE DEF v, k
  <2>3. Has([st EXCEPT ![i.x] = v], t)
    BY <1>w, <2>1, <2>2, Zenon
  <2> QED BY <1>1, <2>3 DEF code_transformer, assign_transformer, effect, v
<1>2. CASE i.k = "nondet"
  <2>1. PICK k \in i.a.c .. i.b.c : t = [s EXCEPT ![i.x] = k]
    BY <1>2 DEF Steps
  <2>2. k \in Int /\ InterVal(I(i.a.c), I(i.b.c)) \in Values /\ In(k, InterVal(I(i.a.c), I(i.b.c)))
    BY <1>2, CodeFacts, ValueType, BoundType, LeqOrder, InConst
  <2>3. Has([st EXCEPT ![i.x] = InterVal(I(i.a.c), I(i.b.c))], t)
    BY <1>w, <2>1, <2>2, Zenon
  <2> QED BY <1>2, <2>3 DEF code_transformer, nondet_transformer, effect
<1>3. CASE i.k = "cond"
  <2>1. t = s /\ holds(i.op, valueOf(s, i.a), valueOf(s, i.b))
    BY <1>3 DEF Steps
  <2> QED BY <1>3, <2>1, ApplySound, CodeFacts DEF code_transformer
<1>4. CASE i.k = "lock"
  <2>1. s[i.x] # 1 /\ t = [s EXCEPT ![i.x] = 1]
    BY <1>4 DEF Steps
  <2>2. In(s[i.x], st[i.x]) /\ s[i.x] \in Int
    BY CodeFacts DEF Has, Stores
  <2>3. st[i.x] # one
    BY <2>1, <2>2, InConst DEF one
  <2>4. Has([st EXCEPT ![i.x] = one], t)
    BY <1>0, <1>n, <1>w, <2>1, Zenon
  <2> QED BY <1>4, <2>3, <2>4 DEF code_transformer, lock_transformer, effect
<1>5. CASE i.k \in {"unlock", "init"}
  <2>1. t = [s EXCEPT ![i.x] = 0]
    BY <1>5 DEF Steps
  <2>2. Has([st EXCEPT ![i.x] = zero], t)
    BY <1>0, <1>n, <1>w, <2>1, Zenon
  <2> QED BY <1>5, <2>2 DEF code_transformer, effect
<1>6. CASE i.k \in {"skip", "error", "exit"}
  BY <1>6 DEF code_transformer, effect, Steps
<1> QED BY <1>1, <1>2, <1>3, <1>4, <1>5, <1>6, CodeFacts, SMTT(30)

(* A transformer that is not bottom for a state is not for a larger one. *)
LEMMA TransformerMono ==
  ASSUME NEW st \in States, NEW tt \in States, leqState(st, tt), NEW i \in Codes,
         ~code_transformer(st, i).bot
  PROVE  ~code_transformer(tt, i).bot
<1>1. CASE i.k = "cond"
  BY <1>1, ApplyMono, CodeFacts DEF code_transformer
<1>2. CASE i.k = "lock"
  <2>1. st[i.x] # one /\ st[i.x] \in Values /\ tt[i.x] \in Values /\ leqValue(st[i.x], tt[i.x])
    BY <1>2, CodeFacts DEF code_transformer, lock_transformer, effect, States, leqState
  <2>2. ASSUME tt[i.x] = one
        PROVE  st[i.x] = one
    <3> DEFINE v == st[i.x]
    <3>1. leq(I(1), v.lo) /\ leq(v.hi, I(1)) /\ leq(v.lo, v.hi) /\ v.lo \in Bounds /\ v.hi \in Bounds
      BY <2>1, <2>2, ValueType DEF leqValue, one, kVal, InterVal
    <3>2. I(1) \in Bounds
      BY BoundType
    <3>3. v.lo = I(1) /\ v.hi = I(1)
      BY <3>1, <3>2, LeqOrder
    <3> QED BY <2>1, <3>3, ValueType DEF one, kVal
  <2> QED BY <1>2, <2>1, <2>2 DEF code_transformer, lock_transformer, effect
<1>3. CASE i.k \notin {"cond", "lock"}
  BY <1>3, CodeFacts DEF code_transformer, assign_transformer, nondet_transformer, effect
<1> QED BY <1>1, <1>2, <1>3
(* A union of actions is global when one of them is. *)
LEMMA GlobalUnion ==
  ASSUME NEW A, NEW B
  PROVE  isGlobal(A \cup B) <=> isGlobal(A) \/ isGlobal(B)
BY DEF isGlobal

(* Which single actions are global: locks and unlocks. *)
LEMMA LocalActs ==
  /\ \A x : ~isGlobal({<<"rds", x>>, <<"wrs", x>>}) /\ ~isGlobal({<<"rds", x>>}) /\ ~isGlobal({<<"wrs", x>>})
  /\ \A x : ~isGlobal({<<"texit", x>>}) /\ isGlobal({<<"locks", x>>}) /\ isGlobal({<<"unlocks", x>>})
  /\ ~isGlobal({})
BY DEF isGlobal

(* A comparison is a local action. *)
LEMMA IntervalLeqLocal ==
  ASSUME NEW st, NEW l, NEW r
  PROVE  ~isGlobal(interval_leq(st, l, r).act)
<1>1. \A t : ~isGlobal(read_act(t)) /\ ~isGlobal(write_act(t))
  BY LocalActs, Zenon DEF read_act, write_act
<1>2. \/ interval_leq(st, l, r).act = read_act(l) \cup read_act(r)
      \/ interval_leq(st, l, r).act = (read_act(l) \cup read_act(r)) \cup write_act(l) \cup write_act(r)
  BY DEF interval_leq, effect
<1>3. ~isGlobal(read_act(l) \cup read_act(r))
  BY <1>1, GlobalUnion
<1>4. ~isGlobal((read_act(l) \cup read_act(r)) \cup write_act(l))
  BY <1>1, <1>3, GlobalUnion
<1>5. ~isGlobal((read_act(l) \cup read_act(r)) \cup write_act(l) \cup write_act(r))
  BY <1>1, <1>4, GlobalUnion
<1> QED BY <1>2, <1>3, <1>5

(* What is not bottom reports a global action just when it locks or unlocks. *)
LEMMA TransformerGlobal ==
  ASSUME NEW st, NEW i \in Codes, ~code_transformer(st, i).bot
  PROVE  isGlobal(code_transformer(st, i).act) <=> i.k \in {"lock", "unlock"}
<1>1. CASE i.k = "cond"
  <2>1. CASE i.op \in {"<", ">", "<=", ">="}
    BY <1>1, <2>1, IntervalLeqLocal DEF code_transformer, apply_logic, apply_less, apply_greater
  <2>2. CASE i.op = "=="
    BY <1>1, <2>2, IntervalLeqLocal, GlobalUnion DEF code_transformer, apply_logic, apply_equal, effect
  <2>3. CASE i.op = "!="
    BY <1>1, <2>3, IntervalLeqLocal, GlobalUnion DEF code_transformer, apply_logic, apply_not_equal, effect
  <2> QED BY <1>1, <2>1, <2>2, <2>3, CodeFacts DEF Comparisons
<1>2. CASE i.k = "assign"
  <2>1. \A t : ~isGlobal(read_act(t))
    BY LocalActs, Zenon DEF read_act
  <2>2. code_transformer(st, i).act = {<<"rds", i.x>>, <<"wrs", i.x>>} \cup read_act(i.a) \cup read_act(i.b)
    BY <1>2 DEF code_transformer, assign_transformer, effect
  <2>3. ~isGlobal({<<"rds", i.x>>, <<"wrs", i.x>>} \cup read_act(i.a))
    <3> DEFINE W == {<<"rds", i.x>>, <<"wrs", i.x>>}
    <3>1. ~isGlobal(W)
      BY LocalActs, Zenon
    <3> HIDE DEF W
    <3>2. ~isGlobal(W \cup read_act(i.a))
      BY <2>1, <3>1, GlobalUnion
    <3> QED BY <3>2 DEF W
  <2>4. ~isGlobal({<<"rds", i.x>>, <<"wrs", i.x>>} \cup read_act(i.a) \cup read_act(i.b))
    BY <2>1, <2>3, GlobalUnion
  <2> QED BY <1>2, <2>2, <2>4
<1>3. CASE i.k = "lock"
  BY <1>3, LocalActs, Zenon DEF code_transformer, lock_transformer, effect
<1>4. CASE i.k \in {"nondet", "skip", "unlock", "init", "error", "exit"}
  BY <1>4, LocalActs, Zenon DEF code_transformer, nondet_transformer, effect
<1> QED BY <1>1, <1>2, <1>3, <1>4, CodeFacts
=============================================================================
