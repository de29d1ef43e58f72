---------------------- MODULE SharedPeripherals_proof -----------------------
(***************************************************************************)
(* Proofs about the two drivers whose objects share one peripheral of the  *)
(* chip: Adc, whose objects share ADC1, and Pwm, whose objects share TIM4, *)
(* for any number of objects.  The two specifications are independent.  A  *)
(* reading of the ADC is followed from the step that configures its        *)
(* channel to the step that returns it; an output of the PWM is a matter   *)
(* of arithmetic with floats.                                              *)
(***************************************************************************)
EXTENDS Adc, Pwm, TLAPS

-----------------------------------------------------------------------------
(* The ADC. *)

\* Whatever the converter holds or is doing, it has been configured for.
SampledInv ==
  /\ eoc => data # None
  /\ converting => channel # None
  /\ (\E a \in Adcs : initialized[a]) => channel # None

\* A Read() in progress: the channel is its own from the first step on, and
\* so is a sample, if its conversion was started after that.
ReadInv ==
  /\ pc # "idle" => initialized[reader]
  /\ pc \in {"configure", "start"} => ~fresh
  /\ pc \in {"start", "poll", "stop"} => channel = reader
  /\ pc = "poll" /\ fresh /\ eoc => data = reader

Inv ==
  /\ TypeOK
  /\ SampledInv
  /\ ReadInv
  /\ FreshReadingIsOwn
  /\ ConvertingIsKnown

\* HAL calls return an error or none.
LEMMA HalOkType == HalOk \subseteq BOOLEAN
  BY DEF HalOk

\* The invariant holds initially: nothing is sampled, nothing is read.
LEMMA InitInv == Init => Inv
<1> SUFFICES ASSUME Init
             PROVE  Inv
  OBVIOUS
<1> USE AdcAssumption DEF Init, NoReading, Channels
<1>1. TypeOK
  BY DEF TypeOK
<1>2. SampledInv /\ ReadInv
  BY DEF SampledInv, ReadInv
<1>3. FreshReadingIsOwn /\ ConvertingIsKnown
  BY DEF FreshReadingIsOwn, ConvertingIsKnown
<1> QED
  BY <1>1, <1>2, <1>3 DEF Inv

\* Every step preserves the invariant.
LEMMA NextInv == Inv /\ [Next]_vars => Inv'
<1> SUFFICES ASSUME Inv, [Next]_vars
             PROVE  Inv'
  OBVIOUS
<1> USE AdcAssumption, HalOkType
    DEF Inv, TypeOK, SampledInv, ReadInv, FreshReadingIsOwn, ConvertingIsKnown, Channels
<1>1. ASSUME NEW a \in Adcs, Initialize(a)
      PROVE  Inv'
  BY <1>1 DEF Initialize, Own
<1>2. ASSUME NEW a \in Adcs, Start(a)
      PROVE  Inv'
  BY <1>2 DEF Start, Starts, HalStart, Own
<1>3. ASSUME NEW a \in Adcs, Stop(a)
      PROVE  Inv'
  BY <1>3 DEF Stop, Stops, ActiveAfterStop, Own
<1>4. ASSUME NEW a \in Adcs, Read(a)
      PROVE  Inv'
  BY <1>4 DEF Read, adc1, Own
<1>5. CASE ReadConfigures
  BY <1>5 DEF ReadConfigures, ChannelOf, Own
<1>6. CASE ReadFails
  BY <1>6 DEF ReadFails, NoReading, adc1, Own
<1>7. CASE ReadStarts
  BY <1>7 DEF ReadStarts, Starts, HalStart, Own
<1>8. CASE ReadPolls
  BY <1>8 DEF ReadPolls, NoError, Own
<1>9. CASE ReadReturns
  BY <1>9 DEF ReadReturns, Stops, ActiveAfterStop, Own
<1>10. CASE Convert
  BY <1>10 DEF Convert, Own
<1>11. CASE UNCHANGED vars
  BY <1>11 DEF vars, Own
<1> QED
  BY <1>1, <1>2, <1>3, <1>4, <1>5, <1>6, <1>7, <1>8, <1>9, <1>10, <1>11 DEF Next, Thread

\* The invariant holds in every reachable state.
THEOREM Invariance == Spec => []Inv
  BY InitInv, NextInv, PTL DEF Spec

\* The state keeps its types, and a value without an error is a sample.
THEOREM TypeCorrect == Spec => []TypeOK
<1>1. Inv => TypeOK
  BY DEF Inv
<1> QED
  BY <1>1, Invariance, PTL

\* A Read() that starts its own conversion never returns another channel's.
THEOREM FreshReadingsAreOwn == Spec => []FreshReadingIsOwn
<1>1. Inv => FreshReadingIsOwn
  BY DEF Inv
<1> QED
  BY <1>1, Invariance, PTL

\* The converter never runs without some object that would still stop it.
THEOREM ConversionsAreKnown == Spec => []ConvertingIsKnown
<1>1. Inv => ConvertingIsKnown
  BY DEF Inv
<1> QED
  BY <1>1, Invariance, PTL
-----------------------------------------------------------------------------
(* The arithmetic of the PWM. *)

\* Division by one number keeps the order.
LEMMA DivMonotone ==
  ASSUME NEW a \in Nat, NEW b \in Nat, NEW d \in Nat \ {0}, a <= b
  PROVE  a \div d <= b \div d /\ a \div d \in Nat
OBVIOUS

\* It is exact for multiples.
LEMMA DivExact ==
  ASSUME NEW m \in Nat, NEW d \in Nat \ {0}
  PROVE  (m * d) \div d = m /\ (m * d) % d = 0
OBVIOUS

\* Factors keep an inequality.
LEMMA Factor == ASSUME NEW a \in Nat, NEW b \in Nat, NEW c \in Nat, a <= b
                PROVE  a * c <= b * c /\ c * a <= c * b
OBVIOUS

\* A quotient, times its divisor, is no more than the dividend.
LEMMA QuotientBelow == ASSUME NEW a \in Nat, NEW d \in Nat \ {0}
                       PROVE  /\ a \div d \in Nat
                              /\ (a \div d) * d <= a
                              /\ a < (a \div d + 1) * d
                              /\ a \div d <= a
OBVIOUS

\* Numbers in range have a distance of the floats around them.
LEMMA UlpIs ==
  ASSUME NEW n \in Nat, NEW d \in Nat \ {0}, InRange(n, d)
  PROVE  /\ Ulp(n \div d) \in Ulps /\ Ulp(n \div d) \in Nat \ {0}
         /\ n < 2 * Lowest * Ulp(n \div d) * d
         /\ Ulp(n \div d) = 1 \/ Lowest * Ulp(n \div d) * d <= n
<1> DEFINE q == n \div d
           u == Ulp(q)
<1>1. q \in Nat /\ q * d <= n /\ n < (q + 1) * d
  BY QuotientBelow
<1>2. \E v \in Ulps : IsUlp(v, q)
  BY <1>1, FloatAssumption DEF InRange
<1>3. u \in Ulps /\ IsUlp(u, q)
  BY <1>2 DEF Ulp
<1>4. u \in Nat \ {0} /\ Lowest \in Nat
  BY <1>3, FloatAssumption
<1> HIDE DEF q, u
<1> DEFINE low == Lowest * u
<1>5. low \in Nat /\ 2 * Lowest * u = 2 * low
  BY <1>4
<1>6. q < 2 * low /\ (u = 1 \/ low <= q)
  BY <1>3, <1>5 DEF IsUlp
<1> HIDE DEF low
<1>7. (q + 1) * d <= (2 * low) * d
  BY <1>1, <1>5, <1>6, Factor
<1>8. n < (2 * low) * d
  <2>1. (q + 1) * d \in Nat /\ (2 * low) * d \in Nat
    BY <1>1, <1>5
  <2> QED
    BY <1>1, <1>7, <2>1
<1>9. u = 1 \/ low * d <= n
  <2>1. ASSUME low <= q PROVE low * d <= n
    <3>1. low * d <= q * d
      BY <1>1, <1>5, <2>1, Factor
    <3>2. low * d \in Nat /\ q * d \in Nat
      BY <1>1, <1>5
    <3> QED
      BY <1>1, <3>1, <3>2
  <2> QED
    BY <1>6, <2>1
<1> QED
  BY <1>3, <1>4, <1>5, <1>8, <1>9 DEF u, q, low

\* The nearest integer is off by at most one half.
LEMMA NearestIs ==
  ASSUME NEW n \in Nat, NEW w \in Nat \ {0}
  PROVE  LET k == Nearest(n, w)
         IN  /\ k \in Nat /\ (k = n \div w \/ k = n \div w + 1)
             /\ 2 * (k * w) <= 2 * n + w /\ 2 * n <= 2 * (k * w) + w
<1> DEFINE m == n \div w
           rest == n % w
           k == Nearest(n, w)
<1>1. m \in Nat /\ rest \in Nat /\ rest < w /\ n = m * w + rest
  OBVIOUS
<1>2. /\ k = m \/ k = m + 1
      /\ k = m => 2 * rest <= w
      /\ k = m + 1 => 2 * rest >= w
  BY <1>1 DEF Nearest
<1> HIDE DEF m, rest, k
<1> DEFINE Close == 2 * (k * w) <= 2 * n + w /\ 2 * n <= 2 * (k * w) + w
<1>3. ASSUME k = m PROVE Close
  BY <1>1, <1>2, <1>3
<1>4. ASSUME k = m + 1 PROVE Close
  <2>1. k * w = m * w + w /\ m * w \in Nat
    BY <1>1, <1>4
  <2> QED
    BY <1>1, <1>2, <1>4, <2>1
<1>5. /\ k \in Nat /\ (k = m \/ k = m + 1)
      /\ 2 * (k * w) <= 2 * n + w /\ 2 * n <= 2 * (k * w) + w
  BY <1>1, <1>2, <1>3, <1>4
<1> QED
  BY <1>5 DEF k, m

\* A rounded number is off by at most half of that distance.
LEMMA RoundedIs ==
  ASSUME NEW n \in Nat, NEW d \in Nat \ {0}, InRange(n, d)
  PROVE  LET u == Ulp(n \div d)
             k == Nearest(n, u * d)
         IN  /\ Rounded(n, d) = k * u /\ Rounded(n, d) \in Nat
             /\ k \in Nat /\ k <= 2 * Lowest
             /\ 2 * (Rounded(n, d) * d) <= 2 * n + u * d
             /\ 2 * n <= 2 * (Rounded(n, d) * d) + u * d
<1> DEFINE u == Ulp(n \div d)
           w == u * d
           m == n \div w
           k == Nearest(n, w)
           top == 2 * Lowest
<1>1. u \in Nat \ {0} /\ n < top * u * d /\ top \in Nat
  BY UlpIs, FloatAssumption
<1>2. Rounded(n, d) = u * k
  BY DEF Rounded
<1> HIDE DEF u, top
<1>3. w \in Nat \ {0} /\ top * u * d = top * w
  BY <1>1
<1>4. /\ k \in Nat /\ (k = m \/ k = m + 1)
      /\ 2 * (k * w) <= 2 * n + w /\ 2 * n <= 2 * (k * w) + w
  BY <1>3, NearestIs
<1>5. m \in Nat /\ m < top
  <2>1. m \in Nat /\ m * w <= n
    BY <1>3, QuotientBelow
  <2> HIDE DEF w, m
  <2>2. m * w < top * w
    BY <1>1, <1>3, <2>1
  <2>3. \A a, b \in Nat : \A c \in Nat \ {0} : a * c < b * c => a < b
    OBVIOUS
  <2> QED
    BY <1>1, <1>3, <2>1, <2>2, <2>3
<1> HIDE DEF w, m, k
<1>6. k <= top
  BY <1>1, <1>4, <1>5
<1>7. u * k = k * u /\ u * k \in Nat /\ (u * k) * d = k * w
  BY <1>1, <1>4 DEF w
<1> QED
  BY <1>2, <1>4, <1>6, <1>7 DEF u, w, k, top

\* A larger number has a nearest integer that is no smaller.
LEMMA NearestMonotone ==
  ASSUME NEW n \in Nat, NEW k \in Nat, NEW w \in Nat \ {0}, n <= k
  PROVE  Nearest(n, w) <= Nearest(k, w)
<1> DEFINE m == n \div w
           l == k \div w
           p == n % w
           r == k % w
<1>1. /\ m \in Nat /\ p \in Nat /\ p < w /\ n = m * w + p
      /\ l \in Nat /\ r \in Nat /\ r < w /\ k = l * w + r
  OBVIOUS
<1>2. m <= l
  BY DivMonotone
<1>3. /\ Nearest(n, w) = IF 2 * p < w \/ (2 * p = w /\ m % 2 = 0) THEN m ELSE m + 1
      /\ Nearest(k, w) = IF 2 * r < w \/ (2 * r = w /\ l % 2 = 0) THEN l ELSE l + 1
  BY DEF Nearest
<1> HIDE DEF m, l, p, r
<1>4. CASE m < l
  BY <1>1, <1>3, <1>4
<1>5. CASE m = l
  <2>1. p <= r
    BY <1>1, <1>5
  <2> QED
    BY <1>1, <1>3, <1>5, <2>1
<1> QED
  BY <1>1, <1>2, <1>4, <1>5

\* A multiple is not rounded.
LEMMA NearestExact ==
  ASSUME NEW m \in Nat, NEW w \in Nat \ {0}
  PROVE  Nearest(m * w, w) = m
<1>1. (m * w) \div w = m /\ (m * w) % w = 0
  BY DivExact
<1> QED
  BY <1>1 DEF Nearest

\* Of two distances the larger is at least twice the smaller.
LEMMA Doubled ==
  ASSUME NEW u \in Ulps, NEW v \in Ulps, u < v
  PROVE  2 * u <= v /\ u \in Nat \ {0} /\ v \in Nat \ {0}
<1>1. u \in Nat \ {0} /\ v \in Nat \ {0} /\ v % u = 0
  BY FloatAssumption
<1>2. v = (v \div u) * u /\ v \div u \in Nat
  BY <1>1
<1> DEFINE q == v \div u
<1> HIDE DEF q
<1>3. q # 0 /\ q # 1
  BY <1>1, <1>2 DEF q
<1>4. 2 * u <= q * u
  BY <1>1, <1>2, <1>3, Factor DEF q
<1> QED
  BY <1>1, <1>2, <1>4 DEF q

\* A number that is no larger is not rounded to a larger float.
LEMMA RoundedMonotone ==
  ASSUME NEW n \in Nat, NEW k \in Nat, NEW d \in Nat \ {0}, n <= k, InRange(k, d)
  PROVE  InRange(n, d) /\ Rounded(n, d) <= Rounded(k, d)
<1> DEFINE u == Ulp(n \div d)
           v == Ulp(k \div d)
<1>1. n \div d <= k \div d /\ n \div d \in Nat /\ k \div d \in Nat
  BY DivMonotone
<1>2. InRange(n, d)
  BY <1>1, FloatAssumption DEF InRange
<1>3. /\ u \in Ulps /\ u \in Nat \ {0} /\ n < 2 * Lowest * u * d /\ (u = 1 \/ Lowest * u * d <= n)
      /\ v \in Ulps /\ v \in Nat \ {0} /\ k < 2 * Lowest * v * d /\ (v = 1 \/ Lowest * v * d <= k)
      /\ Lowest \in Nat \ {0}
  BY <1>2, UlpIs, FloatAssumption
<1> DEFINE x == Nearest(n, u * d)
           y == Nearest(k, v * d)
<1>4. /\ Rounded(n, d) = x * u /\ x \in Nat /\ x <= 2 * Lowest
      /\ Rounded(k, d) = y * v /\ y \in Nat
  BY <1>2, RoundedIs
<1> HIDE DEF u, v
<1>5. u * d \in Nat \ {0} /\ v * d \in Nat \ {0}
  BY <1>3
<1>6. u <= v
  <2> SUFFICES ASSUME v < u PROVE FALSE
    BY <1>3
  <2>1. 2 * v <= u
    BY <1>3, Doubled
  <2>2. Lowest * u * d <= n
    BY <1>3
  <2> DEFINE a == Lowest * d
  <2>3. a \in Nat /\ Lowest * u * d = a * u /\ 2 * Lowest * v * d = a * (2 * v)
    BY <1>3
  <2>4. a * (2 * v) <= a * u
    BY <1>3, <2>1, <2>3, Factor
  <2> HIDE DEF a
  <2>5. a * u \in Nat /\ a * (2 * v) \in Nat
    BY <1>3, <2>3
  <2> QED
    BY <1>3, <2>2, <2>3, <2>4, <2>5
<1>7. CASE u = v
  <2>1. x <= y
    BY <1>5, <1>7, NearestMonotone
  <2> HIDE DEF x, y
  <2>2. x * u <= y * u
    BY <1>3, <1>4, <2>1, Factor
  <2> QED
    BY <1>2, <1>4, <1>7, <2>2
<1>8. CASE u < v
  <2>1. 2 * u <= v /\ Lowest * v * d <= k
    BY <1>3, <1>8, Doubled
  <2>2. Lowest <= y
    <3>1. Lowest * (v * d) <= k /\ Lowest * (v * d) \in Nat
      BY <1>3, <2>1
    <3>2. Nearest(Lowest * (v * d), v * d) = Lowest
      BY <1>3, <1>5, NearestExact
    <3>3. Nearest(Lowest * (v * d), v * d) <= y
      BY <1>5, <3>1, NearestMonotone
    <3> QED
      BY <3>2, <3>3
  <2> HIDE DEF x, y
  <2>3. x * u <= (2 * Lowest) * u /\ Lowest * (2 * u) <= Lowest * v /\ Lowest * v <= y * v
    BY <1>3, <1>4, <2>1, <2>2, Factor
  <2>4. (2 * Lowest) * u = Lowest * (2 * u) /\ x * u \in Nat /\ Lowest * (2 * u) \in Nat
        /\ Lowest * v \in Nat /\ y * v \in Nat
    BY <1>3, <1>4
  <2> QED
    BY <1>2, <1>4, <2>3, <2>4
<1> QED
  BY <1>3, <1>6, <1>7, <1>8

\* A float is not rounded.
LEMMA RoundedExact ==
  ASSUME NEW x \in Nat, NEW d \in Nat \ {0}, InRange(x, 1), x % Ulp(x) = 0
  PROVE  Rounded(x * d, d) = x
<1> DEFINE u == Ulp(x)
<1>1. (x * d) \div d = x /\ x \div 1 = x
  BY DivExact
<1>2. u \in Nat \ {0}
  BY <1>1, UlpIs
<1>3. Rounded(x * d, d) = u * Nearest(x * d, u * d)
  BY <1>1 DEF Rounded
<1> DEFINE m == x \div u
<1>4. m \in Nat /\ x = m * u
  BY <1>2
<1> HIDE DEF u, m
<1>5. x * d = m * (u * d) /\ u * d \in Nat \ {0}
  BY <1>2, <1>4
<1>6. Nearest(x * d, u * d) = m
  BY <1>4, <1>5, NearestExact
<1> QED
  BY <1>2, <1>3, <1>4, <1>6

\* Small multiples of a distance are floats.
LEMMA MultipleIsFloat ==
  ASSUME NEW m \in Nat, NEW v \in Ulps, m < 2 * Lowest, InRange(m * v, 1)
  PROVE  (m * v) % Ulp(m * v) = 0
<1> DEFINE x == m * v
           u == Ulp(x)
<1>1. v \in Nat \ {0} /\ Lowest \in Nat \ {0} /\ x \in Nat /\ x \div 1 = x
  BY FloatAssumption
<1>2. u \in Ulps /\ u \in Nat \ {0} /\ (u = 1 \/ Lowest * u <= x)
  <2>1. u \in Ulps /\ u \in Nat \ {0} /\ (u = 1 \/ Lowest * u * 1 <= x)
    BY <1>1, UlpIs
  <2> HIDE DEF u, x
  <2> QED
    BY <1>1, <2>1
<1> HIDE DEF u
<1>3. CASE u = 1
  BY <1>1, <1>3 DEF u
<1>4. CASE Lowest * u <= x
  <2>1. ~(v < u)
    <3> SUFFICES ASSUME v < u PROVE FALSE
      OBVIOUS
    <3>1. 2 * v <= u
      BY <1>2, Doubled
    <3>2. Lowest * (2 * v) <= Lowest * u /\ (m + 1) * v <= (2 * Lowest) * v
      BY <1>1, <1>2, <3>1, Factor
    <3>3. (m + 1) * v = m * v + v /\ (2 * Lowest) * v = Lowest * (2 * v)
      BY <1>1
    <3>4. Lowest * u \in Nat /\ Lowest * (2 * v) \in Nat
      BY <1>1, <1>2
    <3> QED
      BY <1>1, <1>4, <3>2, <3>3, <3>4
  <2>2. v % u = 0
    BY <1>1, <1>2, <2>1, FloatAssumption
  <2> DEFINE k == v \div u
  <2>3. k \in Nat /\ v = k * u
    BY <1>1, <1>2, <2>2
  <2> HIDE DEF k
  <2>4. x = (m * k) * u /\ m * k \in Nat
    BY <1>1, <1>2, <2>3
  <2>5. x % u = 0
    BY <1>2, <2>4, DivExact
  <2> QED
    BY <2>5 DEF u, x
<1> QED
  BY <1>2, <1>3, <1>4

\* What rounding returns is a float.
LEMMA RoundedIsFloat ==
  ASSUME NEW n \in Nat, NEW d \in Nat \ {0}, InRange(n, d), InRange(Rounded(n, d), 1)
  PROVE  Rounded(n, d) \in Nat /\ Rounded(n, d) % Ulp(Rounded(n, d)) = 0
<1> DEFINE u == Ulp(n \div d)
           m == Nearest(n, u * d)
           x == Rounded(n, d)
           w == Ulp(x)
<1>1. u \in Ulps /\ u \in Nat \ {0} /\ Lowest \in Nat \ {0}
  BY UlpIs, FloatAssumption
<1>2. x = m * u /\ m \in Nat /\ m <= 2 * Lowest
  BY RoundedIs
<1>3. InRange(x, 1)
  OBVIOUS
<1> HIDE DEF u, m, x
<1>4. x \in Nat /\ x \div 1 = x
  BY <1>1, <1>2
<1>5. CASE m < 2 * Lowest
  BY <1>1, <1>2, <1>3, <1>4, <1>5, MultipleIsFloat DEF x
<1>6. CASE m = 2 * Lowest
  <2>1. /\ w \in Ulps /\ w \in Nat \ {0} /\ x < 2 * Lowest * w * 1
        /\ w = 1 \/ Lowest * w * 1 <= x
    BY <1>3, <1>4, UlpIs
  <2> HIDE DEF w
  <2>2. x = Lowest * (2 * u) /\ 2 * Lowest * w * 1 = 2 * (Lowest * w) /\ Lowest * w * 1 = Lowest * w
    BY <1>1, <1>2, <1>6, <2>1
  <2>3. u < w
    <3> SUFFICES ASSUME w <= u PROVE FALSE
      BY <1>1, <2>1
    <3>1. Lowest * (2 * w) <= Lowest * (2 * u)
      BY <1>1, <2>1, Factor
    <3>2. Lowest * (2 * w) = 2 * (Lowest * w) /\ Lowest * w \in Nat
      BY <1>1, <2>1
    <3> QED
      BY <1>4, <2>1, <2>2, <3>1, <3>2
  <2>4. 2 * u <= w
    BY <1>1, <2>1, <2>3, Doubled
  <2>5. w = 2 * u
    <3>1. w # 1
      BY <1>1, <2>4
    <3>2. Lowest * w <= Lowest * (2 * u)
      BY <2>1, <2>2, <3>1
    <3>3. \A a \in Nat \ {0} : \A b, c \in Nat : a * b <= a * c => b <= c
      OBVIOUS
    <3> QED
      BY <1>1, <2>1, <2>4, <3>2, <3>3
  <2>6. x % w = 0
    BY <1>1, <2>1, <2>2, <2>5, DivExact
  <2> QED
    BY <1>4, <2>6 DEF w, x
<1> QED
  BY <1>1, <1>2, <1>5, <1>6

\* Zero is not rounded.
LEMMA RoundedZero == ASSUME NEW d \in Nat \ {0} PROVE Rounded(0, d) = 0 /\ InRange(0, d)
<1>1. Unit \in Ulps /\ Unit \in Nat /\ Lowest \in Nat \ {0} /\ Largest \in Nat
  BY FloatAssumption
<1>2. 0 \div 1 = 0 /\ 0 \div d = 0 /\ 0 * Unit = 0 /\ 0 * d = 0
  BY <1>1
<1>3. InRange(0, 1) /\ InRange(0, d)
  BY <1>1, <1>2 DEF InRange
<1>4. 0 % Ulp(0) = 0
  BY <1>1, <1>2, <1>3, MultipleIsFloat
<1> QED
  BY <1>2, <1>3, <1>4, RoundedExact

\* A small integer is converted to itself.
LEMMA WholeIsFloat ==
  ASSUME NEW m \in Nat, m < 2 * Lowest, InRange(m * Unit, 1)
  PROVE  /\ Float(m) = m * Unit /\ m * Unit \in Nat
         /\ \A d \in Nat \ {0} : Rounded((m * Unit) * d, d) = m * Unit
<1> DEFINE x == m * Unit
<1>1. Unit \in Ulps /\ Unit \in Nat /\ x \in Nat /\ x * 1 = x
  BY FloatAssumption
<1>2. x % Ulp(x) = 0
  BY <1>1, MultipleIsFloat
<1>3. InRange(x, 1)
  OBVIOUS
<1> HIDE DEF x
<1>4. \A d \in Nat \ {0} : Rounded(x * d, d) = x
  BY <1>1, <1>2, <1>3, RoundedExact
<1>5. Rounded(x, 1) = x
  BY <1>1, <1>4
<1> QED
  BY <1>1, <1>4, <1>5 DEF Float, x

\* The product with a float of at least as much is at least as much.
LEMMA ProductMonotone ==
  ASSUME NEW x \in Nat, NEW y \in Nat, NEW z \in Nat, y <= z, InRange(x * z, Unit)
  PROVE  /\ Truncated(Product(x, y)) \in Nat /\ Truncated(Product(x, z)) \in Nat
         /\ Truncated(Product(x, y)) <= Truncated(Product(x, z))
<1>1. Unit \in Nat \ {0}
  BY FloatAssumption
<1> DEFINE a == x * y
           b == x * z
<1>2. a \in Nat /\ b \in Nat /\ a <= b
  BY Factor
<1>3. InRange(b, Unit)
  OBVIOUS
<1>4. Product(x, y) = Rounded(a, Unit) /\ Product(x, z) = Rounded(b, Unit)
  BY DEF Product
<1> HIDE DEF a, b
<1>5. InRange(a, Unit) /\ Rounded(a, Unit) <= Rounded(b, Unit)
  BY <1>1, <1>2, <1>3, RoundedMonotone
<1>6. Rounded(a, Unit) \in Nat /\ Rounded(b, Unit) \in Nat
  BY <1>1, <1>2, <1>3, <1>5, RoundedIs
<1> QED
  BY <1>1, <1>4, <1>5, <1>6, DivMonotone DEF Truncated

\* The period and the ends of the range of duty cycles.
LEMMA Ends ==
  ASSUME NEW c \in Configs
  PROVE  /\ TimerPeriod(c) \in Nat
         /\ MinCcr(c) \in Nat /\ MaxCcr(c) \in Nat /\ MinCcr(c) <= MaxCcr(c)
         /\ Fits(c) => MaxCcr(c) <= TimerPeriod(c) /\ TimerPeriod(c) < HalfWord
<1>1. /\ c.frequency_hz \in Nat \ {0} /\ SystemCoreClock \in Nat
      /\ c.frequency_hz < SystemCoreClock
      /\ c.min_duty_cycle \in 0..Unit /\ c.max_duty_cycle \in 0..Unit
      /\ c.min_duty_cycle <= c.max_duty_cycle
      /\ HalfWord \in Nat /\ HalfWord <= 2 * Lowest /\ Unit \in Nat \ {0} /\ Lowest \in Nat
  BY PwmAssumption, FloatAssumption DEF PWMConfig
<1>2. InRange(TimerPeriod(c) * Unit, 1) /\ InRange(PeriodF(c) * c.max_duty_cycle, Unit)
  BY RangeAssumption
<1>3. TimerPeriod(c) \in Nat
  <2>1. \A d \in Nat \ {0} : \A a \in Nat : d < a => a \div d \in Nat \ {0}
    OBVIOUS
  <2> QED
    BY <1>1, <2>1 DEF TimerPeriod
<1>4. PeriodF(c) \in Nat
  <2>1. TimerPeriod(c) * Unit \in Nat
    BY <1>1, <1>3
  <2> QED
    BY <1>2, <2>1, RoundedIs DEF PeriodF, Float
<1>5. MinCcr(c) \in Nat /\ MaxCcr(c) \in Nat /\ MinCcr(c) <= MaxCcr(c)
  BY <1>1, <1>2, <1>4, ProductMonotone DEF MinCcr, MaxCcr
<1>6. ASSUME Fits(c) PROVE MaxCcr(c) <= TimerPeriod(c) /\ TimerPeriod(c) < HalfWord
  <2>1. TimerPeriod(c) < HalfWord
    BY <1>6 DEF Fits
  <2>2. /\ PeriodF(c) = TimerPeriod(c) * Unit
        /\ Rounded(PeriodF(c) * Unit, Unit) = PeriodF(c)
    <3>1. TimerPeriod(c) < 2 * Lowest
      BY <1>1, <1>3, <2>1
    <3> QED
      BY <1>1, <1>2, <1>3, <3>1, WholeIsFloat DEF PeriodF
  <2>3. Truncated(Product(PeriodF(c), Unit)) = TimerPeriod(c)
    BY <1>1, <1>3, <2>2, DivExact DEF Truncated, Product
  <2>4. InRange(PeriodF(c) * Unit, Unit)
    <3>1. (PeriodF(c) * Unit) \div Unit = PeriodF(c)
      BY <1>1, <1>4, DivExact
    <3>2. PeriodF(c) \div 1 = PeriodF(c)
      BY <1>4
    <3> QED
      BY <1>2, <2>2, <3>1, <3>2 DEF InRange
  <2>5. c.max_duty_cycle \in Nat /\ c.max_duty_cycle <= Unit
    BY <1>1
  <2>6. MaxCcr(c) <= Truncated(Product(PeriodF(c), Unit))
    BY <1>1, <1>4, <2>4, <2>5, ProductMonotone DEF MaxCcr
  <2> QED
    BY <2>1, <2>3, <2>6
<1> QED
  BY <1>3, <1>5, <1>6

\* The range of the outputs, and what of it lies below a value.
Width(c) == c.max_output_value - c.min_output_value
Above(c, v) == Clamp(c, v) - c.min_output_value
AboveF(c, v) == Difference(Clamp(c, v), c.min_output_value)

\* A value is clamped to the range, and clamping keeps the order.
LEMMA Clamped ==
  ASSUME NEW c \in Configs, NEW v \in Int
  PROVE  /\ Width(c) \in Nat \ {0}
         /\ Above(c, v) \in Nat /\ Above(c, v) <= Width(c)
         /\ v <= c.min_output_value => Above(c, v) = 0
         /\ v >= c.max_output_value => Above(c, v) = Width(c)
         /\ \A w \in Int : v <= w => Above(c, v) <= Above(c, w)
<1>1. /\ c.min_output_value \in Int /\ c.max_output_value \in Int
      /\ c.min_output_value < c.max_output_value
  BY PwmAssumption DEF PWMConfig
<1>2. ASSUME NEW w \in Int
      PROVE  Clamp(c, w) = IF w < c.min_output_value THEN c.min_output_value
                           ELSE IF w > c.max_output_value THEN c.max_output_value ELSE w
  BY <1>1 DEF Clamp
<1> QED
  BY <1>1, <1>2 DEF Width, Above

\* So does the subtraction of floats.
LEMMA Subtracted ==
  ASSUME NEW c \in Configs, NEW v \in Int
  PROVE  /\ RangeF(c) \in Nat /\ AboveF(c, v) \in Nat /\ AboveF(c, v) <= RangeF(c)
         /\ v <= c.min_output_value => AboveF(c, v) = 0
         /\ v >= c.max_output_value => AboveF(c, v) = RangeF(c)
         /\ \A w \in Int : v <= w => AboveF(c, v) <= AboveF(c, w)
<1>1. RangeF(c) = Rounded(Width(c), 1) /\ \A w : AboveF(c, w) = Rounded(Above(c, w), 1)
  BY DEF RangeF, AboveF, Difference, Width, Above
<1>2. InRange(Width(c), 1) /\ Width(c) \in Nat
  BY RangeAssumption, Clamped DEF Width
<1>3. ASSUME NEW w \in Int
      PROVE  /\ Above(c, w) \in Nat /\ InRange(Above(c, w), 1)
             /\ AboveF(c, w) \in Nat /\ AboveF(c, w) <= RangeF(c)
  <2>1. Above(c, w) \in Nat /\ Above(c, w) <= Width(c)
    BY Clamped
  <2>2. InRange(Above(c, w), 1) /\ AboveF(c, w) <= RangeF(c)
    BY <1>1, <1>2, <2>1, RoundedMonotone
  <2> QED
    BY <1>1, <2>1, <2>2, RoundedIs
<1>4. RangeF(c) \in Nat
  BY <1>1, <1>2, RoundedIs
<1>5. v <= c.min_output_value => AboveF(c, v) = 0
  BY <1>1, Clamped, RoundedZero
<1>6. v >= c.max_output_value => AboveF(c, v) = RangeF(c)
  BY <1>1, Clamped
<1>7. ASSUME NEW w \in Int, v <= w PROVE AboveF(c, v) <= AboveF(c, w)
  <2>1. Above(c, v) <= Above(c, w)
    BY <1>7, Clamped
  <2> QED
    BY <1>1, <1>3, <1>7, <2>1, RoundedMonotone
<1> QED
  BY <1>3, <1>4, <1>5, <1>6, <1>7

\* The code divides by an output range that is not zero.
LEMMA DivisorIs ==
  ASSUME NEW c \in Configs, OutputRange(c) > 0
  PROVE  /\ OutputRange(c) \in Nat /\ Float(OutputRange(c)) \in Nat \ {0}
         /\ InRange(Unit, 1)
<1>1. Unit \in Nat \ {0} /\ Lowest \in Nat \ {0} /\ Largest \in Nat
  BY FloatAssumption
<1>2. OutputRange(c) \in Nat /\ InRange(OutputRange(c) * Unit, 1)
  <2>1. RangeF(c) \in Nat
    <3>1. c.min_output_value \in Int
      BY PwmAssumption DEF PWMConfig
    <3> QED
      BY <3>1, Subtracted
  <2> QED
    BY <1>1, <2>1, RangeAssumption, DivMonotone DEF OutputRange, Truncated
<1> DEFINE n == OutputRange(c)
<1>3. n \in Nat /\ 1 <= n
  BY <1>2
<1> DEFINE x == n * Unit
<1>4. Unit <= x /\ x \in Nat /\ InRange(x, 1)
  <2> HIDE DEF n
  <2>1. 1 * Unit <= n * Unit
    BY <1>1, <1>3, Factor
  <2>2. InRange(n * Unit, 1)
    BY <1>2 DEF n
  <2> QED
    BY <1>1, <1>3, <2>1, <2>2
<1> HIDE DEF x
<1>5. InRange(Unit, 1) /\ Rounded(Unit, 1) <= Rounded(x, 1)
  BY <1>1, <1>4, RoundedMonotone
<1>6. Rounded(Unit, 1) = Unit
  <2>1. Unit = 1 * Unit /\ 1 < 2 * Lowest
    BY <1>1
  <2>2. Float(1) = Unit
    BY <1>5, <2>1, WholeIsFloat
  <2> QED
    BY <2>1, <2>2 DEF Float
<1>7. Rounded(x, 1) \in Nat
  BY <1>4, RoundedIs
<1> QED
  BY <1>1, <1>2, <1>5, <1>6, <1>7 DEF Float, x

\* The share of a value in the range grows with it, from zero.
LEMMA Percents ==
  ASSUME NEW c \in Configs, NEW v \in Int, OutputRange(c) > 0
  PROVE  LET top == RangePercent(c, c.max_output_value)
         IN  /\ top = Quotient(RangeF(c), Float(OutputRange(c)))
             /\ RangePercent(c, v) \in Nat /\ RangePercent(c, v) <= top
             /\ v <= c.min_output_value => RangePercent(c, v) = 0
             /\ v >= c.max_output_value => RangePercent(c, v) = top
             /\ \A w \in Int : v <= w => RangePercent(c, v) <= RangePercent(c, w)
<1> DEFINE d == Float(OutputRange(c))
           f(w) == AboveF(c, w) * Unit
           g == RangeF(c) * Unit
           top == RangePercent(c, c.max_output_value)
<1>1. d \in Nat \ {0} /\ Unit \in Nat /\ InRange(g, d)
  BY DivisorIs, FloatAssumption, RangeAssumption
<1>2. \A w : RangePercent(c, w) = Rounded(f(w), d)
  BY DEF RangePercent, AboveF, Quotient
<1>3. c.max_output_value \in Int /\ RangeF(c) \in Nat /\ AboveF(c, c.max_output_value) = RangeF(c)
  <2>1. c.max_output_value \in Int
    BY PwmAssumption DEF PWMConfig
  <2> QED
    BY <2>1, Subtracted
<1>4. top = Rounded(g, d) /\ g \in Nat
  BY <1>1, <1>2, <1>3
<1>5. top = Quotient(RangeF(c), d)
  BY <1>4 DEF Quotient
<1> HIDE DEF d
<1>6. \A w \in Int : f(w) \in Nat /\ f(w) <= g
  <2> SUFFICES ASSUME NEW w \in Int PROVE f(w) \in Nat /\ f(w) <= g
    OBVIOUS
  <2>1. AboveF(c, w) \in Nat /\ AboveF(c, w) <= RangeF(c)
    BY Subtracted
  <2> QED
    BY <1>1, <1>3, <2>1, Factor
<1>7. v <= c.min_output_value => f(v) = 0
  BY <1>1, Subtracted
<1>8. v >= c.max_output_value => f(v) = g
  BY Subtracted
<1>9. \A w \in Int : v <= w => f(v) <= f(w)
  <2> SUFFICES ASSUME NEW w \in Int, v <= w PROVE f(v) <= f(w)
    OBVIOUS
  <2>1. AboveF(c, v) \in Nat /\ AboveF(c, w) \in Nat /\ AboveF(c, v) <= AboveF(c, w)
    BY Subtracted
  <2> QED
    BY <1>1, <2>1, Factor
<1> HIDE DEF f, g, top
<1>10. \A w \in Int : InRange(f(w), d) /\ Rounded(f(w), d) <= Rounded(g, d)
  BY <1>1, <1>4, <1>6, RoundedMonotone
<1>11. Rounded(f(v), d) \in Nat
  BY <1>1, <1>6, <1>10, RoundedIs
<1>12. \A w \in Int : v <= w => Rounded(f(v), d) <= Rounded(f(w), d)
  BY <1>1, <1>6, <1>9, <1>10, RoundedMonotone
<1>13. v <= c.min_output_value => Rounded(f(v), d) = 0
  BY <1>1, <1>7, RoundedZero
<1> QED
  BY <1>2, <1>4, <1>5, <1>8, <1>10, <1>11, <1>12, <1>13 DEF top, d

\* What SetOutput adds to the lower end, and the sum.
Scale(c, v) == Truncated(Product(SpanF(c), RangePercent(c, v)))
Scaled(c, v) == MinCcr(c) + Scale(c, v)

\* It grows with the value, from zero, wherever the code does not divide by zero.
LEMMA Scales ==
  ASSUME NEW c \in Configs, NEW v \in Int, OutputRange(c) > 0
  PROVE  /\ SpanF(c) \in Nat
         /\ Scale(c, v) \in Nat /\ Scale(c, v) <= Scale(c, c.max_output_value)
         /\ v <= c.min_output_value => Scale(c, v) = 0
         /\ v >= c.max_output_value => Scale(c, v) = Scale(c, c.max_output_value)
         /\ \A w \in Int : v <= w => Scale(c, v) <= Scale(c, w)
<1> DEFINE top == RangePercent(c, c.max_output_value)
<1>1. Unit \in Nat \ {0} /\ c.max_output_value \in Int /\ InRange(SpanF(c) * top, Unit)
  BY FloatAssumption, PwmAssumption, RangeAssumption DEF PWMConfig
<1>2. SpanF(c) \in Nat
  <2>1. (MaxCcr(c) - MinCcr(c)) * Unit \in Nat
    <3>1. MaxCcr(c) - MinCcr(c) \in Nat
      BY Ends
    <3> QED
      BY <1>1, <3>1
  <2>2. InRange((MaxCcr(c) - MinCcr(c)) * Unit, 1)
    BY RangeAssumption
  <2> QED
    BY <2>1, <2>2, RoundedIs DEF SpanF, Float
<1>3. \A w \in Int : RangePercent(c, w) \in Nat /\ RangePercent(c, w) <= top
  BY Percents
<1>4. top \in Nat
  BY <1>1, <1>3
<1> HIDE DEF top
<1>5. \A w \in Int : InRange(SpanF(c) * RangePercent(c, w), Unit)
  <2> SUFFICES ASSUME NEW w \in Int PROVE InRange(SpanF(c) * RangePercent(c, w), Unit)
    OBVIOUS
  <2> DEFINE a == SpanF(c) * RangePercent(c, w)
             b == SpanF(c) * top
  <2>1. a \in Nat /\ b \in Nat /\ a <= b /\ InRange(b, Unit)
    BY <1>1, <1>2, <1>3, <1>4, Factor
  <2> HIDE DEF a, b
  <2>2. InRange(a, Unit)
    BY <1>1, <2>1, RoundedMonotone
  <2> QED
    BY <2>2 DEF a
<1>6. \A x, y \in Int : RangePercent(c, x) <= RangePercent(c, y) =>
                          Scale(c, x) \in Nat /\ Scale(c, x) <= Scale(c, y)
  BY <1>2, <1>3, <1>5, ProductMonotone DEF Scale
<1>7. v <= c.min_output_value => Scale(c, v) = 0
  <2> SUFFICES ASSUME v <= c.min_output_value PROVE Scale(c, v) = 0
    OBVIOUS
  <2>1. RangePercent(c, v) = 0
    BY Percents
  <2>2. SpanF(c) * 0 = 0 /\ 0 \div Unit = 0
    BY <1>1, <1>2
  <2> QED
    BY <1>1, <2>1, <2>2, RoundedZero DEF Scale, Product, Truncated
<1>8. v >= c.max_output_value => Scale(c, v) = Scale(c, c.max_output_value)
  <2>1. v >= c.max_output_value => RangePercent(c, v) = RangePercent(c, c.max_output_value)
    BY Percents
  <2> QED
    BY <2>1 DEF Scale
<1>9. Scale(c, v) \in Nat /\ Scale(c, v) <= Scale(c, c.max_output_value)
  BY <1>1, <1>3, <1>6 DEF top
<1>10. \A w \in Int : v <= w => Scale(c, v) <= Scale(c, w)
  BY <1>6, Percents
<1> QED
  BY <1>2, <1>7, <1>8, <1>9, <1>10

\* A whole range is divided by itself, and the full span is added.
LEMMA FullScale ==
  ASSUME NEW c \in Configs, Fits(c), Integral(c)
  PROVE  OutputRange(c) > 0 /\ Scale(c, c.max_output_value) = MaxCcr(c) - MinCcr(c)
<1> DEFINE r == RangeF(c)
           n == OutputRange(c)
           s == MaxCcr(c) - MinCcr(c)
<1>1. /\ Unit \in Nat \ {0} /\ Lowest \in Nat \ {0} /\ HalfWord \in Nat /\ HalfWord <= 2 * Lowest
      /\ c.max_output_value \in Int
  BY FloatAssumption, PwmAssumption DEF PWMConfig
<1>2. r \in Nat /\ n \in Nat \ {0} /\ r = n * Unit
  <2>1. r \in Nat /\ r > 0 /\ r % Unit = 0 /\ n = r \div Unit
    BY <1>1, Subtracted DEF Integral, OutputRange, Truncated
  <2> HIDE DEF r, n
  <2> QED
    BY <1>1, <2>1
<1>3. InRange(r, 1)
  BY <1>2, RangeAssumption
<1>4. Float(n) = r
  <2>1. r = Rounded(Width(c), 1) /\ Width(c) \in Nat /\ InRange(Width(c), 1)
    BY <1>1, Clamped, RangeAssumption DEF RangeF, Difference, Width
  <2>2. r % Ulp(r) = 0
    BY <1>3, <2>1, RoundedIsFloat
  <2>3. Float(n) = Rounded(r, 1) /\ r * 1 = r
    BY <1>2 DEF Float
  <2> HIDE DEF r, n
  <2> QED
    BY <1>2, <1>3, <2>2, <2>3, RoundedExact
<1>5. InRange(Unit, 1)
  BY <1>2, DivisorIs
<1>6. RangePercent(c, c.max_output_value) = Unit
  <2>1. RangePercent(c, c.max_output_value) = Rounded(r * Unit, r)
    BY <1>1, <1>2, <1>4, Percents DEF Quotient
  <2> HIDE DEF r, n
  <2>2. r \in Nat \ {0} /\ r * Unit = Unit * r
    <3>1. 1 * Unit <= n * Unit
      BY <1>1, <1>2, Factor
    <3> QED
      BY <1>1, <1>2, <3>1
  <2>3. Rounded((1 * Unit) * r, r) = 1 * Unit
    <3>1. 1 < 2 * Lowest /\ 1 * Unit = Unit
      BY <1>1
    <3> QED
      BY <1>5, <2>2, <3>1, WholeIsFloat
  <2>4. 1 * Unit = Unit
    BY <1>1
  <2> QED
    BY <2>1, <2>2, <2>3, <2>4
<1>7. s \in Nat /\ s < 2 * Lowest
  BY <1>1, Ends
<1>8. SpanF(c) = s * Unit /\ s * Unit \in Nat /\ Rounded((s * Unit) * Unit, Unit) = s * Unit
  <2>1. InRange(s * Unit, 1)
    BY RangeAssumption
  <2> QED
    BY <1>1, <1>7, <2>1, WholeIsFloat DEF SpanF
<1>9. Scale(c, c.max_output_value) = (s * Unit) \div Unit
  BY <1>6, <1>8 DEF Scale, Product, Truncated
<1> HIDE DEF s
<1>10. Scale(c, c.max_output_value) = s
  BY <1>1, <1>7, <1>9, DivExact
<1> QED
  BY <1>2, <1>10 DEF s

\* The scaled value is in the range of duty cycles, reaches its ends, is
\* monotonic, and fits the timer.
LEMMA Scaling ==
  ASSUME NEW c \in Configs, NEW v \in Int, Fits(c), Integral(c)
  PROVE  /\ Ccr(c, v) = {Scaled(c, v)} /\ Scaled(c, v) \in Words
         /\ Scaled(c, v) \in MinCcr(c)..MaxCcr(c)
         /\ v <= c.min_output_value => Scaled(c, v) = MinCcr(c)
         /\ v >= c.max_output_value => Scaled(c, v) = MaxCcr(c)
         /\ \A w \in Int : v <= w => Scaled(c, v) <= Scaled(c, w)
<1>1. OutputRange(c) > 0 /\ Scale(c, c.max_output_value) = MaxCcr(c) - MinCcr(c)
  BY FullScale
<1>2. /\ MinCcr(c) \in Nat /\ MaxCcr(c) \in Nat /\ MaxCcr(c) < HalfWord /\ HalfWord \in Nat
  BY Ends, PwmAssumption
<1>3. Ccr(c, v) = {Scaled(c, v)}
  BY <1>1 DEF Ccr, Scaled, Scale
<1>4. /\ Scale(c, v) \in Nat /\ Scale(c, v) <= MaxCcr(c) - MinCcr(c)
      /\ v <= c.min_output_value => Scale(c, v) = 0
      /\ v >= c.max_output_value => Scale(c, v) = MaxCcr(c) - MinCcr(c)
  BY <1>1, Scales
<1>5. \A w \in Int : v <= w => Scale(c, v) <= Scale(c, w) /\ Scale(c, w) \in Nat
  BY <1>1, Scales
<1> QED
  BY <1>2, <1>3, <1>4, <1>5 DEF Scaled, Words

\* Whatever the range, the code computes an integer.
LEMMA CcrType == ASSUME NEW c \in Configs, NEW v \in Int PROVE Ccr(c, v) \subseteq Int
<1>1. MinCcr(c) \in Int
  BY Ends
<1>2. ASSUME OutputRange(c) > 0 PROVE Ccr(c, v) = {Scaled(c, v)} /\ Scale(c, v) \in Nat
  BY <1>2, Scales DEF Ccr, Scaled, Scale
<1>3. ASSUME ~(OutputRange(c) > 0) PROVE Ccr(c, v) = {MinCcr(c), MinCcr(c) - 1}
  BY <1>3 DEF Ccr
<1> QED
  BY <1>1, <1>2, <1>3 DEF Scaled

\* A register keeps what fits it.
LEMMA WordFits == \A n \in Int : Word(n) \in Words /\ (n \in Words => Word(n) = n)
<1>1. HalfWord \in Nat \ {0}
  BY PwmAssumption
<1>2. \A n \in Int, h \in Nat \ {0} : n % h \in 0..h - 1 /\ (n \in 0..h - 1 => n % h = n)
  OBVIOUS
<1> QED
  BY <1>1, <1>2 DEF Word, Words

\* So it does with what Initialize writes.
LEMMA ConstantsFit == Word(TimerPeriodUsed) \in Words /\ Word(Pulse) \in Words
<1>1. TimerPeriodUsed \in Int /\ Pulse \in Int
  BY DEF TimerPeriodUsed, Pulse
<1> QED
  BY <1>1, WordFits
-----------------------------------------------------------------------------
(* The PWM. *)

\* Every object has a channel of its own.  Nothing in the code prevents two objects
\* for one pin, or for two pins of one channel; the second one's Initialize() would
\* set the first one's output.
OwnChannels == \A o, p \in Objects : Channel(o) = Channel(p) /\ Channel(o) # 0 => o = p

\* Only pins with a channel are initialized.
ChannelInv == \A o \in Objects : pwm_initialized[o] => Channel(o) # 0

\* The compare register of an object whose output has been set holds what SetOutput
\* has computed from the object's own configuration.
SetInv ==
  \A o \in Objects : set[o] # Unset =>
    /\ pwm_initialized[o] /\ Register(o) # 0
    /\ \E n \in Ccr(config[o], set[o]) : Compare(o) = Word(n)

\* ConfigurePins and the switch in SetOutput name the same channel, if both name one.
LEMMA ChannelIsRegister ==
  ASSUME NEW o \in Objects
  PROVE  /\ Channel(o) \in 0..4 /\ Register(o) \in 0..4
         /\ Channel(o) # 0 /\ Register(o) # 0 => Register(o) = Channel(o)
<1>1. Pin[o] \in 0..15
  BY PwmAssumption
<1>2. CASE Port[o] = "A" /\ Pin[o] \in 8..11
  BY <1>1, <1>2 DEF Channel, Register
<1>3. CASE Port[o] = "D" /\ Pin[o] \in 12..15
  BY <1>1, <1>3 DEF Channel, Register
<1>4. CASE ~(Port[o] = "A" /\ Pin[o] \in 8..11) /\ ~(Port[o] = "D" /\ Pin[o] \in 12..15)
  <2>1. Channel(o) = 0
    BY <1>4 DEF Channel
  <2> QED
    BY <1>1, <2>1 DEF Register
<1> QED
  BY <1>2, <1>3, <1>4

\* The registers of TIM4 hold what fits them.
RegistersOK == period \in Words /\ ccr \in [TimerChannels -> Words]

\* What no object owns is as the reset left it.
UnownedInv ==
  \A c \in TimerChannels :
    ccr[c] # 0 \/ c \in enabled => \E o \in Objects : pwm_initialized[o] /\ Channel(o) = c

\* The members of the objects and the set of channels.
ObjectsOK ==
  /\ pwm_initialized \in [Objects -> BOOLEAN]
  /\ \A o \in Objects : pwm_initialized[o] => config[o] \in Configs
  /\ config \in [Objects -> Configs \cup {Unset}]
  /\ error \in [Objects -> {"none", "UNINITIALIZED", "INVALID_PINS"}]
  /\ set \in [Objects -> Outputs \cup {Unset}]
  /\ enabled \subseteq TimerChannels

\* The inductive invariant, for any objects, but for what is on their channels.
PwmInv == ObjectsOK /\ RegistersOK /\ ChannelInv /\ UnownedInv

\* Nothing is initialized, and TIM4 has its reset values.
LEMMA PwmInitInv == PwmInit => PwmInv /\ SetInv
<1> SUFFICES ASSUME PwmInit PROVE PwmInv /\ SetInv
  OBVIOUS
<1>1. ObjectsOK
  BY DEF PwmInit, ObjectsOK
<1>2. RegistersOK
  <2>1. HalfWord - 1 \in Words /\ 0 \in Words
    BY PwmAssumption DEF Words
  <2> QED
    BY <2>1 DEF PwmInit, RegistersOK, TimerChannels
<1>3. ChannelInv /\ UnownedInv /\ SetInv
  BY DEF PwmInit, ChannelInv, UnownedInv, SetInv, TimerChannels
<1> QED
  BY <1>1, <1>2, <1>3 DEF PwmInv

\* A write to the compare register of an object that is initialized.
LEMMA WriteInv ==
  ASSUME PwmInv, NEW o \in Objects, NEW n \in Int, pwm_initialized[o], Register(o) # 0, Write(o, n),
         UNCHANGED <<pwm_initialized, config, period, enabled>>
  PROVE  /\ RegistersOK' /\ ChannelInv' /\ UnownedInv'
         /\ Register(o) = Channel(o) /\ Channel(o) \in TimerChannels
         /\ ccr' = [ccr EXCEPT ![Channel(o)] = Word(n)]
<1>1. Channel(o) # 0 /\ Register(o) = Channel(o) /\ Channel(o) \in TimerChannels
  BY ChannelIsRegister DEF PwmInv, ChannelInv, TimerChannels
<1>2. ccr' = [ccr EXCEPT ![Channel(o)] = Word(n)]
  BY <1>1 DEF Write
<1>3. RegistersOK'
  <2>1. Word(n) \in Words
    BY WordFits
  <2> QED
    BY <1>1, <1>2, <2>1 DEF PwmInv, RegistersOK
<1>4. ChannelInv'
  BY DEF PwmInv, ChannelInv
<1>5. UnownedInv'
  BY <1>1, <1>2 DEF PwmInv, UnownedInv, RegistersOK
<1> QED
  BY <1>1, <1>2, <1>3, <1>4, <1>5

\* Every method preserves the invariant.
LEMMA PwmStepInv == PwmInv /\ [PwmNext]_pwm_vars => PwmInv'
<1> SUFFICES ASSUME PwmInv, [PwmNext]_pwm_vars PROVE PwmInv'
  OBVIOUS
<1>1. ASSUME NEW o \in Objects, NEW c \in Configs, InitializePwm(o, c) PROVE PwmInv'
  <2>1. Channel(o) \in TimerChannels /\ Word(TimerPeriodUsed) \in Words /\ Word(Pulse) \in Words
    BY <1>1, ConstantsFit, ChannelIsRegister DEF InitializePwm, TimerChannels
  <2>2. ObjectsOK'
    BY <1>1 DEF InitializePwm, PwmInv, ObjectsOK
  <2>3. RegistersOK'
    BY <1>1, <2>1 DEF InitializePwm, PwmInv, RegistersOK
  <2>4. ChannelInv'
    BY <1>1 DEF InitializePwm, PwmInv, ChannelInv, ObjectsOK
  <2>5. UnownedInv'
    BY <1>1, <2>1 DEF InitializePwm, PwmInv, UnownedInv, RegistersOK, ObjectsOK
  <2> QED
    BY <2>2, <2>3, <2>4, <2>5 DEF PwmInv
<1>2. ASSUME NEW o \in Objects, InitializeFails(o) PROVE PwmInv'
  <2> QED
    BY <1>2, ConstantsFit DEF InitializeFails, PwmInv, ObjectsOK, RegistersOK, ChannelInv, UnownedInv
<1>3. ASSUME NEW o \in Objects, Enable(o) PROVE PwmInv'
  <2>1. Channel(o) \in TimerChannels
    BY <1>3, ChannelIsRegister DEF Enable, PwmInv, ChannelInv, TimerChannels
  <2> QED
    BY <1>3, <2>1 DEF Enable, PwmInv, ObjectsOK, RegistersOK, ChannelInv, UnownedInv
<1>4. ASSUME NEW o \in Objects, Disable(o) PROVE PwmInv'
  BY <1>4 DEF Disable, PwmInv, ObjectsOK, RegistersOK, ChannelInv, UnownedInv
<1>5. ASSUME NEW o \in Objects, NEW v \in Outputs, SetOutput(o, v) PROVE PwmInv'
  <2>1. config[o] \in Configs /\ v \in Int
    BY <1>5, PwmAssumption DEF SetOutput, PwmInv, ObjectsOK
  <2>2. PICK n \in Ccr(config[o], v) : Write(o, n)
    BY <1>5 DEF SetOutput
  <2>3. n \in Int
    BY <2>1, <2>2, CcrType
  <2>4. RegistersOK' /\ ChannelInv' /\ UnownedInv'
    BY <1>5, <2>2, <2>3, WriteInv DEF SetOutput
  <2>5. ObjectsOK'
    BY <1>5 DEF SetOutput, PwmInv, ObjectsOK
  <2> QED
    BY <2>4, <2>5 DEF PwmInv
<1>6. ASSUME NEW o \in Objects, SetOutputFails(o) PROVE PwmInv'
  BY <1>6 DEF SetOutputFails, PwmInv, ObjectsOK, RegistersOK, ChannelInv, UnownedInv
<1>7. ASSUME NEW o \in Objects, NEW n \in CompareValues, SetCCR(o, n) PROVE PwmInv'
  <2>1. n \in Int
    BY PwmAssumption
  <2>2. RegistersOK' /\ ChannelInv' /\ UnownedInv'
    BY <1>7, <2>1, WriteInv DEF SetCCR
  <2>3. ObjectsOK'
    BY <1>7 DEF SetCCR, PwmInv, ObjectsOK
  <2> QED
    BY <2>2, <2>3 DEF PwmInv
<1>8. CASE UNCHANGED pwm_vars
  BY <1>8 DEF pwm_vars, PwmInv, ObjectsOK, RegistersOK, ChannelInv, UnownedInv
<1> QED
  BY <1>1, <1>2, <1>3, <1>4, <1>5, <1>6, <1>7, <1>8 DEF PwmNext

\* What is on the channel of an object is its own, whatever the others do.
LEMMA SetStepInv == OwnChannels /\ PwmInv /\ SetInv /\ [PwmNext]_pwm_vars => SetInv'
<1> SUFFICES ASSUME OwnChannels, PwmInv, SetInv, [PwmNext]_pwm_vars,
                    NEW p \in Objects, set'[p] # Unset
             PROVE  /\ pwm_initialized'[p] /\ Register(p) # 0
                    /\ \E n \in Ccr(config'[p], set'[p]) : Compare(p)' = Word(n)
  BY DEF SetInv
<1> DEFINE Goal == /\ pwm_initialized'[p] /\ Register(p) # 0
                   /\ \E n \in Ccr(config'[p], set'[p]) : Compare(p)' = Word(n)
<1>1. ASSUME UNCHANGED <<set, pwm_initialized, config, ccr>> PROVE Goal
  BY <1>1 DEF SetInv, Compare
<1>2. ASSUME NEW o \in Objects, o # p, pwm_initialized'[o], Channel(o) # 0, NEW x,
             UNCHANGED <<set[p], pwm_initialized[p], config[p]>>,
             ccr' = [ccr EXCEPT ![Channel(o)] = x]
      PROVE  Goal
  <2>1. Channel(p) # Channel(o)
    BY <1>2 DEF OwnChannels
  <2>2. Channel(p) \in TimerChannels
    BY <1>2, ChannelIsRegister DEF SetInv, PwmInv, ChannelInv, TimerChannels
  <2>3. Compare(p)' = Compare(p)
    BY <1>2, <2>1, <2>2 DEF Compare, PwmInv, RegistersOK
  <2> QED
    BY <1>2, <2>3 DEF SetInv
<1>3. ASSUME NEW o \in Objects, NEW c \in Configs, InitializePwm(o, c) PROVE Goal
  <2>1. o # p
    BY <1>3 DEF InitializePwm, SetInv
  <2> QED
    BY <1>2, <1>3, <2>1 DEF InitializePwm, PwmInv, ObjectsOK
<1>4. ASSUME NEW o \in Objects, NEW v \in Outputs, SetOutput(o, v) PROVE Goal
  <2>1. config[o] \in Configs /\ v \in Int
    BY <1>4, PwmAssumption DEF SetOutput, PwmInv, ObjectsOK
  <2>2. PICK n \in Ccr(config[o], v) : Write(o, n)
    BY <1>4 DEF SetOutput
  <2>3. n \in Int
    BY <2>1, <2>2, CcrType
  <2>4. /\ Register(o) = Channel(o) /\ Channel(o) \in TimerChannels
        /\ ccr' = [ccr EXCEPT ![Channel(o)] = Word(n)]
    BY <1>4, <2>2, <2>3, WriteInv DEF SetOutput
  <2>5. CASE o = p
    BY <1>4, <2>2, <2>4, <2>5 DEF SetOutput, Compare, PwmInv, ObjectsOK, RegistersOK
  <2>6. CASE o # p
    <3>1. UNCHANGED <<set[p], pwm_initialized[p], config[p]>> /\ pwm_initialized'[o] /\ Channel(o) # 0
      BY <1>4, <2>4, <2>6 DEF SetOutput, TimerChannels, PwmInv, ObjectsOK
    <3> QED
      BY <1>2, <2>4, <2>6, <3>1
  <2> QED
    BY <2>5, <2>6
<1>5. ASSUME NEW o \in Objects, NEW n \in CompareValues, SetCCR(o, n) PROVE Goal
  <2>1. /\ Register(o) = Channel(o) /\ Channel(o) \in TimerChannels
        /\ ccr' = [ccr EXCEPT ![Channel(o)] = Word(n)]
    BY <1>5, PwmAssumption, WriteInv DEF SetCCR
  <2>2. o # p
    BY <1>5 DEF SetCCR, PwmInv, ObjectsOK
  <2>3. UNCHANGED <<set[p], pwm_initialized[p], config[p]>> /\ pwm_initialized'[o] /\ Channel(o) # 0
    BY <1>5, <2>1, <2>2 DEF SetCCR, TimerChannels, PwmInv, ObjectsOK
  <2> QED
    BY <1>2, <2>1, <2>2, <2>3
<1>6. CASE \/ UNCHANGED pwm_vars
           \/ \E o \in Objects : InitializeFails(o) \/ Enable(o) \/ Disable(o) \/ SetOutputFails(o)
  BY <1>1, <1>6 DEF InitializeFails, Enable, Disable, SetOutputFails, pwm_vars
<1> QED
  BY <1>3, <1>4, <1>5, <1>6 DEF PwmNext

\* The inductive invariant holds in every reachable state.
THEOREM PwmInvariance == PwmSpec => []PwmInv
  BY PwmInitInv, PwmStepInv, PTL DEF PwmSpec

\* The members and the registers of TIM4 keep their types, and the channels of pins
\* that nobody has initialized are as the reset left them.
THEOREM PwmTypeCorrect == PwmSpec => []PwmTypeOK
<1>1. PwmInv => PwmTypeOK
  BY DEF PwmInv, ObjectsOK, RegistersOK, UnownedInv, PwmTypeOK
<1> QED
  BY <1>1, PwmInvariance, PTL

\* Outputs are scaled monotonically to the whole range of duty cycles and never
\* beyond it, with every float rounded as the processor does, for any clock, any
\* values, and any configurations whose period fits the timer and whose range of
\* outputs is a whole number after the subtraction in floats, if no two objects
\* share a channel.
THEOREM OutputsAreScaled == OwnChannels => (PwmSpec => []OutputIsScaled)
<1> SUFFICES ASSUME OwnChannels PROVE PwmSpec => []OutputIsScaled
  OBVIOUS
<1>1. PwmInv /\ SetInv => OutputIsScaled
  <2> SUFFICES ASSUME PwmInv, SetInv PROVE OutputIsScaled
    OBVIOUS
  <2>1. ASSUME NEW o \in Objects, set[o] # Unset, Fits(config[o]), Integral(config[o])
        PROVE  /\ config[o] \in Configs /\ set[o] \in Int
               /\ Compare(o) = Scaled(config[o], set[o])
    <3>1. config[o] \in Configs /\ set[o] \in Int
      BY <2>1, PwmAssumption DEF PwmInv, ObjectsOK, SetInv
    <3>2. /\ Ccr(config[o], set[o]) = {Scaled(config[o], set[o])}
          /\ Scaled(config[o], set[o]) \in Words
          /\ Scaled(config[o], set[o]) \in Int
      BY <2>1, <3>1, Scaling DEF Words
    <3>3. Compare(o) = Word(Scaled(config[o], set[o]))
      BY <2>1, <3>2 DEF SetInv
    <3> QED
      BY <3>1, <3>2, <3>3, WordFits
  <2> SUFFICES ASSUME NEW o \in Objects, NEW p \in Objects,
                      set[o] # Unset, Fits(config[o]), Integral(config[o])
               PROVE  /\ Compare(o) \in MinCcr(config[o])..MaxCcr(config[o])
                      /\ set[o] <= config[o].min_output_value => Compare(o) = MinCcr(config[o])
                      /\ set[o] >= config[o].max_output_value => Compare(o) = MaxCcr(config[o])
                      /\ set[p] # Unset /\ config[p] = config[o] /\ set[o] <= set[p] =>
                           Compare(o) <= Compare(p)
    BY DEF OutputIsScaled
  <2>2. /\ Compare(o) \in MinCcr(config[o])..MaxCcr(config[o])
        /\ set[o] <= config[o].min_output_value => Compare(o) = MinCcr(config[o])
        /\ set[o] >= config[o].max_output_value => Compare(o) = MaxCcr(config[o])
    BY <2>1, Scaling
  <2>3. ASSUME set[p] # Unset, config[p] = config[o], set[o] <= set[p] PROVE Compare(o) <= Compare(p)
    <3>1. Compare(p) = Scaled(config[o], set[p]) /\ set[p] \in Int
      BY <2>1, <2>3
    <3> QED
      BY <2>1, <2>3, <3>1, Scaling
  <2> QED
    BY <2>2, <2>3
<1>2. PwmSpec => [](PwmInv /\ SetInv)
  <2>1. OwnChannels /\ PwmInv /\ SetInv /\ [PwmNext]_pwm_vars => PwmInv' /\ SetInv'
    BY PwmStepInv, SetStepInv
  <2> QED
    BY <2>1, PwmInitInv, PTL DEF PwmSpec
<1> QED
  BY <1>1, <1>2, PTL
=============================================================================
