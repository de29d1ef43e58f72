---------------------------- MODULE Timer_proof -----------------------------
(***************************************************************************)
(* Proofs about Timer, for any set of actions.  All the properties follow  *)
(* from one relation between the object and the timer's registers: a timer *)
(* that counts or interrupts is marked as started, except inside the       *)
(* windows of Periodic() and Stop() in which the mark and the registers    *)
(* are not written together.  The interval is a separate matter: only      *)
(* Configure writes it, from arguments it has checked.                     *)
(*                                                                         *)
(* The last part is about TimedTask, the timer together with a task: the   *)
(* two keep what each of them promises alone, and what follows from both.  *)
(***************************************************************************)
EXTENDS TimedTask, TLAPS

\* The part of TypeOK that is about control.
ControlOK ==
  /\ {initialized, started, counting, uie, uif} \subseteq BOOLEAN
  /\ action \in Actions \cup {None, Torn}
  /\ argument \in Actions \cup {None}
  /\ pc \in {"idle", "assign", "configure", "start", "set_started", "stop",
             "destroy_stop", "destroyed"}
  /\ stopped \in {"no", "thread", "action"}
  /\ pc = "assign" => argument # None

\* The part that is about the interval.
IntervalOK ==
  /\ gp_timer_id_ \in Ids
  /\ frequency_hz_ \in Frequencies
  /\ psc \in 0..HalfWord - 1
  /\ arr \in 0..Word - 1
  /\ asked \in Seconds \cup {0}

\* A timer runs without being marked as started only in these windows.
RunningInv == counting \/ uie => started \/ pc \in {"set_started", "stop", "destroy_stop"}

\* The mark is taken away before the registers are touched, and for ever.
StoppingInv == pc \in {"stop", "destroy_stop", "destroyed"} => ~started

\* The interrupt is enabled only with an action, so that Stop() disables it.
ActionInv == uie => action # None

\* action_ is half-assigned only inside Periodic().
TornInv == action = Torn => pc = "assign"

\* The thread's Stop() leaves the timer silent, and Periodic() forgets it.
QuietInv == stopped = "thread" =>
              /\ ~uie /\ ~counting
              /\ pc \in {"idle", "stop", "destroy_stop", "destroyed"}

\* The inductive invariant of the control.
IInv == ControlOK /\ RunningInv /\ StoppingInv /\ ActionInv /\ TornInv /\ QuietInv

\* The initial state satisfies the inductive invariant.
LEMMA InitInv == Init => IInv
BY TimerAssumption
   DEF Init, IInv, ControlOK, RunningInv, StoppingInv, ActionInv, TornInv, QuietInv

\* Every step of the thread and of the timer preserves it.
LEMMA StepInv == IInv /\ [Next]_vars => IInv'
<1> SUFFICES ASSUME IInv, [Next]_vars PROVE IInv'
  OBVIOUS
<1> USE TimerAssumption DEF IInv, ControlOK, RunningInv, StoppingInv, ActionInv, TornInv, QuietInv
<1>1. CASE Initialize
  BY <1>1 DEF Initialize, registers
<1>2. ASSUME NEW a \in Actions \cup {None}, PeriodicWithAction(a) PROVE IInv'
  BY <1>2 DEF PeriodicWithAction, IsAction, registers
<1>3. CASE ActionAssigned
  BY <1>3 DEF ActionAssigned, registers
<1>4. CASE Periodic
  BY <1>4 DEF Periodic, object, registers
<1>5. ASSUME NEW seconds \in Seconds, Configure(seconds) PROVE IInv'
  BY <1>5 DEF Configure, object
<1>6. ASSUME NEW seconds \in Seconds, PeriodicRefuses(seconds) PROVE IInv'
  BY <1>6 DEF PeriodicRefuses, Return, object, registers
<1>6a. CASE PeriodicFails
  BY <1>6a DEF PeriodicFails, Return, object, registers
<1>7. CASE StartCounter
  BY <1>7 DEF StartCounter, UsesInterrupt, object
<1>8. CASE SetStarted
  BY <1>8 DEF SetStarted, Return, registers
<1>9. CASE Stop \/ Destroy
  <2>1. CASE started
    <3>1. /\ started' = FALSE /\ pc' \in {"stop", "destroy_stop"}
          /\ UNCHANGED <<initialized, action, argument, counting, uie, uif, stopped>>
      BY <1>9, <2>1 DEF Stop, Destroy, CallStop, registers
    <3>2. pc = "idle"
      BY <1>9 DEF Stop, Destroy, CallStop
    <3>3. ControlOK'
      BY <3>1
    <3>4. RunningInv' /\ StoppingInv' /\ ActionInv' /\ TornInv' /\ QuietInv'
      BY <3>1, <3>2
    <3> QED
      BY <3>3, <3>4
  <2>2. CASE ~started
    <3>1. uie = FALSE /\ counting = FALSE
      BY <1>9, <2>2 DEF Stop, Destroy, CallStop
    <3> QED
      BY <1>9, <2>2, <3>1 DEF Stop, Destroy, CallStop, registers
  <2> QED
    BY <2>1, <2>2
<1>10. CASE StopReturns
  <2>1. uie' = FALSE /\ counting' = FALSE
    BY <1>10 DEF StopReturns, HalStop, UsesInterrupt
  <2> QED
    BY <1>10, <2>1 DEF StopReturns, object
<1>11. CASE Update
  BY <1>11 DEF Update, object
<1>12. CASE Handler
  <2>1. CASE UNCHANGED <<started, counting, uie, stopped>>
    BY <1>12, <2>1 DEF Handler, FlagCleared
  <2>2. CASE started /\ started' = FALSE /\ stopped' = "action" /\ HalStop
    <3>1. uie' = FALSE /\ counting' = FALSE
      BY <2>2 DEF HalStop, UsesInterrupt
    <3> QED
      BY <1>12, <2>2, <3>1 DEF Handler, FlagCleared
  <2>3. CASE ~started /\ started' = FALSE /\ stopped' = "action" /\ UNCHANGED <<counting, uie>>
    BY <1>12, <2>3 DEF Handler, FlagCleared
  <2> QED
    BY <1>12, <2>1, <2>2, <2>3 DEF Handler
<1>13. CASE UNCHANGED vars
  BY <1>13 DEF vars, object, registers
<1> QED
  BY <1>1, <1>2, <1>3, <1>4, <1>5, <1>6, <1>6a, <1>7, <1>8, <1>9, <1>10, <1>11,
     <1>12, <1>13 DEF Next, Step, Gone

-----------------------------------------------------------------------------
(* Floats: how far a number is from what it is rounded to. *)

\* A quotient, times its divisor, is no more than the dividend.
LEMMA QuotientBelow == ASSUME NEW a \in Nat, NEW d \in Nat \ {0}
                       PROVE  /\ a \div d \in Nat
                              /\ (a \div d) * d <= a
                              /\ a < (a \div d + 1) * d
                              /\ a \div d <= a
OBVIOUS

\* Factors keep an inequality.
LEMMA Factor == ASSUME NEW a \in Nat, NEW b \in Nat, NEW c \in Nat, a <= b
                PROVE  a * c <= b * c /\ c * a <= c * b
OBVIOUS

\* Numbers in range have a distance of the floats around them.
LEMMA UlpIs ==
  ASSUME NEW n \in Nat, NEW d \in Nat \ {0}, InRange(n, d)
  PROVE  /\ Ulp(n \div d) \in Ulps /\ Ulp(n \div d) \in Nat \ {0}
         /\ n < 2 * Lowest * Ulp(n \div d) * d
         /\ Ulp(n \div d) = 1 \/ Lowest * Ulp(n \div d) * d <= n
<1> DEFINE q == n \div d
           u == Ulp(q)
<1>1. q \in Nat /\ q * d <= n /\ n < (q + 1) * d
  BY QuotientBelow
<1>2. \E v \in Ulps : IsUlp(v, q)
  BY <1>1, FloatAssumption DEF InRange
<1>3. u \in Ulps /\ IsUlp(u, q)
  BY <1>2 DEF Ulp
<1>4. u \in Nat \ {0} /\ Lowest \in Nat
  BY <1>3, FloatAssumption
<1> HIDE DEF q, u
<1> DEFINE low == Lowest * u
<1>5. low \in Nat /\ 2 * Lowest * u = 2 * low
  BY <1>4
<1>6. q < 2 * low /\ (u = 1 \/ low <= q)
  BY <1>3, <1>5 DEF IsUlp
<1> HIDE DEF low
<1>7. (q + 1) * d <= (2 * low) * d
  BY <1>1, <1>5, <1>6, Factor
<1>8. n < (2 * low) * d
  <2>1. (q + 1) * d \in Nat /\ (2 * low) * d \in Nat
    BY <1>1, <1>5
  <2> QED
    BY <1>1, <1>7, <2>1
<1>9. u = 1 \/ low * d <= n
  <2>1. ASSUME low <= q PROVE low * d <= n
    <3>1. low * d <= q * d
      BY <1>1, <1>5, <2>1, Factor
    <3>2. low * d \in Nat /\ q * d \in Nat
      BY <1>1, <1>5
    <3> QED
      BY <1>1, <3>1, <3>2
  <2> QED
    BY <1>6, <2>1
<1> QED
  BY <1>3, <1>4, <1>5, <1>8, <1>9 DEF u, q, low

\* The nearest integer is off by at most one half.
LEMMA NearestIs ==
  ASSUME NEW n \in Nat, NEW w \in Nat \ {0}
  PROVE  LET k == Nearest(n, w)
         IN  /\ k \in Nat /\ (k = n \div w \/ k = n \div w + 1)
             /\ 2 * (k * w) <= 2 * n + w /\ 2 * n <= 2 * (k * w) + w
<1> DEFINE m == n \div w
           rest == n % w
           k == Nearest(n, w)
<1>1. m \in Nat /\ rest \in Nat /\ rest < w /\ n = m * w + rest
  OBVIOUS
<1>2. /\ k = m \/ k = m + 1
      /\ k = m => 2 * rest <= w
      /\ k = m + 1 => 2 * rest >= w
  BY <1>1 DEF Nearest
<1> HIDE DEF m, rest, k
<1> DEFINE Close == 2 * (k * w) <= 2 * n + w /\ 2 * n <= 2 * (k * w) + w
<1>3. ASSUME k = m PROVE Close
  BY <1>1, <1>2, <1>3
<1>4. ASSUME k = m + 1 PROVE Close
  <2>1. k * w = m * w + w /\ m * w \in Nat
    BY <1>1, <1>4
  <2> QED
    BY <1>1, <1>2, <1>4, <2>1
<1>5. /\ k \in Nat /\ (k = m \/ k = m + 1)
      /\ 2 * (k * w) <= 2 * n + w /\ 2 * n <= 2 * (k * w) + w
  BY <1>1, <1>2, <1>3, <1>4
<1> QED
  BY <1>5 DEF k, m

\* A rounded number is off by at most half of that distance.
LEMMA RoundedIs ==
  ASSUME NEW n \in Nat, NEW d \in Nat \ {0}, InRange(n, d)
  PROVE  LET u == Ulp(n \div d)
             k == Nearest(n, u * d)
         IN  /\ Rounded(n, d) = k * u /\ Rounded(n, d) \in Nat
             /\ k \in Nat /\ k <= 2 * Lowest
             /\ 2 * (Rounded(n, d) * d) <= 2 * n + u * d
             /\ 2 * n <= 2 * (Rounded(n, d) * d) + u * d
<1> DEFINE u == Ulp(n \div d)
           w == u * d
           m == n \div w
           k == Nearest(n, w)
           top == 2 * Lowest
<1>1. u \in Nat \ {0} /\ n < top * u * d /\ top \in Nat
  BY UlpIs, FloatAssumption
<1>2. Rounded(n, d) = u * k
  BY DEF Rounded
<1> HIDE DEF u, top
<1>3. w \in Nat \ {0} /\ top * u * d = top * w
  BY <1>1
<1>4. /\ k \in Nat /\ (k = m \/ k = m + 1)
      /\ 2 * (k * w) <= 2 * n + w /\ 2 * n <= 2 * (k * w) + w
  BY <1>3, NearestIs
<1>5. m \in Nat /\ m < top
  <2>1. m \in Nat /\ m * w <= n
    BY <1>3, QuotientBelow
  <2> HIDE DEF w, m
  <2>2. m * w < top * w
    BY <1>1, <1>3, <2>1
  <2>3. \A a, b \in Nat : \A c \in Nat \ {0} : a * c < b * c => a < b
    OBVIOUS
  <2> QED
    BY <1>1, <1>3, <2>1, <2>2, <2>3
<1> HIDE DEF w, m, k
<1>6. k <= top
  BY <1>1, <1>4, <1>5
<1>7. u * k = k * u /\ u * k \in Nat /\ (u * k) * d = k * w
  BY <1>1, <1>4 DEF w
<1> QED
  BY <1>2, <1>4, <1>6, <1>7 DEF u, w, k, top

\* That is one part in 2 * Lowest of a number that is not near zero.
LEMMA RelativeError ==
  ASSUME NEW n \in Nat, NEW d \in Nat \ {0}, InRange(n, d), Lowest * d <= n
  PROVE  /\ Rounded(n, d) \in Nat
         /\ 2 * Lowest * (Rounded(n, d) * d) <= (2 * Lowest + 1) * n
         /\ 2 * Lowest * (Rounded(n, d) * d) >= (2 * Lowest - 1) * n
<1> DEFINE u == Ulp(n \div d)
           x == Rounded(n, d) * d
           w == u * d
<1>1. /\ u \in Nat \ {0} /\ Rounded(n, d) \in Nat /\ Lowest \in Nat \ {0}
      /\ 2 * x <= 2 * n + w /\ 2 * n <= 2 * x + w
      /\ Lowest * u * d <= n
  <2>1. u \in Nat \ {0} /\ (u = 1 \/ Lowest * u * d <= n) /\ Lowest \in Nat \ {0}
    BY UlpIs, FloatAssumption
  <2>2. Rounded(n, d) \in Nat /\ 2 * x <= 2 * n + w /\ 2 * n <= 2 * x + w
    BY <2>1, RoundedIs
  <2> HIDE DEF u, x, w
  <2>3. u = 1 => Lowest * u * d = Lowest * d
    BY <2>1
  <2> QED
    BY <2>1, <2>2, <2>3
<1>2. w \in Nat /\ x \in Nat /\ Lowest * w <= n
  BY <1>1
<1> HIDE DEF x, w, u
<1>3. Lowest * (2 * x) <= Lowest * (2 * n + w) /\ Lowest * (2 * n) <= Lowest * (2 * x + w)
  BY <1>1, <1>2, Factor
<1>4. /\ Lowest * (2 * n + w) = 2 * Lowest * n + Lowest * w
      /\ Lowest * (2 * x + w) = 2 * Lowest * x + Lowest * w
      /\ Lowest * (2 * x) = 2 * Lowest * x /\ Lowest * (2 * n) = 2 * Lowest * n
      /\ (2 * Lowest + 1) * n = 2 * Lowest * n + n
      /\ (2 * Lowest - 1) * n = 2 * Lowest * n - n
  BY <1>1, <1>2
<1>5. 2 * Lowest * n \in Nat /\ 2 * Lowest * x \in Nat /\ Lowest * w \in Nat
  BY <1>1, <1>2
<1> QED
  BY <1>1, <1>2, <1>3, <1>4, <1>5 DEF x

-----------------------------------------------------------------------------
(* The interval. *)

\* A remainder of a natural number is one that is no larger.
LEMMA Remainder == ASSUME NEW a \in Nat, NEW d \in Nat \ {0}
                   PROVE  a % d \in 0..d - 1 /\ a % d <= a /\ (a < d => a % d = a)
OBVIOUS

\* The registers are within the interval that was asked for.
IntervalInv ==
  /\ IntervalOK
  /\ asked # 0 => /\ (psc + 1) * frequency_hz_ <= TimebaseHz * 2
                  /\ Unit <= PeriodF(asked, frequency_hz_)
                  /\ arr + 1 <= Truncated(PeriodF(asked, frequency_hz_))

\* What is cut off is a fraction, and in a wide counter nothing else.
FractionInv ==
  asked # 0 => /\ psc + 1 = (TimebaseHz * 2) \div frequency_hz_
               /\ IsWide => arr + 1 = Truncated(PeriodF(asked, frequency_hz_))

\* Before the first call nothing has been asked for.
LEMMA InitInterval == Init => IntervalInv /\ FractionInv
  BY ClockAssumption DEF Init, IntervalInv, IntervalOK, FractionInv

\* A prescaler that passes the check has not wrapped around.
LEMMA CheckedPrescaler ==
  ASSUME IntervalOK, PrescalerRaw <= HalfWord - 1
  PROVE  /\ PrescalerRaw \in 0..HalfWord - 1
         /\ (PrescalerRaw + 1) * frequency_hz_ <= TimebaseHz * 2
         /\ PrescalerRaw + 1 = (TimebaseHz * 2) \div frequency_hz_
<1> DEFINE a == TimebaseHz * 2
           q == a \div frequency_hz_
<1>1. a \in Nat /\ a <= Word /\ frequency_hz_ \in Nat \ {0} /\ Word \in Nat \ {0} /\ HalfWord \in Nat \ {0}
      /\ HalfWord < Word
  BY ClockAssumption DEF IntervalOK, TimebaseHz
<1>2. q \in Nat /\ q * frequency_hz_ <= a /\ q <= a
  BY <1>1, QuotientBelow
<1>3. PrescalerRaw = (q - 1) % Word
  BY DEF PrescalerRaw
<1> HIDE DEF q, a
<1>4. CASE q = 0
  <2>1. \A w \in Nat \ {0} : (0 - 1) % w = w - 1
    OBVIOUS
  <2>2. PrescalerRaw = Word - 1
    BY <1>1, <1>3, <1>4, <2>1
  <2> QED
    BY <1>1, <2>2
<1>5. CASE q > 0
  <2>1. q - 1 \in Nat /\ q - 1 < Word
    BY <1>1, <1>2, <1>5
  <2>2. PrescalerRaw = q - 1
    BY <1>1, <1>3, <2>1, Remainder
  <2>3. PrescalerRaw + 1 = q
    BY <1>2, <2>2
  <2> QED
    BY <1>1, <1>2, <2>1, <2>2, <2>3 DEF a, q
<1> QED
  BY <1>2, <1>4, <1>5

\* A positive factor can be taken away.
LEMMA Cancel == \A a, b \in Nat : \A k \in Nat \ {0} : a * k <= b * k => a <= b
  OBVIOUS

\* Three errors that make a number larger, one after the other.
LEMMA RoundingsUp ==
  ASSUME NEW n \in Nat \ {0}, NEW x \in Nat, NEW c \in Nat, NEW p \in Nat, NEW f \in Nat,
         NEW s \in Nat, NEW k \in Nat \ {0},
         n * x <= (n + 1) * (f * k), n * (c * x) >= (n - 1) * (k * k),
         n * (p * c) <= (n + 1) * (s * k)
  PROVE  p * (n * (n - 1)) <= s * f * ((n + 1) * (n + 1))
<1> DEFINE a == n * x
           b == (n + 1) * (f * k)
           g == n * (c * x)
           h == (n - 1) * (k * k)
           i == n * (p * c)
           j == (n + 1) * (s * k)
<1>1. /\ a \in Nat /\ b \in Nat /\ g \in Nat /\ h \in Nat /\ i \in Nat /\ j \in Nat
      /\ a <= b /\ h <= g /\ i <= j
  <2>1. n - 1 \in Nat /\ k * k \in Nat /\ f * k \in Nat /\ s * k \in Nat /\ c * x \in Nat /\ p * c \in Nat
    OBVIOUS
  <2> QED
    BY <2>1
<1>2. g * (p * n) = i * a
  OBVIOUS
<1>3. h * (p * n) = (p * (n * (n - 1))) * (k * k)
  OBVIOUS
<1>4. j * b = (s * f * ((n + 1) * (n + 1))) * (k * k)
  OBVIOUS
<1> HIDE DEF a, b, g, h, i, j
<1>5. p * n \in Nat
  OBVIOUS
<1>6. h * (p * n) <= g * (p * n) /\ i * a <= j * a /\ j * a <= j * b
  BY <1>1, <1>5, Factor
<1>7. h * (p * n) \in Nat /\ g * (p * n) \in Nat /\ i * a \in Nat /\ j * a \in Nat /\ j * b \in Nat
  BY <1>1, <1>5
<1>8. h * (p * n) <= j * b
  BY <1>2, <1>6, <1>7
<1>9. p * (n * (n - 1)) \in Nat /\ s * f * ((n + 1) * (n + 1)) \in Nat /\ k * k \in Nat \ {0}
  <2>1. n - 1 \in Nat
    OBVIOUS
  <2> QED
    BY <2>1
<1> QED
  BY <1>3, <1>4, <1>8, <1>9, Cancel

\* Three errors that make it smaller.
LEMMA RoundingsDown ==
  ASSUME NEW n \in Nat \ {0}, NEW x \in Nat, NEW c \in Nat, NEW p \in Nat, NEW f \in Nat,
         NEW s \in Nat, NEW k \in Nat \ {0},
         n * x >= (n - 1) * (f * k), n * (c * x) <= (n + 1) * (k * k),
         n * (p * c) >= (n - 1) * (s * k)
  PROVE  p * (n * (n + 1)) >= s * f * ((n - 1) * (n - 1))
<1> DEFINE a == n * x
           b == (n - 1) * (f * k)
           g == n * (c * x)
           h == (n + 1) * (k * k)
           i == n * (p * c)
           j == (n - 1) * (s * k)
<1>1. /\ a \in Nat /\ b \in Nat /\ g \in Nat /\ h \in Nat /\ i \in Nat /\ j \in Nat
      /\ b <= a /\ g <= h /\ j <= i
  <2>1. n - 1 \in Nat /\ k * k \in Nat /\ f * k \in Nat /\ s * k \in Nat /\ c * x \in Nat /\ p * c \in Nat
    OBVIOUS
  <2> QED
    BY <2>1
<1>2. g * (p * n) = i * a
  OBVIOUS
<1>3. h * (p * n) = (p * (n * (n + 1))) * (k * k)
  OBVIOUS
<1>4. j * b = (s * f * ((n - 1) * (n - 1))) * (k * k)
  OBVIOUS
<1> HIDE DEF a, b, g, h, i, j
<1>5. p * n \in Nat
  OBVIOUS
<1>6. g * (p * n) <= h * (p * n) /\ j * a <= i * a /\ j * b <= j * a
  BY <1>1, <1>5, Factor
<1>7. h * (p * n) \in Nat /\ g * (p * n) \in Nat /\ i * a \in Nat /\ j * a \in Nat /\ j * b \in Nat
  BY <1>1, <1>5
<1>8. j * b <= h * (p * n)
  BY <1>2, <1>6, <1>7
<1>9. p * (n * (n + 1)) \in Nat /\ s * f * ((n - 1) * (n - 1)) \in Nat /\ k * k \in Nat \ {0}
  <2>1. n - 1 \in Nat
    OBVIOUS
  <2> QED
    BY <2>1
<1> QED
  BY <1>3, <1>4, <1>8, <1>9, Cancel

\* Products of positive numbers are positive.
LEMMA Positive ==
  /\ \A n \in Nat \ {0, 1} : \A k \in Nat \ {0} : (n - 1) * (k * k) > 0
  /\ \A n \in Nat \ {0, 1} : \A f, k \in Nat \ {0} : (n - 1) * (f * k) > 0
  OBVIOUS

\* The period in clocks is a number, and it is the quotient of the period and of
\* the clock but for three roundings.
LEMMA PeriodIs ==
  ASSUME NEW f \in Frequencies, NEW seconds \in Seconds, Unit <= PeriodF(seconds, f)
  PROVE  LET p == PeriodF(seconds, f)
         IN  /\ p \in Nat
             /\ p * (Parts * (Parts - 1)) <= seconds * f * ((Parts + 1) * (Parts + 1))
             /\ p * (Parts * (Parts + 1)) >= seconds * f * ((Parts - 1) * (Parts - 1))
<1> DEFINE x == Float(f)
           c == ClockSeconds(f)
           p == PeriodF(seconds, f)
<1>1. /\ Unit \in Nat \ {0} /\ Lowest \in Nat \ {0} /\ 2 * Lowest < Unit /\ f \in Nat \ {0}
      /\ seconds \in Nat /\ Parts \in Nat \ {0, 1} /\ Parts = 2 * Lowest
  <2>1. Unit \in Nat /\ Lowest \in Nat \ {0} /\ 2 * Lowest < Unit
    BY FloatAssumption
  <2>2. f \in Nat \ {0} /\ seconds \in Nat
    BY ClockAssumption
  <2> QED
    BY <2>1, <2>2 DEF Parts
<1>2. /\ InRange(f * Unit, 1) /\ InRange(Unit * Unit, x) /\ Lowest * x <= Unit * Unit
      /\ InRange(seconds * Unit, c)
  BY PeriodAssumption
<1>3. /\ x \in Nat /\ Parts * x <= (Parts + 1) * (f * Unit)
      /\ Parts * x >= (Parts - 1) * (f * Unit)
  <2>1. f * Unit \in Nat /\ Unit <= f * Unit
    <3>1. 1 * Unit <= f * Unit
      BY <1>1, Factor
    <3> QED
      BY <1>1, <3>1
  <2>2. Lowest * 1 <= f * Unit
    BY <1>1, <2>1
  <2> DEFINE y == Rounded(f * Unit, 1)
  <2>3. /\ y \in Nat
        /\ 2 * Lowest * (y * 1) <= (2 * Lowest + 1) * (f * Unit)
        /\ 2 * Lowest * (y * 1) >= (2 * Lowest - 1) * (f * Unit)
    BY <1>2, <2>1, <2>2, RelativeError
  <2>4. y * 1 = y
    BY <2>3
  <2> QED
    BY <1>1, <2>3, <2>4 DEF Float
<1> HIDE DEF x
<1>4. x # 0
  BY <1>1, <1>3, Positive
<1>5. /\ c \in Nat /\ Parts * (c * x) <= (Parts + 1) * (Unit * Unit)
      /\ Parts * (c * x) >= (Parts - 1) * (Unit * Unit)
  BY <1>1, <1>2, <1>3, <1>4, RelativeError DEF ClockSeconds, Quotient, x
<1> HIDE DEF c
<1>6. c # 0
  <2>1. c * x = 0 => Parts * (c * x) = 0
    BY <1>1
  <2>2. (Parts - 1) * (Unit * Unit) > 0
    BY <1>1, Positive
  <2> QED
    BY <1>1, <1>3, <1>5, <2>1, <2>2
<1>7. p = Rounded(seconds * Unit, c) /\ Unit <= p
  BY DEF PeriodF, Quotient, c
<1> HIDE DEF p
<1>8. Lowest * c <= seconds * Unit
  <2> DEFINE n == seconds * Unit
             u == Ulp(n \div c)
             k == Nearest(n, u * c)
  <2>1. n \in Nat /\ c \in Nat \ {0}
    BY <1>1, <1>5, <1>6
  <2>2. /\ u \in Nat \ {0} /\ (u = 1 \/ Lowest * u * c <= n)
        /\ p = k * u /\ k \in Nat /\ k <= 2 * Lowest
    BY <1>2, <1>7, <2>1, UlpIs, RoundedIs
  <2> HIDE DEF n, u, k
  <2>3. u # 1
    <3> SUFFICES ASSUME u = 1 PROVE FALSE
      OBVIOUS
    <3>1. p = k
      BY <2>2
    <3> QED
      BY <1>1, <1>7, <2>2, <3>1
  <2>4. Lowest * c <= Lowest * u * c
    <3>1. Lowest * u * c = u * (Lowest * c) /\ Lowest * c \in Nat /\ Lowest * c = 1 * (Lowest * c)
      BY <1>1, <2>1, <2>2
    <3>2. 1 * (Lowest * c) <= u * (Lowest * c)
      BY <2>2, <3>1, Factor
    <3> QED
      BY <3>1, <3>2
  <2>5. Lowest * c \in Nat /\ Lowest * u * c \in Nat
    BY <1>1, <2>1, <2>2
  <2>6. Lowest * c <= n
    BY <2>1, <2>2, <2>3, <2>4, <2>5
  <2> QED
    BY <2>6 DEF n
<1>9. /\ p \in Nat /\ Parts * (p * c) <= (Parts + 1) * (seconds * Unit)
      /\ Parts * (p * c) >= (Parts - 1) * (seconds * Unit)
  BY <1>1, <1>2, <1>5, <1>6, <1>7, <1>8, RelativeError
<1>10. p * (Parts * (Parts - 1)) <= seconds * f * ((Parts + 1) * (Parts + 1))
  BY <1>1, <1>3, <1>5, <1>9, RoundingsUp
<1>11. p * (Parts * (Parts + 1)) >= seconds * f * ((Parts - 1) * (Parts - 1))
  BY <1>1, <1>3, <1>5, <1>9, RoundingsDown
<1> QED
  BY <1>9, <1>10, <1>11 DEF p

\* A period of at least a clock gives a register that is within it, and that is
\* the whole of it in a wide counter.
LEMMA CheckedPeriod ==
  ASSUME IntervalOK, NEW seconds \in Seconds, Unit <= PeriodF(seconds, frequency_hz_)
  PROVE  /\ Arr(Period(seconds)) \in 0..Word - 1
         /\ Arr(Period(seconds)) + 1 <= Truncated(PeriodF(seconds, frequency_hz_))
         /\ IsWide => Arr(Period(seconds)) + 1 = Truncated(PeriodF(seconds, frequency_hz_))
<1> DEFINE t == Truncated(PeriodF(seconds, frequency_hz_))
           p == Period(seconds)
<1>1. Word \in Nat \ {0} /\ HalfWord \in Nat \ {0} /\ HalfWord < Word
  BY ClockAssumption
<1>2. t \in Nat /\ 1 <= t
  <2>1. PeriodF(seconds, frequency_hz_) \in Nat /\ Unit \in Nat \ {0}
    BY PeriodIs, FloatAssumption DEF IntervalOK
  <2>2. \A a \in Nat : \A d \in Nat \ {0} : d <= a => a \div d \in Nat /\ 1 <= a \div d
    OBVIOUS
  <2> QED
    BY <2>1, <2>2 DEF Truncated
<1>3. t < Word
  BY PeriodAssumption DEF IntervalOK
<1>4. p = t - 1
  BY DEF Period
<1> HIDE DEF t, p
<1>5. p \in Nat /\ p < Word
  BY <1>1, <1>2, <1>3, <1>4
<1>6. p % Word = p
  BY <1>1, <1>5, Remainder
<1>7. p % HalfWord \in 0..HalfWord - 1 /\ p % HalfWord <= p
  BY <1>1, <1>5, Remainder
<1>8. IF IsWide THEN Arr(p) = p % Word ELSE Arr(p) = p % HalfWord
  BY DEF Arr
<1>9. Arr(p) \in 0..Word - 1 /\ Arr(p) <= p /\ (IsWide => Arr(p) = p)
  BY <1>1, <1>5, <1>6, <1>7, <1>8
<1> QED
  BY <1>2, <1>4, <1>9 DEF t, p

\* Only Configure writes the interval.
LEMMA IntervalFrame ==
  ASSUME [Next]_vars
  PROVE  UNCHANGED <<config, interval>> \/ \E seconds \in Seconds : Configure(seconds) /\ UNCHANGED config
<1>1. CASE Gone \/ UNCHANGED vars
  BY <1>1 DEF Gone, vars, registers
<1>2. CASE Handler /\ UNCHANGED config
  BY <1>2 DEF Handler
<1>3. CASE Step /\ UNCHANGED config
  BY <1>3 DEF Step, Initialize, PeriodicWithAction, ActionAssigned, Periodic, PeriodicRefuses,
              PeriodicFails, StartCounter, SetStarted, Stop, Destroy, CallStop, StopReturns,
              Update, registers
<1> QED
  BY <1>1, <1>2, <1>3 DEF Next

\* Periodic() configures the counter within the interval, and nothing else does.
LEMMA StepInterval == IntervalInv /\ FractionInv /\ [Next]_vars => IntervalInv' /\ FractionInv'
<1> SUFFICES ASSUME IntervalInv, FractionInv, [Next]_vars PROVE IntervalInv' /\ FractionInv'
  OBVIOUS
<1>1. CASE UNCHANGED <<config, interval>>
  BY <1>1 DEF IntervalInv, IntervalOK, FractionInv, IsWide, TimebaseHz, config, interval
<1>2. ASSUME NEW seconds \in Seconds, Configure(seconds), UNCHANGED config
      PROVE  IntervalInv' /\ FractionInv'
  <2>1. PrescalerRaw <= HalfWord - 1 /\ Unit <= PeriodF(seconds, frequency_hz_)
    <3>1. PeriodF(seconds, frequency_hz_) >= Unit
      BY <1>2 DEF Configure, ArgumentsOk
    <3>2. \A a, b : a >= b <=> b <= a
      OBVIOUS
    <3> QED
      BY <1>2, <3>1, <3>2 DEF Configure, ArgumentsOk
  <2>2. /\ psc' \in 0..HalfWord - 1 /\ (psc' + 1) * frequency_hz_ <= TimebaseHz * 2
        /\ arr' \in 0..Word - 1
        /\ asked' \in Seconds
        /\ Unit <= PeriodF(asked', frequency_hz_)
        /\ arr' + 1 <= Truncated(PeriodF(asked', frequency_hz_))
        /\ psc' + 1 = (TimebaseHz * 2) \div frequency_hz_
        /\ IsWide => arr' + 1 = Truncated(PeriodF(asked', frequency_hz_))
    BY <1>2, <2>1, CheckedPrescaler, CheckedPeriod DEF Configure, IntervalInv
  <2>3. UNCHANGED <<gp_timer_id_, frequency_hz_, TimebaseHz, IsWide>>
    BY <1>2 DEF config, TimebaseHz, IsWide
  <2> QED
    BY <2>2, <2>3 DEF IntervalInv, IntervalOK, FractionInv
<1> QED
  BY <1>1, <1>2, IntervalFrame

\* The registers never hold anything else.
THEOREM IntervalInvariance == Spec => [](IntervalInv /\ FractionInv)
  BY InitInterval, StepInterval, PTL DEF Spec

\* What the two factors of an interval are, and that the interval is computed
\* from a period that Periodic() has accepted.
LEMMA IntervalFacts ==
  ASSUME IntervalInv, asked # 0
  PROVE  /\ psc \in Nat /\ arr \in Nat /\ frequency_hz_ \in Frequencies
         /\ frequency_hz_ \in Nat \ {0} /\ asked \in Seconds /\ asked \in Nat
         /\ TimebaseHz \in Nat /\ Unit \in Nat \ {0} /\ Parts \in Nat \ {0, 1}
         /\ PeriodF(asked, frequency_hz_) \in Nat
         /\ Unit <= PeriodF(asked, frequency_hz_)
         /\ Truncated(PeriodF(asked, frequency_hz_)) \in Nat
<1>1. /\ psc \in Nat /\ arr \in Nat /\ frequency_hz_ \in Frequencies
      /\ frequency_hz_ \in Nat \ {0} /\ asked \in Seconds /\ asked \in Nat
      /\ TimebaseHz \in Nat /\ Unit \in Nat \ {0} /\ Parts \in Nat \ {0, 1}
  BY ClockAssumption, FloatAssumption DEF IntervalInv, IntervalOK, TimebaseHz, Parts
<1>2. Unit <= PeriodF(asked, frequency_hz_)
  BY DEF IntervalInv
<1>3. PeriodF(asked, frequency_hz_) \in Nat
  BY <1>1, <1>2, PeriodIs
<1> QED
  BY <1>1, <1>2, <1>3, QuotientBelow DEF Truncated

\* No interval of a timer on APB1 is longer than was asked for by more than the
\* roundings of floats, whatever the frequencies, periods, clocks, widths of the
\* registers and the precision.
THEOREM NoIntervalIsLate == Spec => []NeverLate
<1>1. IntervalInv => NeverLate
  <2> SUFFICES ASSUME IntervalInv, asked # 0, gp_timer_id_ # "GpTimer8"
               PROVE  Given * (Parts * (Parts - 1)) <= Asked * ((Parts + 1) * (Parts + 1))
    BY DEF NeverLate
  <2> DEFINE f == frequency_hz_
             q == PeriodF(asked, f)
             t == Truncated(q)
             up == Parts * (Parts - 1)
             most == (Parts + 1) * (Parts + 1)
             clock == TimebaseHz * 2
  <2>1. /\ psc \in Nat /\ arr \in Nat /\ f \in Nat \ {0} /\ asked \in Nat /\ clock \in Nat
        /\ Unit \in Nat \ {0} /\ q \in Nat /\ t \in Nat /\ Parts \in Nat \ {0, 1}
    BY IntervalFacts
  <2>2. q * up <= asked * f * most
    BY IntervalFacts, PeriodIs
  <2>3. t * Unit <= q
    BY <2>1, QuotientBelow DEF Truncated
  <2>4. (psc + 1) * f <= clock /\ arr + 1 <= t
    BY DEF IntervalInv
  <2>5. Given = (psc + 1) * (arr + 1) * Unit /\ Asked = asked * clock
    BY <2>1, ClockAssumption DEF Given, Asked, TimClockHz, TimebaseHz
  <2>6. up \in Nat /\ most \in Nat
    BY <2>1
  <2> HIDE DEF q, t, up, most, f, clock
  <2>7. (arr + 1) * Unit <= q
    <3>1. (arr + 1) * Unit <= t * Unit /\ (arr + 1) * Unit \in Nat /\ t * Unit \in Nat
      BY <2>1, <2>4, Factor
    <3> QED
      BY <2>1, <2>3, <3>1
  <2> DEFINE n == (arr + 1) * Unit
             p == psc + 1
  <2>8. n \in Nat /\ p \in Nat /\ Given = p * n
    BY <2>1, <2>5
  <2> HIDE DEF n, p
  <2>9. p * (n * up) <= p * (asked * f * most)
    <3>1. n * up <= q * up /\ n * up \in Nat /\ q * up \in Nat /\ asked * f * most \in Nat
      BY <2>1, <2>6, <2>7, <2>8, Factor DEF n
    <3>2. n * up <= asked * f * most
      BY <2>2, <3>1
    <3> QED
      BY <2>8, <3>1, <3>2, Factor
  <2>10. (p * f) * (asked * most) <= clock * (asked * most)
    BY <2>1, <2>4, <2>6, <2>8, Factor DEF p
  <2>11. /\ Given * up = p * (n * up)
         /\ p * (asked * f * most) = (p * f) * (asked * most)
         /\ Asked * most = clock * (asked * most)
    BY <2>1, <2>5, <2>6, <2>8
  <2>12. p * (n * up) \in Nat /\ (p * f) * (asked * most) \in Nat /\ clock * (asked * most) \in Nat
    BY <2>1, <2>6, <2>8
  <2>13. Given * up <= Asked * most
    BY <2>9, <2>10, <2>11, <2>12
  <2> QED
    BY <2>13 DEF up, most
<1> QED
  BY <1>1, IntervalInvariance, PTL

\* Where the frequency divides the clock, a 32-bit timer loses less than a clock
\* of that frequency, and what the roundings of floats take.
THEOREM WideTimersLoseAFraction == Spec => []WideTimersAreExact
<1>1. IntervalInv /\ FractionInv => WideTimersAreExact
  <2> SUFFICES ASSUME IntervalInv, FractionInv, asked # 0, IsWide, TimClockHz % frequency_hz_ = 0
               PROVE  (Given + (psc + 1) * Unit) * (Parts * (Parts + 1))
                        > Asked * ((Parts - 1) * (Parts - 1))
    BY DEF WideTimersAreExact
  <2> DEFINE f == frequency_hz_
             q == PeriodF(asked, f)
             t == Truncated(q)
             down == Parts * (Parts + 1)
             least == (Parts - 1) * (Parts - 1)
             clock == TimebaseHz * 2
  <2>1. /\ psc \in Nat /\ arr \in Nat /\ f \in Nat \ {0} /\ asked \in Nat /\ clock \in Nat
        /\ Unit \in Nat \ {0} /\ q \in Nat /\ t \in Nat /\ Parts \in Nat \ {0, 1}
    BY IntervalFacts
  <2>2. q * down >= asked * f * least
    BY IntervalFacts, PeriodIs
  <2>3. q < (t + 1) * Unit
    BY <2>1, QuotientBelow DEF Truncated
  <2>4. TimClockHz = clock
    BY <2>1, ClockAssumption DEF TimClockHz, TimebaseHz, IsWide
  <2>5. arr + 1 = t /\ psc + 1 = clock \div f /\ clock % f = 0
    BY <2>4 DEF FractionInv
  <2>6. Given + (psc + 1) * Unit = (psc + 1) * ((t + 1) * Unit) /\ Asked = asked * clock
    <3>1. Given + (psc + 1) * Unit = (psc + 1) * (arr + 1) * Unit + (psc + 1) * Unit
      BY DEF Given
    <3>2. \A a, b, c \in Nat : a * b * c + a * c = a * ((b + 1) * c)
      OBVIOUS
    <3> QED
      BY <2>1, <2>4, <2>5, <3>1, <3>2 DEF Asked
  <2>7. down \in Nat \ {0} /\ least \in Nat
    BY <2>1
  <2> HIDE DEF q, t, down, least, f, clock
  <2> DEFINE n == (t + 1) * Unit
             p == psc + 1
  <2>8. n \in Nat /\ p \in Nat \ {0} /\ q < n
    BY <2>1, <2>3
  <2> HIDE DEF n
  <2>9. p * f = clock
    <3>1. \A d \in Nat \ {0} : \A a \in Nat : a % d = 0 => (a \div d) * d = a
      OBVIOUS
    <3> QED
      BY <2>1, <2>5, <3>1
  <2> HIDE DEF p
  <2>10. p * (n * down) > p * (q * down)
    <3>1. \A a, b \in Nat : \A c \in Nat \ {0} : a < b => a * c < b * c /\ c * a < c * b
      OBVIOUS
    <3>2. q * down < n * down /\ q * down \in Nat /\ n * down \in Nat
      BY <2>1, <2>7, <2>8, <3>1
    <3> QED
      BY <2>8, <3>1, <3>2
  <2>11. p * (asked * f * least) <= p * (q * down)
    <3>1. asked * f * least \in Nat /\ q * down \in Nat
      BY <2>1, <2>7
    <3> QED
      BY <2>2, <2>8, <3>1, Factor
  <2>12. /\ p * (asked * f * least) = asked * (p * f) * least
         /\ (p * n) * down = p * (n * down)
    BY <2>1, <2>7, <2>8
  <2>13. p * (asked * f * least) \in Nat /\ p * (q * down) \in Nat /\ p * (n * down) \in Nat
    BY <2>1, <2>7, <2>8
  <2>14. (p * n) * down > asked * clock * least
    BY <2>9, <2>10, <2>11, <2>12, <2>13
  <2> QED
    BY <2>6, <2>14 DEF p, n, down, least
<1> QED
  BY <1>1, IntervalInvariance, PTL
-----------------------------------------------------------------------------
(* The control. *)

\* The inductive invariant holds in every reachable state.
THEOREM Invariance == Spec => []IInv
  BY InitInv, StepInv, PTL DEF Spec

\* The variables keep their types, Periodic() never assigns a null action, and
\* the prescaler and the period fit their registers.
THEOREM TypeCorrect == Spec => []TypeOK
<1>1. IInv /\ IntervalInv => TypeOK
  BY DEF IInv, IntervalInv, ControlOK, IntervalOK, TypeOK
<1> QED
  BY <1>1, Invariance, IntervalInvariance, PTL

\* After the thread's Stop() the timer is silent, whatever its action did.
THEOREM StoppedByThread == Spec => []ThreadStopIsQuiet
<1>1. IInv => ThreadStopIsQuiet
  BY DEF IInv, QuietInv, ThreadStopIsQuiet
<1> QED
  BY <1>1, Invariance, PTL

\* No interrupt reaches the handler of a destroyed timer.
THEOREM NoCallAfterDestruction == Spec => []DestroyedIsQuiet
<1>1. IInv => DestroyedIsQuiet
  BY DEF IInv, ControlOK, RunningInv, StoppingInv, DestroyedIsQuiet
<1> QED
  BY <1>1, Invariance, PTL

\* A user that stops the timer before giving it a new action never exposes
\* the assignment to the interrupt.
THEOREM AssignmentIsExposedOnlyByRestart == Spec => []TornOnlyWhenRestarted
<1>1. IInv => TornOnlyWhenRestarted
  BY DEF IInv, RunningInv, TornInv, TornOnlyWhenRestarted
<1> QED
  BY <1>1, Invariance, PTL

\* The Stop() of an action is lost only where the thread has not yet marked the
\* timer as started, or has taken the mark away and is about to stop it itself.
StopIsLostOnlyInWindows ==
  [][stopped # "action" /\ stopped' = "action" =>
       ~uie' \/ pc \in {"set_started", "stop", "destroy_stop"}]_vars

\* Outside these windows a one-shot is one: this is the code's whole exposure to
\* the lost Stop() that StopIsQuiet is about.
THEOREM StopsAreLostOnlyInWindows == Spec => StopIsLostOnlyInWindows
<1> DEFINE Kept == stopped # "action" /\ stopped' = "action" =>
                     ~uie' \/ pc \in {"set_started", "stop", "destroy_stop"}
<1>1. IInv /\ [Next]_vars => [Kept]_vars
  <2> SUFFICES ASSUME IInv, [Next]_vars, stopped # "action", stopped' = "action"
               PROVE  ~uie' \/ pc \in {"set_started", "stop", "destroy_stop"}
    OBVIOUS
  <2>1. Handler
    BY DEF Next, Step, Gone, Initialize, PeriodicWithAction, ActionAssigned, Periodic, Configure,
           PeriodicRefuses, PeriodicFails, StartCounter, SetStarted, Stop, Destroy, CallStop,
           StopReturns, Update, vars
  <2>2. CASE started
    BY <2>1, <2>2 DEF Handler, HalStop, UsesInterrupt, IInv, ActionInv
  <2>3. CASE ~started
    BY <2>1, <2>3 DEF Handler, IInv, ControlOK, RunningInv
  <2> QED
    BY <2>2, <2>3 DEF IInv, ControlOK
<1> QED
  BY <1>1, Invariance, PTL DEF Spec, StopIsLostOnlyInWindows
-----------------------------------------------------------------------------
(* The timer and its task. *)

\* The mailbox's part of the state.
MailInv ==
  /\ open = [t \in {Task} |-> TRUE]
  /\ handlers = [t \in {Task} |-> Bits]
  /\ posted \in [{Task} -> SUBSET Bits]
  /\ due \in [{Task} -> SUBSET Bits]

\* An event is where it was posted, or in the round that serves it.
Copies(b) == (IF b \in posted[Task] THEN 1 ELSE 0) + (IF b \in due[Task] THEN 1 ELSE 0)

\* After a Stop() each event that is left is still counted once.
LateInv ==
  /\ late \in [Bits -> 0..2]
  /\ stopped = "thread" => \A b \in Bits : late[b] + Copies(b) <= 2

\* The inductive invariant of the two together.
TimedInv == IInv /\ MailInv /\ LateInv

\* A step of the two is a step of the timer, or leaves it alone.
LEMMA TimerMoves == [TimedNext]_allvars => [Next]_vars
<1> SUFFICES ASSUME [TimedNext]_allvars PROVE [Next]_vars
  OBVIOUS
<1>1. CASE ThreadStep
  BY <1>1 DEF ThreadStep, Next
<1>2. CASE TimerStep
  BY <1>2 DEF TimerStep, Next, Step
<1>3. CASE InterruptStep
  BY <1>3 DEF InterruptStep, Next
<1>4. CASE Take \/ \E b \in Bits : Serve(b)
  BY <1>4 DEF Take, Serve
<1>5. CASE Over \/ UNCHANGED allvars
  BY <1>5 DEF Over, allvars
<1> QED
  BY <1>1, <1>2, <1>3, <1>4, <1>5 DEF TimedNext

\* It is a step of the mailbox, or leaves that alone.
LEMMA MailMoves == [TimedNext]_allvars => [M!Next]_(M!vars)
<1> SUFFICES ASSUME [TimedNext]_allvars PROVE [M!Next]_(M!vars)
  OBVIOUS
<1>1. CASE ThreadStep \/ TimerStep \/ Over \/ UNCHANGED allvars
  BY <1>1 DEF ThreadStep, TimerStep, Over, allvars, mail, M!vars
<1>2. CASE InterruptStep
  <2>1. ASSUME NEW a \in Actions, M!Post(Task, BitOf[a]) PROVE M!Next
    BY <2>1 DEF M!Next, Bits
  <2> QED
    BY <1>2, <2>1 DEF InterruptStep, mail, M!vars
<1>3. CASE Take
  BY <1>3 DEF Take, M!Next
<1>4. ASSUME NEW b \in Bits, Serve(b) PROVE M!Next
  BY <1>4 DEF Serve, M!Next
<1> QED
  BY <1>1, <1>2, <1>3, <1>4 DEF TimedNext

\* The thread's Stop() is the only step that makes the timer stopped by it.
LEMMA StoppedByStop ==
  ASSUME Handler PROVE stopped' = "thread" => stopped = "thread"
BY DEF Handler

\* At first the mailbox is empty and nothing is late.
LEMMA TimedInitInv == TimedInit => TimedInv
<1> SUFFICES ASSUME TimedInit PROVE TimedInv
  OBVIOUS
<1>1. IInv /\ stopped = "no"
  BY InitInv DEF TimedInit, Init
<1>2. MailInv
  BY DEF TimedInit, MailInv
<1>3. LateInv
  BY <1>1 DEF TimedInit, LateInv
<1> QED
  BY <1>1, <1>2, <1>3 DEF TimedInv

\* The steps of the two preserve what is counted: an event moves from the mailbox to
\* the round and from the round to the count, and a silent timer posts no other.
LEMMA TimedStepInv == TimedInv /\ [TimedNext]_allvars => TimedInv'
<1> SUFFICES ASSUME TimedInv, [TimedNext]_allvars PROVE TimedInv'
  OBVIOUS
<1>1. IInv'
  BY TimerMoves, StepInv DEF TimedInv
<1>2. CASE ThreadStep
  <2>1. MailInv' /\ UNCHANGED <<posted, due>>
    BY <1>2 DEF ThreadStep, mail, TimedInv, MailInv
  <2>2. \A b \in Bits : Copies(b)' = Copies(b) /\ Copies(b) \in 0..2
    BY <2>1 DEF Copies
  <2>3. CASE stopped # "thread" /\ stopped' = "thread"
    <3>1. late' = [b \in Bits |-> 0]
      BY <1>2, <2>3 DEF ThreadStep
    <3> QED
      BY <1>1, <2>1, <2>2, <3>1 DEF TimedInv, LateInv
  <2>4. CASE ~(stopped # "thread" /\ stopped' = "thread")
    <3>1. late' = late
      BY <1>2, <2>4 DEF ThreadStep
    <3> QED
      BY <1>1, <2>1, <2>2, <2>4, <3>1 DEF TimedInv, LateInv
  <2> QED
    BY <2>3, <2>4
<1>3. CASE TimerStep
  <2>1. UNCHANGED <<mail, late, stopped>>
    BY <1>3 DEF TimerStep, Update
  <2> QED
    BY <1>1, <2>1 DEF TimedInv, MailInv, LateInv, Copies, mail
<1>4. CASE InterruptStep
  <2>1. uie /\ late' = late
    BY <1>4 DEF InterruptStep, Handler
  <2>2. stopped' # "thread"
    BY <1>4, <2>1, StoppedByStop DEF InterruptStep, TimedInv, IInv, QuietInv
  <2>3. MailInv'
    <3>1. ASSUME NEW a \in Actions, M!Post(Task, BitOf[a]) PROVE MailInv'
      BY <3>1 DEF M!Post, Bits, TimedInv, MailInv
    <3> QED
      BY <1>4, <3>1 DEF InterruptStep, mail, TimedInv, MailInv
  <2> QED
    BY <1>1, <2>1, <2>2, <2>3 DEF TimedInv, LateInv
<1>5. CASE Take
  <2>1. /\ due[Task] = {} /\ late' = late /\ stopped' = stopped
        /\ open' = open /\ handlers' = handlers
        /\ posted' = [posted EXCEPT ![Task] = {}]
        /\ due' = [due EXCEPT ![Task] = posted[Task] \cap handlers[Task]]
    BY <1>5 DEF Take, M!Take, vars
  <2>2. posted[Task] \subseteq Bits /\ handlers[Task] = Bits
    BY DEF TimedInv, MailInv
  <2>3. posted'[Task] = {} /\ due'[Task] = posted[Task]
    BY <2>1, <2>2 DEF TimedInv, MailInv
  <2>4. MailInv'
    BY <2>1 DEF TimedInv, MailInv
  <2>5. \A b \in Bits : Copies(b)' = Copies(b)
    BY <2>1, <2>3 DEF Copies
  <2> QED
    BY <1>1, <2>1, <2>4, <2>5 DEF TimedInv, LateInv
<1>6. ASSUME NEW b \in Bits, Serve(b) PROVE TimedInv'
  <2>1. /\ b \in due[Task] /\ stopped' = stopped
        /\ open' = open /\ handlers' = handlers /\ posted' = posted
        /\ due' = [due EXCEPT ![Task] = @ \ {b}]
    BY <1>6 DEF Serve, M!Serve, vars
  <2>2. MailInv' /\ due'[Task] = due[Task] \ {b}
    BY <2>1 DEF TimedInv, MailInv
  <2>3. LateInv'
    <3>1. CASE stopped = "thread"
      <4>1. \A c \in Bits : late[c] + Copies(c) <= 2
        BY <3>1 DEF TimedInv, LateInv
      <4>2. late' = [late EXCEPT ![b] = @ + 1] \/ late' = late
        BY <1>6 DEF Serve
      <4>3. ASSUME NEW c \in Bits PROVE late'[c] \in 0..2 /\ late'[c] + Copies(c)' <= 2
        <5>1. late[c] \in 0..2 /\ late[c] + Copies(c) <= 2
          BY <4>1 DEF TimedInv, LateInv
        <5>2. CASE c = b
          <6>1. Copies(b) = Copies(b)' + 1 /\ Copies(b)' \in 0..1
            BY <2>1, <2>2 DEF Copies
          <6>2. late'[b] \in {late[b], late[b] + 1}
            BY <4>2 DEF TimedInv, LateInv
          <6> QED
            BY <5>1, <5>2, <6>1, <6>2
        <5>3. CASE c # b
          <6>1. Copies(c)' = Copies(c)
            BY <2>1, <2>2, <5>3 DEF Copies
          <6>2. late'[c] = late[c]
            BY <4>2, <5>3 DEF TimedInv, LateInv
          <6> QED
            BY <5>1, <6>1, <6>2
        <5> QED
          BY <5>2, <5>3
      <4>4. late' \in [Bits -> 0..2]
        <5>1. DOMAIN late' = Bits /\ late' = [c \in Bits |-> late'[c]]
          BY <4>2 DEF TimedInv, LateInv
        <5> QED
          BY <4>3, <5>1
      <4> QED
        BY <4>3, <4>4 DEF LateInv
    <3>2. CASE stopped # "thread"
      BY <1>6, <2>1, <3>2 DEF Serve, TimedInv, LateInv
    <3> QED
      BY <3>1, <3>2
  <2> QED
    BY <1>1, <2>2, <2>3 DEF TimedInv
<1>7. CASE Over \/ UNCHANGED allvars
  BY <1>1, <1>7 DEF Over, allvars, vars, mail, TimedInv, MailInv, LateInv, Copies
<1> QED
  BY <1>2, <1>3, <1>4, <1>5, <1>6, <1>7 DEF TimedNext

\* The inductive invariant holds in every state of the two.
THEOREM TimedInvariance == TimedSpec => []TimedInv
  BY TimedInitInv, TimedStepInv, PTL DEF TimedSpec

\* At most two rounds still serve an event of a timer that the thread has stopped,
\* for any actions and events, also where several actions send the same event.
THEOREM LateEventsEnd == TimedSpec => []LateAtMostTwice
<1>1. TimedInv => LateAtMostTwice
  BY DEF TimedInv, LateInv, LateAtMostTwice
<1> QED
  BY <1>1, TimedInvariance, PTL

\* While the timer stays stopped its mailbox gets nothing.
THEOREM StoppedTimersPostNothing == TimedSpec => DrainedStaysDrained
<1> DEFINE Kept == stopped = "thread" /\ stopped' = "thread" => posted'[Task] \subseteq posted[Task]
<1>1. TimedInv /\ [TimedNext]_allvars => [Kept]_allvars
  <2> SUFFICES ASSUME TimedInv, [TimedNext]_allvars, stopped = "thread"
               PROVE  posted'[Task] \subseteq posted[Task]
    OBVIOUS
  <2>1. ~InterruptStep
    BY DEF InterruptStep, Handler, TimedInv, IInv, QuietInv
  <2>2. CASE ThreadStep \/ TimerStep \/ Over \/ UNCHANGED allvars
    BY <2>2 DEF ThreadStep, TimerStep, Over, allvars, mail
  <2>3. CASE Take
    BY <2>3 DEF Take, M!Take, TimedInv, MailInv
  <2>4. CASE \E b \in Bits : Serve(b)
    BY <2>4 DEF Serve, M!Serve
  <2> QED
    BY <2>1, <2>2, <2>3, <2>4 DEF TimedNext
<1> QED
  BY <1>1, TimedInvariance, PTL DEF TimedSpec, DrainedStaysDrained

\* Together with a task the timer keeps all that it promises alone.
THEOREM TimerIsUndisturbed == TimedSpec => Spec
<1>1. TimedInit => Init
  BY DEF TimedInit
<1> QED
  BY <1>1, TimerMoves, PTL DEF TimedSpec, Spec

\* And the task's mailbox, with the timer as its only sender, is an EventMailbox.
THEOREM MailboxIsUndisturbed == TimedSpec => M!Spec
<1>1. TimedInit => M!Init
  BY DEF TimedInit, M!Init
<1> QED
  BY <1>1, MailMoves, PTL DEF TimedSpec, M!Spec
=============================================================================
