--------------------------- MODULE Services_proofs ---------------------------
(***************************************************************************)
(* Proofs about the services, for every timeout, any delays, rates,        *)
(* amounts, processes and bounds: a floor-plan interpretation is asked for *)
(* at most three times, never too early and always within the timeout; a   *)
(* stored rate is its source's, the history grows with the sources, and a  *)
(* converted total is the nearest cent.  The interpretation first, then    *)
(* decimals, then the history (the instance R of Services); the theorems   *)
(* are at the end.  The geometry has a module of its own.                  *)
(***************************************************************************)
EXTENDS Services, FloorplanGeometry_proofs

\* The module of the instance counts as this one does.
LEMMA SameCardinality ==
  ASSUME NEW set
  PROVE  R!Cardinality(set) = Cardinality(set) /\ R!IsFiniteSet(set) = IsFiniteSet(set)
BY DEF Cardinality, R!Cardinality, IsFiniteSet, R!IsFiniteSet

-----------------------------------------------------------------------------
(* The interpretation. *)

Corrections == Reasons \union {"none"}
Asked ==
  [at : 0 .. Timeout - 1, n : 1 .. 2, fix : Corrections, again : BOOLEAN, allowed : Int]

TypesHold ==
  /\ FloorplanTypeOK
  /\ repeated \in BOOLEAN
  /\ limit \in Int
  /\ asked \subseteq Asked

\* The requests sent so far, seen from the attempt the handler is at.
AskedSoFar ==
  \A r \in asked :
    /\ r.n <= attempt
    /\ r.fix = (IF r.n = 1 THEN "none" ELSE correction)
    /\ r.again => repeated /\ r.n = 2 /\ r.fix # "none"
    /\ r.at >= r.allowed
    /\ \A s \in asked : r.n = s.n /\ r.again = s.again => r = s

\* What each step relies on.
StepRight ==
  /\ attempt = 1 => correction = "none"
  /\ repeated => attempt = 2 /\ correction # "none"
  /\ step = "start" => now = 0 /\ limit = 0 /\ asked = {}
  /\ step = "waiting" =>
       limit <= wake /\ \A r \in asked : ~(r.n = attempt /\ r.again = repeated)
  /\ step = "asking" =>
       limit <= now /\ \E r \in asked : r.n = attempt

InterpretationIInv == TypesHold /\ AskedSoFar /\ StepRight /\ AnswerIsExplained

-----------------------------------------------------------------------------

LEMMA InterpretationInitIInv ==
  ASSUME FloorplanTimes, Init PROVE InterpretationIInv
<1> USE DEF FloorplanTimes, Init
<1>1. TypesHold
  <2>1. FloorplanTypeOK
    BY DEF FloorplanTypeOK
  <2>2. repeated \in BOOLEAN
    OBVIOUS
  <2> QED BY <2>1, <2>2 DEF TypesHold
<1>2. AskedSoFar /\ StepRight
  BY DEF AskedSoFar, StepRight
<1>3. AnswerIsExplained
  BY DEF AnswerIsExplained, Pending
<1> QED BY <1>1, <1>2, <1>3 DEF InterpretationIInv

\* The handler answers, and is done.
LEMMA AnswerIInv ==
  ASSUME InterpretationIInv, NEW s, NEW retry \in BOOLEAN, Answer(s, retry), limit' \in Int,
         retry => s = "provider_unavailable",
         s = "needs_review" => attempt = 2
  PROVE  InterpretationIInv'
BY DEF Answer, InterpretationIInv, TypesHold, FloorplanTypeOK, AskedSoFar, StepRight,
       AnswerIsExplained

\* The handler sleeps before the second attempt or before its one repeat, or finds
\* that the sleep does not fit.
LEMMA WaitIInv ==
  ASSUME FloorplanTimes, InterpretationIInv, step = "asking",
         NEW delay \in Nat, NEW again \in BOOLEAN, WaitThen(delay, 2, again),
         limit' \in Int, limit' <= now + delay,
         IF again THEN MayRepeat ELSE attempt = 1
  PROVE  InterpretationIInv'
<1>1. CASE Unavailable(TRUE)
  BY <1>1, AnswerIInv DEF Unavailable
<1>2. CASE ~Unavailable(TRUE)
  <2>1. /\ Fits(delay)
        /\ step' = "waiting" /\ wake' = now + delay /\ attempt' = 2 /\ repeated' = again
        /\ UNCHANGED <<now, correction, asked, answer>>
    BY <1>2 DEF WaitThen
  <2> USE DEF InterpretationIInv
  <2>2. TypesHold'
    BY <2>1 DEF Fits, Remaining, TypesHold, FloorplanTypeOK, FloorplanTimes
  <2>3. AskedSoFar'
    BY <2>1 DEF AskedSoFar, StepRight, MayRepeat, TypesHold, Asked, FloorplanTypeOK
  <2>4. StepRight'
    BY <2>1 DEF AskedSoFar, StepRight, MayRepeat, TypesHold, Asked
  <2>5. AnswerIsExplained'
    BY <2>1 DEF AnswerIsExplained
  <2> QED BY <2>2, <2>3, <2>4, <2>5
<1> QED BY <1>1, <1>2

LEMMA AskIInv ==
  ASSUME FloorplanTimes, InterpretationIInv, Ask PROVE InterpretationIInv'
<1> USE DEF InterpretationIInv
<1> DEFINE r == [at |-> now, n |-> attempt, fix |-> correction, again |-> repeated,
                 allowed |-> limit]
<1>1. asked' = asked \union {r}
  BY DEF Ask
<1>2. r \in Asked /\ now < Timeout
  BY DEF Ask, Remaining, TypesHold, FloorplanTypeOK, Asked, Corrections, FloorplanTimes
<1>3. TypesHold'
  BY <1>1, <1>2 DEF Ask, TypesHold, FloorplanTypeOK, Asked, Corrections
<1>4. now >= limit /\ \A s \in asked : ~(s.n = attempt /\ s.again = repeated)
  BY DEF Ask, StepRight, TypesHold, FloorplanTypeOK
<1>5. /\ r.n = attempt /\ r.fix = correction /\ r.again = repeated
      /\ r.at = now /\ r.allowed = limit
  OBVIOUS
<1>6. repeated => attempt = 2 /\ correction # "none"
  BY DEF Ask, StepRight
<1>7. AskedSoFar'
  BY <1>1, <1>4, <1>5, <1>6 DEF Ask, AskedSoFar, StepRight, TypesHold, FloorplanTypeOK
<1>8. StepRight' /\ AnswerIsExplained'
  BY <1>1, <1>4, <1>5 DEF Ask, StepRight, AnswerIsExplained
<1> QED BY <1>3, <1>7, <1>8

\* The provider answers, or fails to.
LEMMA ProviderIInv ==
  ASSUME FloorplanTimes, InterpretationIInv,
         \/ \E h \in -1 .. MaxRetryAfter : RateLimited(h)
         \/ LimitedTooLong \/ Fails \/ Refuses \/ Proposes
         \/ \E r \in Reasons : Misproposes(r)
  PROVE  InterpretationIInv'
<1> USE DEF FloorplanTimes, Unavailable, Rejected
<1>1. limit \in Int /\ now \in Nat /\ attempt \in 1 .. 2 /\ (step = "asking" => limit <= now)
  BY DEF InterpretationIInv, TypesHold, FloorplanTypeOK, StepRight
<1>2. ASSUME NEW h \in -1 .. MaxRetryAfter, RateLimited(h) PROVE InterpretationIInv'
  <2>1. limit' \in Int /\ Delay(h) \in Nat /\ limit' <= now + Delay(h)
    BY <1>1, <1>2 DEF RateLimited, Delay
  <2> QED BY <1>2, <2>1, AnswerIInv, WaitIInv DEF RateLimited
<1>3. CASE LimitedTooLong
  <2>1. limit' \in Int
    BY <1>3 DEF LimitedTooLong
  <2> QED BY <1>3, <2>1, AnswerIInv DEF LimitedTooLong
<1>4. CASE Refuses \/ Proposes
  <2>1. limit' \in Int
    BY <1>1, <1>4 DEF Refuses, Proposes
  <2>2. Answer("provider_unavailable", FALSE) \/ Answer("proposal", FALSE)
    BY <1>4 DEF Refuses, Proposes
  <2> QED BY <2>1, <2>2, AnswerIInv
<1>5. CASE Fails
  <2>1. limit' \in Int /\ (step = "asking" => limit' <= now + RetryDelay)
    BY <1>1, <1>5 DEF Fails
  <2>2. CASE attempt = 1 /\ WaitThen(RetryDelay, 2, FALSE)
    BY <1>5, <2>1, <2>2, WaitIInv DEF Fails
  <2>3. CASE Answer("provider_unavailable", TRUE)
    BY <2>1, <2>3, AnswerIInv
  <2> QED BY <1>5, <2>2, <2>3 DEF Fails
<1>6. ASSUME NEW reason \in Reasons, Misproposes(reason) PROVE InterpretationIInv'
  <2>1. CASE Rejected /\ attempt = 2
    BY <1>1, <1>6, <2>1, AnswerIInv DEF Misproposes
  <2>2. CASE attempt = 1
    <3> USE DEF InterpretationIInv
    <3>1. /\ step = "asking" /\ Remaining > 0
          /\ step' = "waiting" /\ wake' = now /\ attempt' = 2 /\ correction' = reason
          /\ UNCHANGED <<now, repeated, asked, answer, limit>>
      BY <1>6, <2>2 DEF Misproposes
    <3>2. TypesHold'
      BY <2>2, <3>1 DEF TypesHold, FloorplanTypeOK, Remaining, Asked, Corrections
    <3>3. \A r \in asked : r.n = 1 /\ r.fix = "none" /\ ~r.again
      BY <2>2 DEF AskedSoFar, TypesHold, Asked
    <3>4. AskedSoFar'
      BY <3>1, <3>3 DEF AskedSoFar
    <3>5. StepRight'
      BY <1>1, <2>2, <3>1, <3>3 DEF StepRight
    <3>6. AnswerIsExplained'
      BY <2>2, <3>1, <3>3 DEF StepRight, AnswerIsExplained
    <3> QED BY <3>2, <3>4, <3>5, <3>6
  <2> QED BY <1>6, <2>1, <2>2 DEF Misproposes
<1> QED BY <1>2, <1>3, <1>4, <1>5, <1>6

LEMMA InterpretationInductive ==
  ASSUME FloorplanTimes, InterpretationIInv, [Next]_vars
  PROVE  InterpretationIInv'
<1>1. limit \in Int
  BY DEF InterpretationIInv, TypesHold
<1>2. CASE RefuseImage \/ NotConfigured \/ OutOfTime \/ GiveUp
  BY <1>1, <1>2, AnswerIInv DEF RefuseImage, NotConfigured, OutOfTime, GiveUp, Unavailable
<1>3. CASE Tick
  BY <1>3
  DEF Tick, Remaining, InterpretationIInv, TypesHold, FloorplanTypeOK, AskedSoFar, StepRight,
      AnswerIsExplained, FloorplanTimes
<1>4. CASE UNCHANGED vars
  BY <1>4
  DEF vars, InterpretationIInv, TypesHold, FloorplanTypeOK, AskedSoFar, StepRight,
      AnswerIsExplained
<1> QED BY <1>2, <1>3, <1>4, AskIInv, ProviderIInv DEF Next

-----------------------------------------------------------------------------
(* Decimals. *)

LEMMA Division ==
  ASSUME NEW n \in Int, NEW d \in Nat \ {0}
  PROVE  n \div d \in Int /\ n % d \in 0 .. d - 1 /\ n = d * (n \div d) + (n % d)
BY SMT

LEMMA HalfUpIs ==
  ASSUME NEW n \in Nat, NEW d \in Nat \ {0}
  PROVE  /\ R!HalfUp(n, d) \in Nat
         /\ -d <= 2 * (d * R!HalfUp(n, d) - n) /\ 2 * (d * R!HalfUp(n, d) - n) <= d
<1> DEFINE q == (2 * n + d) \div (2 * d)
           r == (2 * n + d) % (2 * d)
<1>1. 2 * n + d \in Int /\ 2 * d \in Nat \ {0}
  OBVIOUS
<1>2. q \in Int /\ r \in 0 .. 2 * d - 1 /\ 2 * n + d = (2 * d) * q + r
  BY <1>1, Division
<1>3. R!HalfUp(n, d) = q
  BY DEF R!HalfUp
<1> HIDE DEF q, r
<1>4. (2 * d) * q = 2 * (d * q) /\ d * q \in Int
  BY <1>2
<1>5. q >= 0
  BY <1>2, <1>4
<1> QED BY <1>2, <1>3, <1>4, <1>5

LEMMA HalfEvenIs ==
  ASSUME NEW n \in Nat, NEW d \in Nat \ {0}
  PROVE  /\ R!HalfEven(n, d) \in Nat
         /\ -d <= 2 * (d * R!HalfEven(n, d) - n) /\ 2 * (d * R!HalfEven(n, d) - n) <= d
<1> DEFINE q == n \div d
           r == n % d
<1>1. q \in Int /\ r \in 0 .. d - 1 /\ n = d * q + r
  BY Division
<1>2. R!HalfEven(n, d) = (IF 2 * r > d \/ (2 * r = d /\ q % 2 = 1) THEN q + 1 ELSE q)
  BY DEF R!HalfEven
<1> HIDE DEF q, r
<1>3. d * q \in Int /\ d * (q + 1) = d * q + d
  BY <1>1
<1>4. q >= 0
  BY <1>1, <1>3
<1>5. CASE R!HalfEven(n, d) = q /\ ~(2 * r > d)
  BY <1>1, <1>3, <1>4, <1>5
<1>6. CASE R!HalfEven(n, d) = q + 1 /\ 2 * r >= d
  BY <1>1, <1>3, <1>4, <1>6
<1> QED BY <1>1, <1>2, <1>5, <1>6

\* What a Decimal operation keeps of n / d.
LEMMA SignificantIs ==
  ASSUME R!RatesAssumption, NEW n \in Nat, NEW d \in Nat \ {0}
  PROVE  \E m \in Nat, e \in 0 .. Prec :
           /\ R!Significant(n, d) = <<m, e>>
           /\ -d <= 2 * (d * m - n * 10 ^ e) /\ 2 * (d * m - n * 10 ^ e) <= d
           /\ n = 0 => m = 0 /\ e = 0
           /\ n > 0 => 10 ^ (Prec - 1) * d <= n * 10 ^ e \/ e = Prec
<1>1. Prec \in Nat \ {0} /\ \A e \in 0 .. Prec : 10 ^ e \in Nat \ {0}
  BY DEF R!RatesAssumption, R!PowersOfTen
<1>2. CASE n = 0
  <2>1. R!Significant(n, d) = <<0, 0>>
    BY <1>2 DEF R!Significant
  <2>2. 0 * 10 ^ 0 = 0 /\ d * 0 = 0
    BY <1>1
  <2> QED BY <1>1, <1>2, <2>1, <2>2
<1>3. CASE n > 0
  <2> DEFINE T == {x \in 0 .. Prec : 10 ^ (Prec - 1) * d <= n * 10 ^ x \/ x = Prec}
             e == R!Min(T)
  <2>1. T \in SUBSET Nat /\ Prec \in T
    BY <1>1
  <2>2. e \in T
    <3>1. \E m \in T : \A x \in T : m <= x
      BY <2>1, LeastIs
    <3> QED BY <3>1 DEF R!Min
  <2>3. e \in 0 .. Prec /\ (10 ^ (Prec - 1) * d <= n * 10 ^ e \/ e = Prec)
    BY <2>2
  <2>4. R!Significant(n, d) = <<R!HalfEven(n * 10 ^ e, d), e>>
    BY <1>3 DEF R!Significant
  <2> HIDE DEF e, T
  <2>5. n * 10 ^ e \in Nat
    BY <1>1, <2>3
  <2> DEFINE m == R!HalfEven(n * 10 ^ e, d)
  <2>6. m \in Nat /\ -d <= 2 * (d * m - n * 10 ^ e) /\ 2 * (d * m - n * 10 ^ e) <= d
    BY <2>5, HalfEvenIs
  <2> HIDE DEF m
  <2>7. R!Significant(n, d) = <<m, e>>
    BY <2>4 DEF m
  <2> QED BY <1>3, <2>3, <2>6, <2>7
<1> QED BY <1>2, <1>3

LEMMA Scaled ==
  ASSUME NEW k \in Nat, NEW a \in Int, NEW b \in Int, -b <= a, a <= b
  PROVE  /\ k * a \in Int /\ k * b \in Int
         /\ -(k * b) <= k * a /\ k * a <= k * b
BY SMT

LEMMA Unscaled ==
  ASSUME NEW k \in Nat \ {0}, NEW a \in Int, NEW b \in Int, k * a < k * b
  PROVE  a < b
BY SMT

\* Three roundings, of A / S, of the product with T, and to whole cents, add up to
\* less than the step between two exact totals.
LEMMA RoundingsAddUp ==
  ASSUME NEW A \in Nat, NEW S \in Nat \ {0}, NEW T \in Nat \ {0},
         NEW d1 \in Nat \ {0}, NEW d2 \in Nat \ {0}, NEW m1 \in Nat, NEW m2 \in Nat,
         NEW c \in Nat, NEW E \in Nat, NEW F \in Nat,
         -E <= 2 * (m1 * S - A * d1), 2 * (m1 * S - A * d1) <= E, 2 * (T * E) < d1,
         -F <= 2 * (m2 * d1 - m1 * T * d2), 2 * (m2 * d1 - m1 * T * d2) <= F,
         2 * (S * F) < d1 * d2,
         -d2 <= 2 * (d2 * c - m2), 2 * (d2 * c - m2) <= d2
  PROVE  -S <= 2 * (c * S - A * T) /\ 2 * (c * S - A * T) <= S
<1> DEFINE x == 2 * (m1 * S - A * d1)
           y == 2 * (m2 * d1 - m1 * T * d2)
           z == 2 * (d2 * c - m2)
           X == 2 * (c * S - A * T)
           D == d1 * d2
           U == d1 * S
           V == T * d2
           TE == T * E
           SF == S * F
<1>1. x \in Int /\ y \in Int /\ z \in Int /\ X \in Int /\ D \in Nat \ {0}
      /\ U \in Nat /\ V \in Nat /\ TE \in Nat /\ SF \in Nat
  BY SMT
<1>2. D * X = U * z + S * y + V * x
  BY SMT
<1>3. U * d2 = D * S /\ V * E = d2 * TE /\ d2 * d1 = D
  BY SMT
<1>4. -E <= x /\ x <= E /\ -F <= y /\ y <= F /\ -d2 <= z /\ z <= d2
      /\ 2 * TE < d1 /\ 2 * SF < D
  OBVIOUS
<1> HIDE DEF x, y, z, X, D, U, V, TE, SF
<1>5. -(U * d2) <= U * z /\ U * z <= U * d2 /\ U * z \in Int /\ U * d2 \in Int
  BY <1>1, <1>4, Scaled
<1>6. -SF <= S * y /\ S * y <= SF /\ S * y \in Int
  BY <1>1, <1>4, Scaled DEF SF
<1>7. -(V * E) <= V * x /\ V * x <= V * E /\ V * x \in Int /\ V * E \in Int
  BY <1>1, <1>4, Scaled
<1>8. 2 * (d2 * TE) < D /\ d2 * TE \in Int
  <2>1. d2 * (2 * TE) < d2 * d1
    BY <1>1, <1>4, SMT
  <2>2. d2 * (2 * TE) = 2 * (d2 * TE)
    BY <1>1, SMT
  <2> QED BY <1>1, <1>3, <2>1, <2>2
<1>9. D * S \in Int /\ D * (S + 1) = D * S + D /\ D * (-S - 1) = -(D * S) - D
      /\ D * X \in Int
  BY <1>1, SMT
<1>10. D * X < D * (S + 1) /\ D * (-S - 1) < D * X
  BY <1>1, <1>2, <1>3, <1>4, <1>5, <1>6, <1>7, <1>8, <1>9
<1>11. X < S + 1 /\ -S - 1 < X
  BY <1>1, <1>10, Unscaled
<1> QED BY <1>1, <1>11 DEF X

\* What is left of a quotient of a small amount by a small rate S has more digits
\* than the totals it is used for.
LEMMA FirstRoundingIsFine ==
  ASSUME NEW a \in Nat \ {0}, NEW S \in Nat \ {0}, NEW T \in Nat \ {0}, NEW H \in Nat \ {0},
         NEW d \in Nat \ {0}, 2 * T * (a + S) < H, H * S <= a * d \/ H <= d
  PROVE  2 * (T * S) < d
<1> DEFINE TS == T * S
           TA == T * a
<1>1. TS \in Nat /\ TA \in Nat /\ 2 * T * (a + S) = 2 * TA + 2 * TS
  BY SMT
<1>2. CASE H <= d
  BY <1>1, <1>2
<1>3. CASE H * S <= a * d
  <2> SUFFICES ASSUME d <= 2 * TS PROVE FALSE
    BY <1>1
  <2>1. a * d <= a * (2 * TS)
    BY <1>1, Scaled, -d <= d, -(2 * TS) <= d
  <2>2. a * (2 * TS) = S * (2 * TA) /\ H * S = S * H /\ a * d \in Int
    BY SMT
  <2>3. S * H <= S * (2 * TA)
    BY <1>3, <2>1, <2>2, <1>1
  <2>4. 2 * TA < H
    BY <1>1
  <2>5. S * (2 * TA) < S * H
    BY <1>1, <2>4, SMT
  <2> QED BY <1>1, <2>3, <2>5
<1> QED BY <1>2, <1>3

LEMMA SecondRoundingIsFine ==
  ASSUME NEW a \in Nat, NEW S \in Nat \ {0}, NEW T \in Nat \ {0}, NEW H \in Nat \ {0},
         NEW d1 \in Nat \ {0}, NEW d2 \in Nat \ {0}, NEW m \in Nat, NEW E \in 0 .. S,
         2 * T * (a + S) < H, 2 * (m * S - a * d1) <= E, H * d1 <= m * T * d2 \/ H <= d2
  PROVE  2 * (S * d1) < d1 * d2
<1> DEFINE TS == T * S
           TA == T * a
           W == 2 * TA + TS
<1>1. TS \in Nat /\ TA \in Nat /\ 2 * T * (a + S) = 2 * TA + 2 * TS /\ S <= TS
  BY SMT
<1>2. 2 * S < d2
  <2>1. CASE H <= d2
    BY <1>1, <2>1
  <2>2. CASE H * d1 <= m * T * d2
    <3> SUFFICES ASSUME d2 <= 2 * S PROVE FALSE
      OBVIOUS
    <3> DEFINE mT == m * T
               mS == m * S
               ad == a * d1
    <3>1. mT \in Nat /\ mS \in Nat /\ ad \in Nat
      BY SMT
    <3>2. mT * d2 <= mT * (2 * S)
      BY <3>1, SMT
    <3>3. mT * (2 * S) = T * (2 * mS)
      BY SMT
    <3>4. 2 * mS <= 2 * ad + S
      BY <3>1
    <3>5. S <= S * d1 /\ S * d1 \in Int
      BY SMT
    <3>6. T * (2 * mS) <= T * (2 * ad + S * d1)
      BY <3>1, <3>4, <3>5, SMT
    <3>7. T * (2 * ad + S * d1) = d1 * W
      BY SMT
    <3>8. d1 * W < d1 * H
      <4>1. W < H
        BY <1>1
      <4> HIDE DEF W
      <4> QED BY <4>1, <1>1, SMT DEF W
    <3> QED BY <2>2, <3>1, <3>2, <3>3, <3>6, <3>7, <3>8, SMT
  <2> QED BY <2>1, <2>2
<1>3. d1 * (2 * S) < d1 * d2
  BY <1>2, SMT
<1>4. d1 * (2 * S) = 2 * (S * d1)
  BY SMT
<1> QED BY <1>3, <1>4

LEMMA ConvertIsNear ==
  ASSUME R!RatesAssumption, NEW a \in Amounts, NEW source, NEW target, source # target,
         NEW units, units[source] \in R!Units, units[target] \in R!Units, units["USD"] = 1
  PROVE  LET c == R!Convert(a, source, target, units)
         IN  /\ c \in Nat
             /\ -units[source] <= 2 * (c * units[source] - a * units[target])
             /\ 2 * (c * units[source] - a * units[target]) <= units[source]
<1> DEFINE S == units[source]
           T == units[target]
           H == 10 ^ (Prec - 1)
<1>1. /\ a \in Nat /\ Prec \in Nat \ {0}
      /\ S \in Nat \ {0} /\ T \in Nat \ {0}
      /\ H \in Nat \ {0}
      /\ \A e \in 0 .. Prec : 10 ^ e \in Nat \ {0}
      /\ H <= 10 ^ Prec
  BY DEF R!RatesAssumption, R!PowersOfTen, R!Units
<1>2. 2 * T * (a + S) < H
  BY DEF R!RatesAssumption, R!ContextHasRoom
<1> DEFINE usd == IF source = "USD" THEN <<a, 0>> ELSE R!Significant(a, S)
           got == IF target = "USD" THEN usd ELSE R!Significant(usd[1] * T, 10 ^ usd[2])
           c == R!HalfUp(got[1], 10 ^ got[2])
           First(m, e, E) ==
             /\ usd = <<m, e>>
             /\ -E <= 2 * (m * S - a * 10 ^ e) /\ 2 * (m * S - a * 10 ^ e) <= E
             /\ 2 * (T * E) < 10 ^ e
<1>3. R!Convert(a, source, target, units) = c
  BY DEF R!Convert
<1>4. \E m \in Nat, e \in 0 .. Prec, E \in 0 .. S : First(m, e, E)
  <2>1. CASE source = "USD"
    <3>1. usd = <<a, 0>> /\ S = 1 /\ 10 ^ 0 = 1
      BY <2>1
    <3>2. a * S - a * 10 ^ 0 = 0 /\ T * 0 = 0
      BY <1>1, <3>1
    <3>3. First(a, 0, 0) /\ 0 \in 0 .. S
      <4> HIDE DEF usd, S, T
      <4> QED BY <1>1, <3>1, <3>2
    <3> HIDE DEF First
    <3> QED BY <1>1, <3>3
  <2>2. CASE source # "USD"
    <3>1. usd = R!Significant(a, S)
      BY <2>2
    <3>2. PICK m \in Nat, e \in 0 .. Prec :
            /\ R!Significant(a, S) = <<m, e>>
            /\ -S <= 2 * (S * m - a * 10 ^ e) /\ 2 * (S * m - a * 10 ^ e) <= S
            /\ a = 0 => m = 0 /\ e = 0
            /\ a > 0 => 10 ^ (Prec - 1) * S <= a * 10 ^ e \/ e = Prec
      BY <1>1, SignificantIs
    <3> DEFINE d == 10 ^ e
    <3>3. d \in Nat \ {0}
      BY <1>1
    <3>4. S * m = m * S
      BY <1>1, SMT
    <3>5. CASE a = 0
      <4>1. m * S - a * d = 0 /\ T * 0 = 0
        BY <1>1, <3>2, <3>3, <3>5
      <4>2. First(m, e, 0) /\ 0 \in 0 .. S
        <5> HIDE DEF usd, S, T, d
        <5> QED BY <1>1, <3>1, <3>2, <3>3, <4>1 DEF d
      <4> HIDE DEF First
      <4> QED BY <4>2
    <3>6. CASE a > 0
      <4>1. H * S <= a * d \/ H <= d
        BY <1>1, <3>2, <3>6
      <4> HIDE DEF H, d, S, T
      <4>2. 2 * (T * S) < d
        BY <1>1, <1>2, <3>3, <3>6, <4>1, FirstRoundingIsFine
      <4>3. First(m, e, S) /\ S \in 0 .. S
        <5> HIDE DEF usd
        <5> QED BY <1>1, <3>1, <3>2, <3>4, <4>2 DEF d
      <4> HIDE DEF First
      <4> QED BY <4>3
    <3> QED BY <1>1, <3>5, <3>6
  <2> QED BY <2>1, <2>2
<1>5. PICK m1 \in Nat, e1 \in 0 .. Prec, E \in 0 .. S : First(m1, e1, E)
  BY <1>4
<1> DEFINE d1 == 10 ^ e1
           Second(m, e, F) ==
             /\ got = <<m, e>>
             /\ -F <= 2 * (m * d1 - m1 * T * 10 ^ e) /\ 2 * (m * d1 - m1 * T * 10 ^ e) <= F
             /\ 2 * (S * F) < d1 * 10 ^ e
<1>6. d1 \in Nat \ {0}
  BY <1>1
<1>7. \E m \in Nat, e \in 0 .. Prec, F \in Nat : Second(m, e, F)
  <2>1. CASE target = "USD"
    <3>1. got = <<m1, e1>> /\ T = 1
      BY <1>5, <2>1
    <3>2. m1 * d1 - m1 * T * d1 = 0 /\ S * 0 = 0 /\ 0 < d1 * d1
      <4> HIDE DEF d1, T
      <4> QED BY <1>1, <1>6, <3>1, SMT
    <3>3. Second(m1, e1, 0)
      <4> HIDE DEF got, S, T
      <4> QED BY <1>1, <3>1, <3>2
    <3> HIDE DEF Second
    <3> QED BY <3>3
  <2>2. CASE target # "USD"
    <3> DEFINE n == m1 * T
    <3>1. got = R!Significant(n, d1) /\ n \in Nat
      <4>1. usd[1] = m1 /\ usd[2] = e1
        <5> HIDE DEF usd
        <5> QED BY <1>5
      <4>2. got = R!Significant(usd[1] * T, 10 ^ usd[2])
        BY <2>2
      <4>3. n \in Nat
        <5> HIDE DEF T
        <5> QED BY <1>1
      <4> HIDE DEF got, usd, T
      <4> QED BY <4>1, <4>2, <4>3
    <3> HIDE DEF n
    <3>2. PICK m \in Nat, e \in 0 .. Prec :
            /\ R!Significant(n, d1) = <<m, e>>
            /\ -d1 <= 2 * (d1 * m - n * 10 ^ e) /\ 2 * (d1 * m - n * 10 ^ e) <= d1
            /\ n = 0 => m = 0 /\ e = 0
            /\ n > 0 => 10 ^ (Prec - 1) * d1 <= n * 10 ^ e \/ e = Prec
      BY <1>6, <3>1, SignificantIs
    <3> DEFINE d == 10 ^ e
    <3>3. d \in Nat \ {0}
      BY <1>1
    <3>4. d1 * m = m * d1
      BY <1>6, SMT
    <3>5. CASE n = 0
      <4>1. m * d1 - n * d = 0 /\ S * 0 = 0 /\ 0 < d1 * d
        <5> HIDE DEF d1, d
        <5> QED BY <1>1, <1>6, <3>2, <3>3, <3>5, SMT
      <4>2. Second(m, e, 0)
        <5> HIDE DEF got, S, T, d1
        <5> QED BY <1>1, <3>1, <3>2, <3>3, <4>1 DEF n
      <4> HIDE DEF Second
      <4> QED BY <4>2
    <3>6. CASE n > 0
      <4>1. H * d1 <= n * d \/ H <= d
        BY <1>1, <3>2, <3>6
      <4>2. 2 * (S * d1) < d1 * d
        <5> HIDE DEF H, d, S, T, d1
        <5> QED BY <1>1, <1>2, <1>5, <1>6, <3>3, <4>1, SecondRoundingIsFine DEF n, d1
      <4>3. Second(m, e, d1) /\ d1 \in Nat
        <5> HIDE DEF got, S, T, d1
        <5> QED BY <1>1, <1>6, <3>1, <3>2, <3>4, <4>2 DEF n, d
      <4> HIDE DEF Second
      <4> QED BY <4>3
    <3> QED BY <3>1, <3>5, <3>6
  <2> QED BY <2>1, <2>2
<1>8. PICK m2 \in Nat, e2 \in 0 .. Prec, F \in Nat : Second(m2, e2, F)
  BY <1>7
<1> DEFINE d2 == 10 ^ e2
<1>9. d2 \in Nat \ {0} /\ c = R!HalfUp(m2, d2)
  BY <1>1, <1>8
<1>10. c \in Nat /\ -d2 <= 2 * (d2 * c - m2) /\ 2 * (d2 * c - m2) <= d2
  <2> HIDE DEF c
  <2> QED BY <1>9, HalfUpIs
<1>11. -S <= 2 * (c * S - a * T) /\ 2 * (c * S - a * T) <= S
  <2>1. E \in Nat
    BY <1>1
  <2>2. /\ -E <= 2 * (m1 * S - a * d1) /\ 2 * (m1 * S - a * d1) <= E /\ 2 * (T * E) < d1
        /\ -F <= 2 * (m2 * d1 - m1 * T * d2) /\ 2 * (m2 * d1 - m1 * T * d2) <= F
        /\ 2 * (S * F) < d1 * d2
    <3> HIDE DEF usd, got, c, S, T
    <3> QED BY <1>5, <1>8
  <2> HIDE DEF c, d1, d2, S, T, usd, got
  <2> QED BY <1>1, <1>6, <1>9, <1>10, <2>1, <2>2, RoundingsAddUp
<1> QED BY <1>3, <1>10, <1>11

-----------------------------------------------------------------------------
(* The history of rates. *)

Honest(s) ==
  /\ s.units \in R!Units /\ s.units \in Nat \ {0}
  /\ s.currency \in R!Official
  /\ s.source = "bcb" => s.units \in BcbRates
  /\ s.source = "bcb-static" => s.units = Static
  /\ s.source = "coinbase" => s.units \in CoinbaseRates

Stored(r) == Honest(r) /\ r.id \in 1 .. issued /\ r.at \in 0 .. clock
OnePerCurrency(set) == \A s, q \in set : s.currency = q.currency => s = q
OnePerId(set) == \A s, q \in set : s.id = q.id => s = q
NoCommonId(set, other) == \A s \in set, q \in other : s.id # q.id

\* A run that has fetched knows one suggestion per currency, and one that has
\* written has rows that are not committed yet.
RunRight(p) ==
  /\ refresh[p] = [step |-> refresh[p].step, found |-> refresh[p].found, rows |-> refresh[p].rows]
  /\ refresh[p].step \in {"asleep", "fetched", "written"}
  /\ refresh[p].step # "written" => refresh[p].rows = {}
  /\ \A s \in refresh[p].found : Honest(s) /\ s.source # "manual"
  /\ \A r \in refresh[p].rows : Stored(r) /\ r.source # "manual"
  /\ OnePerCurrency(refresh[p].found) /\ OnePerCurrency(refresh[p].rows)
  /\ OnePerId(refresh[p].rows)
  /\ NoCommonId(refresh[p].rows, rates)
  /\ \A q \in Processes \ {p} : NoCommonId(refresh[p].rows, refresh[q].rows)

EntryRight ==
  entry # R!NoRow =>
    /\ Stored(entry) /\ entry.source = "manual"
    /\ NoCommonId({entry}, rates)
    /\ \A p \in Processes : NoCommonId({entry}, refresh[p].rows)

RowsRight ==
  /\ market \in [USDT : CoinbaseRates \union {0}, BOB : BcbRates \union {0}]
  /\ moves \in Nat /\ issued \in Nat /\ clock \in Nat
  /\ IsFiniteSet(rates) /\ OnePerId(rates) /\ \A r \in rates : Stored(r)
  /\ DOMAIN refresh = Processes /\ \A p \in Processes : RunRight(p)
  /\ EntryRight

QuoteRight == quote.total \in Nat /\ R!ConvertedToNearest

\* What an official row may still cost: the values the source has taken, and the
\* administered rates it supersedes.
Budget == moves + R!Entered
Count(c) == Cardinality(R!OfficialOf(c))
Value(c) == IF c = "USDT" THEN market.USDT ELSE R!Bob(market).units
AsSource(c) == R!RowsOf(c) # {} /\ R!Latest(c).units = Value(c)

\* The runs of the only process: one is saved up for the row that is due.
HistoryRight(p) ==
  \A c \in R!Official :
    /\ Count(c) <= Budget + 1
    /\ ~AsSource(c) => Count(c) <= Budget
    /\ \A s \in refresh[p].found :
         refresh[p].step = "fetched" /\ s.currency = c /\ s.units # Value(c) /\ ~R!Unchanged(s)
           => Count(c) + 1 <= Budget
    /\ \A r \in refresh[p].rows :
         r.currency = c =>
           /\ Count(c) <= Budget
           /\ r.units # Value(c) => Count(c) + 1 <= Budget
           /\ Count(c) + 1 <= Budget \/ \A q \in R!RowsOf(c) : R!Newer(r, q)

RatesIInv ==
  /\ RowsRight
  /\ QuoteRight
  /\ \A p \in Processes : Processes = {p} => HistoryRight(p)

-----------------------------------------------------------------------------

\* The latest row of a currency is one of its rows.
LEMMA LatestIs ==
  ASSUME RowsRight, NEW c, R!RowsOf(c) # {}
  PROVE  /\ R!Latest(c) \in R!RowsOf(c)
         /\ \A q \in R!RowsOf(c) \ {R!Latest(c)} : R!Newer(R!Latest(c), q)
<1> DEFINE S == R!RowsOf(c)
<1>1. \A r \in S : r \in rates /\ r.at \in 0 .. clock /\ r.id \in 1 .. issued
  BY DEF R!RowsOf, RowsRight, Stored
<1>2. clock \in Nat /\ issued \in Nat
  BY DEF RowsRight
<1>3. PICK a \in {clock - r.at : r \in S} : \A b \in {clock - r.at : r \in S} : a <= b
  <2>1. {clock - r.at : r \in S} \in SUBSET Nat
    BY <1>1, <1>2
  <2> QED BY <2>1, LeastIs
<1> DEFINE N == {r \in S : clock - r.at = a}
<1>4. PICK m \in {issued - r.id : r \in N} : \A b \in {issued - r.id : r \in N} : m <= b
  <2>1. {issued - r.id : r \in N} \in SUBSET Nat
    BY <1>1, <1>2
  <2>2. N # {}
    BY <1>3
  <2>3. {issued - r.id : r \in N} # {}
    <3> HIDE DEF N
    <3> QED BY <2>2
  <2> QED BY <2>1, <2>3, LeastIs
<1>5. PICK r \in N : issued - r.id = m
  BY <1>4
<1>6. \A q \in S \ {r} : R!Newer(r, q)
  <2> SUFFICES ASSUME NEW q \in S \ {r} PROVE R!Newer(r, q)
    OBVIOUS
  <2>1. q.id # r.id
    BY <1>1 DEF RowsRight, OnePerId
  <2>2. clock - r.at = a /\ a <= clock - q.at
    BY <1>3, <1>5
  <2>3. q.at = r.at => m <= issued - q.id
    BY <1>4, <2>2
  <2> QED BY <1>1, <1>2, <1>5, <2>1, <2>2, <2>3 DEF R!Newer
<1> QED BY <1>5, <1>6 DEF R!Latest

LEMMA RatesStart == ASSUME R!RatesAssumption, R!Init PROVE RatesIInv
<1> USE DEF R!Init, R!RatesAssumption
<1>1. RowsRight
  BY FS_EmptySet DEF RowsRight, RunRight, EntryRight, R!Asleep, OnePerCurrency, OnePerId, NoCommonId
<1>2. QuoteRight
  BY DEF QuoteRight, R!ConvertedToNearest, R!Off, R!NoQuote, R!Currencies, R!Official
<1>3. \A c : R!OfficialOf(c) = {} /\ {r \in rates : r.source = "manual"} = {}
  BY DEF R!OfficialOf, R!RowsOf
<1>4. R!Entered = 0 /\ \A c : Count(c) = 0
  BY <1>3, FS_EmptySet, SameCardinality DEF R!Entered, Count
<1>5. \A p \in Processes : HistoryRight(p)
  BY <1>4 DEF HistoryRight, Budget, R!Asleep
<1> QED BY <1>1, <1>2, <1>5 DEF RatesIInv

\* Entered and the count of a currency's official rows are numbers.
LEMMA CountsAreNumbers ==
  ASSUME RowsRight
  PROVE  /\ R!Entered \in Nat /\ Budget \in Nat
         /\ \A c : Count(c) \in Nat /\ IsFiniteSet(R!OfficialOf(c))
<1>1. {r \in rates : r.source = "manual"} \in SUBSET rates
      /\ \A c : R!OfficialOf(c) \in SUBSET rates
  BY DEF R!OfficialOf, R!RowsOf
<1>2. IsFiniteSet({r \in rates : r.source = "manual"}) /\ \A c : IsFiniteSet(R!OfficialOf(c))
  BY <1>1, FS_Subset DEF RowsRight
<1> QED BY <1>2, FS_CardinalityType, SameCardinality DEF R!Entered, Count, Budget, RowsRight

\* A step that leaves the table alone leaves what is read from it alone.
LEMMA TableKept ==
  ASSUME rates' = rates
  PROVE  /\ \A c : R!RowsOf(c)' = R!RowsOf(c) /\ R!Latest(c)' = R!Latest(c)
         /\ \A c : Count(c)' = Count(c)
         /\ R!Entered' = R!Entered
         /\ \A s : R!Unchanged(s)' = R!Unchanged(s)
         /\ moves' = moves => Budget' = Budget
BY DEF R!RowsOf, R!Latest, Count, R!OfficialOf, R!Entered, R!Unchanged, Budget

\* Another value, a failure, an interruption or an administered rate adds to the
\* budget, which is then enough for the row of whoever has already fetched.
LEMMA BudgetGrows ==
  ASSUME RowsRight, NEW p, HistoryRight(p),
         Budget' = Budget + 1, \A c \in R!Official : Count(c)' = Count(c),
         refresh'[p] = refresh[p] \/ (refresh'[p].found = {} /\ refresh'[p].rows = {}),
         rates' = rates \/ market' = market
  PROVE  HistoryRight(p)'
<1>1. Budget \in Nat /\ \A c : Count(c) \in Nat
  BY CountsAreNumbers
<1> SUFFICES ASSUME NEW c \in R!Official
    PROVE  /\ Count(c)' <= Budget' + 1
           /\ ~AsSource(c)' => Count(c)' <= Budget'
           /\ \A s \in refresh'[p].found :
                refresh'[p].step = "fetched" /\ s.currency = c /\ s.units # Value(c)'
                /\ ~R!Unchanged(s)' => Count(c)' + 1 <= Budget'
           /\ \A r \in refresh'[p].rows :
                r.currency = c =>
                  /\ Count(c)' <= Budget'
                  /\ r.units # Value(c)' => Count(c)' + 1 <= Budget'
                  /\ Count(c)' + 1 <= Budget' \/ \A q \in R!RowsOf(c)' : R!Newer(r, q)
  BY DEF HistoryRight
<1>2. Count(c) <= Budget + 1 /\ (~AsSource(c) => Count(c) <= Budget)
  BY DEF HistoryRight
<1>3. ASSUME NEW s \in refresh'[p].found, refresh'[p].step = "fetched", s.currency = c,
             s.units # Value(c)', ~R!Unchanged(s)'
      PROVE  Count(c) <= Budget
  <2>1. s \in refresh[p].found /\ refresh[p].step = "fetched"
    BY <1>3
  <2>2. CASE ~AsSource(c)
    BY <1>2, <2>2
  <2>3. CASE AsSource(c)
    <3>1. CASE s.units # Value(c)
      <4>1. ~R!Unchanged(s)
        BY <1>3, <2>3, <3>1 DEF AsSource, R!Unchanged
      <4> QED BY <1>1, <1>3, <2>1, <3>1, <4>1 DEF HistoryRight
    <3>2. CASE s.units = Value(c)
      <4>1. market' # market
        BY <1>3, <3>2 DEF Value, R!Bob
      <4>2. R!Unchanged(s)
        BY <1>3, <2>3, <3>2 DEF AsSource, R!Unchanged
      <4> QED BY <1>3, <4>1, <4>2, TableKept
    <3> QED BY <3>1, <3>2
  <2> QED BY <2>2, <2>3
<1>4. ASSUME NEW r \in refresh'[p].rows, r.currency = c PROVE Count(c) <= Budget
  BY <1>4 DEF HistoryRight
<1> QED BY <1>1, <1>2, <1>3, <1>4

\* What is stored stays right as time passes and ids are given out.
LEMMA StoredStays ==
  ASSUME RowsRight, issued' \in Nat, clock' \in Nat, issued <= issued', clock <= clock',
         NEW r, Stored(r)
  PROVE  Stored(r)'
BY DEF Stored, Honest, RowsRight

\* A step that leaves rows, runs and the entry alone.
LEMMA RowsKept ==
  ASSUME RowsRight, UNCHANGED <<rates, refresh, entry, issued>>,
         market' \in [USDT : CoinbaseRates \union {0}, BOB : BcbRates \union {0}],
         moves' \in Nat, clock' \in Nat, clock <= clock'
  PROVE  RowsRight'
<1>1. \A r : Stored(r) => Stored(r)'
  BY StoredStays DEF RowsRight
<1>2. \A p \in Processes : RunRight(p)'
  BY <1>1 DEF RowsRight, RunRight, Honest, OnePerCurrency, OnePerId, NoCommonId
<1>3. EntryRight'
  BY <1>1 DEF RowsRight, EntryRight, NoCommonId
<1> QED BY <1>1, <1>2, <1>3 DEF RowsRight, OnePerId

LEMMA SourceMovesIsRight ==
  ASSUME R!RatesAssumption, RatesIInv, R!SourceMoves PROVE RatesIInv'
<1>1. RowsRight /\ moves' = moves + 1 /\ UNCHANGED <<rates, issued, clock, entry, refresh, quote>>
  BY DEF RatesIInv, R!SourceMoves
<1>2. RowsRight'
  <2>1. market' \in [USDT : CoinbaseRates \union {0}, BOB : BcbRates \union {0}]
    BY DEF R!SourceMoves
  <2> QED BY <1>1, <2>1, RowsKept DEF RowsRight
<1>3. Budget' = Budget + 1 /\ \A c : Count(c)' = Count(c)
  BY <1>1, TableKept, CountsAreNumbers DEF Budget, RowsRight
<1>4. \A p \in Processes : HistoryRight(p) => HistoryRight(p)'
  BY <1>1, <1>3, BudgetGrows
<1>5. QuoteRight'
  BY <1>1 DEF RatesIInv, QuoteRight, R!ConvertedToNearest, R!Off
<1> QED BY <1>2, <1>4, <1>5 DEF RatesIInv

\* Steps that change neither the table nor the sources nor the runs.
LEMMA HistoryKept ==
  ASSUME RowsRight, UNCHANGED <<rates, market, moves, refresh>>, NEW p, HistoryRight(p)
  PROVE  HistoryRight(p)'
<1>1. \A c : /\ R!RowsOf(c)' = R!RowsOf(c) /\ R!Latest(c)' = R!Latest(c) /\ Count(c)' = Count(c)
             /\ Value(c)' = Value(c) /\ (AsSource(c)' <=> AsSource(c))
  BY TableKept DEF Value, R!Bob, AsSource
<1>2. Budget' = Budget /\ \A s : R!Unchanged(s)' <=> R!Unchanged(s)
  BY TableKept
<1> QED BY <1>1, <1>2 DEF HistoryRight

LEMMA TickIsRight ==
  ASSUME R!RatesAssumption, RatesIInv, R!Tick \/ UNCHANGED R!vars PROVE RatesIInv'
<1>1. /\ RowsRight /\ UNCHANGED <<market, moves, rates, issued, entry, refresh, quote>>
      /\ clock' \in Nat /\ clock <= clock'
  BY DEF RatesIInv, R!Tick, R!vars, RowsRight
<1>2. RowsRight'
  BY <1>1, RowsKept DEF RowsRight
<1>3. \A p \in Processes : HistoryRight(p) => HistoryRight(p)'
  BY <1>1, HistoryKept
<1>4. QuoteRight'
  BY <1>1 DEF RatesIInv, QuoteRight, R!ConvertedToNearest, R!Off
<1> QED BY <1>2, <1>3, <1>4 DEF RatesIInv

\* The rates a quote is converted by are those of rows, and of USD.
LEMMA QuoteIsRight ==
  ASSUME R!RatesAssumption, RatesIInv,
         NEW a \in Amounts, NEW s \in R!Currencies, NEW t \in R!Currencies, R!Quote(a, s, t)
  PROVE  RatesIInv'
<1>1. /\ RowsRight /\ UNCHANGED <<market, moves, rates, issued, clock, entry, refresh>>
      /\ s # t /\ R!Administered(s) /\ R!Administered(t)
      /\ quote' = [amount |-> a, source |-> s, target |-> t, rates |-> R!Current,
                   total |-> R!Convert(a, s, t, R!Current)]
  BY DEF RatesIInv, R!Quote
<1>2. RowsRight'
  BY <1>1, RowsKept DEF RowsRight
<1>3. \A p \in Processes : HistoryRight(p) => HistoryRight(p)'
  BY <1>1, HistoryKept
<1>4. R!Current["USD"] = 1
      /\ \A c \in R!Currencies : R!Administered(c) => R!Current[c] \in R!Units
  <2>1. 1 \in R!Units
    BY DEF R!Units
  <2>2. \A c \in R!Official : R!RowsOf(c) # {} => R!Latest(c).units \in R!Units
    BY <1>1, LatestIs DEF R!RowsOf, RowsRight, Stored, Honest
  <2> QED BY <2>1, <2>2 DEF R!Current, R!Currencies, R!Official, R!Administered
<1> DEFINE c == R!Convert(a, s, t, R!Current)
<1>5. /\ c \in Nat
      /\ -R!Current[s] <= 2 * (c * R!Current[s] - a * R!Current[t])
      /\ 2 * (c * R!Current[s] - a * R!Current[t]) <= R!Current[s]
  BY <1>1, <1>4, ConvertIsNear
<1>6. R!Current[s] \in Nat \ {0} /\ R!Current[t] \in Nat \ {0} /\ a \in Nat
  BY <1>1, <1>4 DEF R!Units, R!RatesAssumption
<1>7. QuoteRight'
  <2>1. /\ quote'.total = c /\ quote'.rates = R!Current /\ quote'.source = s
        /\ quote'.target = t /\ quote'.amount = a
    BY <1>1
  <2> HIDE DEF c
  <2>2. R!Off(quote)' = c * R!Current[s] - a * R!Current[t] /\ R!Off(quote)' \in Int
    BY <1>5, <1>6, <2>1, SMT DEF R!Off
  <2> QED BY <1>5, <1>6, <2>1, <2>2 DEF QuoteRight, R!ConvertedToNearest
<1> QED BY <1>2, <1>3, <1>7 DEF RatesIInv

-----------------------------------------------------------------------------
(* Administrators. *)

LEMMA CreateRateIsRight ==
  ASSUME R!RatesAssumption, RatesIInv, NEW m \in ManualRates, R!CreateRate(m.currency, m.units)
  PROVE  RatesIInv'
<1>1. /\ RowsRight /\ UNCHANGED <<market, moves, rates, clock, refresh, quote>>
      /\ issued' = issued + 1 /\ entry = R!NoRow
      /\ entry' = [id |-> issued', currency |-> m.currency, units |-> m.units,
                   source |-> "manual", at |-> clock]
      /\ m.currency \in R!Official /\ m.units > 0
  BY DEF RatesIInv, R!CreateRate, R!Accepted
<1>2. issued \in Nat /\ clock \in Nat /\ issued' \in Nat
  BY <1>1 DEF RowsRight
<1>3. \A r : Stored(r) => Stored(r)' /\ r.id # issued'
  BY <1>1, <1>2, StoredStays DEF Stored
<1> PICK e : e = [id |-> issued', currency |-> m.currency, units |-> m.units,
                  source |-> "manual", at |-> clock]
  OBVIOUS
<1>4. entry' = e /\ Stored(e)' /\ e.source = "manual" /\ e.id = issued'
  BY <1>1, <1>2 DEF Stored, Honest, R!Units, R!RatesAssumption
<1>5. EntryRight'
  <2>1. \A r \in rates : r.id # issued'
    BY <1>1, <1>3 DEF RowsRight
  <2>2. \A p \in Processes : \A r \in refresh[p].rows : r.id # issued'
    BY <1>1, <1>3 DEF RowsRight, RunRight
  <2> QED BY <1>1, <1>4, <2>1, <2>2 DEF EntryRight, NoCommonId
<1>6. \A p \in Processes : RunRight(p)'
  BY <1>1, <1>3 DEF RowsRight, RunRight, Honest, OnePerCurrency, OnePerId, NoCommonId
<1>7. RowsRight'
  BY <1>1, <1>2, <1>3, <1>5, <1>6 DEF RowsRight, OnePerId
<1>8. \A p \in Processes : HistoryRight(p) => HistoryRight(p)'
  BY <1>1, HistoryKept
<1>9. QuoteRight'
  BY <1>1 DEF RatesIInv, QuoteRight, R!ConvertedToNearest, R!Off
<1> QED BY <1>7, <1>8, <1>9 DEF RatesIInv

LEMMA CommitRateIsRight ==
  ASSUME R!RatesAssumption, RatesIInv, R!CommitRate PROVE RatesIInv'
<1>1. /\ RowsRight /\ UNCHANGED <<market, moves, issued, clock, refresh, quote>>
      /\ entry # R!NoRow /\ entry' = R!NoRow /\ rates' = rates \union {entry}
  BY DEF RatesIInv, R!CommitRate
<1>2. Stored(entry) /\ entry.source = "manual" /\ NoCommonId({entry}, rates)
      /\ \A p \in Processes : NoCommonId({entry}, refresh[p].rows)
  BY <1>1 DEF RowsRight, EntryRight
<1>3. \A r : Stored(r)' <=> Stored(r)
  BY <1>1 DEF Stored, Honest
<1>4. IsFiniteSet(rates') /\ entry \notin rates
  BY <1>1, <1>2, FS_AddElement DEF RowsRight, NoCommonId
<1>5. \A p \in Processes : RunRight(p)'
  BY <1>1, <1>2, <1>3 DEF RowsRight, RunRight, Honest, OnePerCurrency, OnePerId, NoCommonId
<1>6. RowsRight'
  BY <1>1, <1>2, <1>3, <1>4, <1>5 DEF RowsRight, EntryRight, OnePerId, NoCommonId
<1>7. R!Entered' = R!Entered + 1
  <2> DEFINE M == {r \in rates : r.source = "manual"}
  <2>1. {r \in rates' : r.source = "manual"} = M \union {entry} /\ entry \notin M
    BY <1>1, <1>2, <1>4
  <2>2. IsFiniteSet(M)
    BY FS_Subset, <1>1 DEF RowsRight
  <2>3. Cardinality(M \union {entry}) = Cardinality(M) + 1
    BY <2>1, <2>2, FS_AddElement
  <2> QED BY <2>1, <2>3, SameCardinality DEF R!Entered
<1>8. Budget' = Budget + 1
  BY <1>1, <1>7, CountsAreNumbers DEF Budget, RowsRight
<1>9. \A c \in R!Official : R!OfficialOf(c)' = R!OfficialOf(c)
  BY <1>1, <1>2 DEF R!OfficialOf, R!RowsOf
<1>10. \A p \in Processes : HistoryRight(p) => HistoryRight(p)'
  BY <1>1, <1>8, <1>9, BudgetGrows DEF Count
<1>11. QuoteRight'
  BY <1>1 DEF RatesIInv, QuoteRight, R!ConvertedToNearest, R!Off
<1> QED BY <1>6, <1>10, <1>11 DEF RatesIInv

-----------------------------------------------------------------------------
(* The refresh. *)

LEMMA SuggestionsAreHonest ==
  ASSUME R!RatesAssumption, RowsRight, R!Answers(market)
  PROVE  /\ OnePerCurrency(R!Suggested(market))
         /\ \A s \in R!Suggested(market) :
              Honest(s) /\ s.source # "manual" /\ s.units = Value(s.currency)
BY DEF R!Suggested, R!Bob, R!Usdt, R!Answers, OnePerCurrency, Honest, Value, R!Units,
       R!Official, R!RatesAssumption, RowsRight

\* A step of one process that touches neither the table nor the entry.
LEMMA RunChanges ==
  ASSUME R!RatesAssumption, RowsRight, NEW p \in Processes, NEW run,
         UNCHANGED <<market, rates, clock, entry>>, moves' \in Nat,
         issued' \in Nat, issued <= issued',
         refresh' = [refresh EXCEPT ![p] = run],
         run = [step |-> run.step, found |-> run.found, rows |-> run.rows],
         run.step \in {"asleep", "fetched", "written"}, run.step # "written" => run.rows = {},
         \A s \in run.found : Honest(s) /\ s.source # "manual",
         OnePerCurrency(run.found), OnePerCurrency(run.rows), OnePerId(run.rows),
         \A r \in run.rows :
           Honest(r) /\ r.source # "manual" /\ r.id \in issued + 1 .. issued' /\ r.at = clock
  PROVE  RowsRight'
<1>1. issued \in Nat /\ clock \in Nat
  BY DEF RowsRight
<1>2. \A r : Stored(r) => Stored(r)' /\ r.id \in 1 .. issued
  BY <1>1, StoredStays DEF Stored
<1>3. \A r \in run.rows : Stored(r)' /\ r.id > issued /\ r.id \in Int
  BY <1>1 DEF Stored, Honest
<1>4. \A q \in Processes \ {p} : refresh'[q] = refresh[q]
  BY DEF RowsRight
<1>5. refresh'[p] = run /\ DOMAIN refresh' = Processes
  BY DEF RowsRight
<1>6. \A r \in run.rows : /\ \A q \in rates : r.id # q.id
                          /\ \A k \in Processes : \A q \in refresh[k].rows : r.id # q.id
  BY <1>1, <1>2, <1>3 DEF RowsRight, RunRight
<1>7. \A s : Honest(s)' <=> Honest(s)
  BY DEF Honest
<1>8. RunRight(p)'
  BY <1>3, <1>4, <1>5, <1>6, <1>7 DEF RunRight, NoCommonId
<1>9. ASSUME NEW q \in Processes \ {p} PROVE RunRight(q)'
  <2>1. RunRight(q) /\ refresh'[q] = refresh[q]
    BY <1>4 DEF RowsRight
  <2>2. \A k \in Processes \ {q} : NoCommonId(refresh'[q].rows, refresh'[k].rows)
    BY <1>4, <1>5, <1>6, <2>1 DEF RunRight, NoCommonId
  <2> QED BY <1>2, <1>7, <2>1, <2>2 DEF RunRight, NoCommonId
<1>10. EntryRight'
  <2> SUFFICES ASSUME entry # R!NoRow PROVE EntryRight'
    BY DEF EntryRight
  <2>1. Stored(entry) /\ entry.id \in 1 .. issued
    BY <1>2 DEF RowsRight, EntryRight
  <2>2. \A q \in Processes : NoCommonId({entry}, refresh'[q].rows)
    BY <1>1, <1>3, <1>4, <1>5, <2>1 DEF RowsRight, EntryRight, NoCommonId
  <2> QED BY <1>2, <2>2 DEF RowsRight, EntryRight, NoCommonId
<1> QED BY <1>2, <1>5, <1>8, <1>9, <1>10 DEF RowsRight, OnePerId

LEMMA FetchIsRight ==
  ASSUME R!RatesAssumption, RatesIInv, NEW p \in Processes, R!Fetch(p) PROVE RatesIInv'
<1> DEFINE run == [step |-> "fetched", found |-> R!Suggested(market), rows |-> {}]
<1>1. /\ RowsRight /\ UNCHANGED <<market, moves, rates, issued, clock, entry, quote>>
      /\ R!Answers(market) /\ refresh' = [refresh EXCEPT ![p] = run]
  BY DEF RatesIInv, R!Fetch
<1>2. /\ OnePerCurrency(run.found)
      /\ \A s \in run.found : Honest(s) /\ s.source # "manual" /\ s.units = Value(s.currency)
  BY <1>1, SuggestionsAreHonest
<1>3. RowsRight'
  <2>1. OnePerCurrency(run.rows) /\ OnePerId(run.rows)
    BY DEF OnePerCurrency, OnePerId
  <2>2. issued \in Nat /\ moves \in Nat
    BY <1>1 DEF RowsRight
  <2>3. /\ run = [step |-> run.step, found |-> run.found, rows |-> run.rows]
        /\ run.step = "fetched" /\ run.rows = {}
    OBVIOUS
  <2> HIDE DEF run
  <2>4. /\ run.step \in {"asleep", "fetched", "written"} /\ (run.step # "written" => run.rows = {})
        /\ \A s \in run.found : Honest(s) /\ s.source # "manual"
        /\ OnePerCurrency(run.found) /\ OnePerCurrency(run.rows) /\ OnePerId(run.rows)
        /\ \A r \in run.rows :
             Honest(r) /\ r.source # "manual" /\ r.id \in issued + 1 .. issued' /\ r.at = clock
    BY <1>2, <2>1, <2>3
  <2>5. /\ UNCHANGED <<market, rates, clock, entry>> /\ moves' \in Nat
        /\ issued' \in Nat /\ issued <= issued' /\ RowsRight
        /\ refresh' = [refresh EXCEPT ![p] = run]
    BY <1>1, <2>2
  <2> QED BY <2>3, <2>4, <2>5, RunChanges
<1>4. ASSUME HistoryRight(p) PROVE HistoryRight(p)'
  <2>1. \A c : /\ R!RowsOf(c)' = R!RowsOf(c) /\ Count(c)' = Count(c)
               /\ Value(c)' = Value(c) /\ (AsSource(c)' <=> AsSource(c))
    BY <1>1, TableKept DEF Value, R!Bob, AsSource
  <2>2. Budget' = Budget
    BY <1>1, TableKept
  <2>3. refresh'[p] = run
    BY <1>1 DEF RowsRight
  <2> QED BY <1>2, <1>4, <2>1, <2>2, <2>3 DEF HistoryRight
<1>5. QuoteRight'
  BY <1>1 DEF RatesIInv, QuoteRight, R!ConvertedToNearest, R!Off
<1> QED BY <1>3, <1>4, <1>5 DEF RatesIInv

LEMMA InterruptIsRight ==
  ASSUME R!RatesAssumption, RatesIInv, NEW p \in Processes, R!Interrupt(p) PROVE RatesIInv'
<1>1. /\ RowsRight /\ UNCHANGED <<market, rates, issued, clock, entry, quote>>
      /\ moves' = moves + 1 /\ refresh' = [refresh EXCEPT ![p] = R!Asleep]
  BY DEF RatesIInv, R!Interrupt
<1>2. RowsRight'
  <2>1. OnePerCurrency({}) /\ OnePerId({})
    BY DEF OnePerCurrency, OnePerId
  <2>2. issued \in Nat /\ moves' \in Nat
    BY <1>1 DEF RowsRight
  <2> DEFINE run == R!Asleep
  <2>3. /\ run = [step |-> run.step, found |-> run.found, rows |-> run.rows]
        /\ run.step = "asleep" /\ run.found = {} /\ run.rows = {}
    BY DEF R!Asleep
  <2>4. refresh' = [refresh EXCEPT ![p] = run]
    BY <1>1
  <2> HIDE DEF run
  <2>5. /\ run.step \in {"asleep", "fetched", "written"} /\ (run.step # "written" => run.rows = {})
        /\ \A s \in run.found : Honest(s) /\ s.source # "manual"
        /\ OnePerCurrency(run.found) /\ OnePerCurrency(run.rows) /\ OnePerId(run.rows)
        /\ \A r \in run.rows :
             Honest(r) /\ r.source # "manual" /\ r.id \in issued + 1 .. issued' /\ r.at = clock
    BY <2>1, <2>3
  <2>6. /\ UNCHANGED <<market, rates, clock, entry>> /\ moves' \in Nat
        /\ issued' \in Nat /\ issued <= issued' /\ RowsRight
    BY <1>1, <2>2
  <2> QED BY <2>3, <2>4, <2>5, <2>6, RunChanges
<1>3. Budget' = Budget + 1 /\ \A c : Count(c)' = Count(c)
  BY <1>1, TableKept, CountsAreNumbers DEF Budget, RowsRight
<1>4. refresh'[p] = R!Asleep
  BY <1>1 DEF RowsRight
<1>5. HistoryRight(p) => HistoryRight(p)'
  BY <1>1, <1>3, <1>4, BudgetGrows DEF R!Asleep
<1>6. QuoteRight'
  BY <1>1 DEF RatesIInv, QuoteRight, R!ConvertedToNearest, R!Off
<1> QED BY <1>2, <1>5, <1>6 DEF RatesIInv

\* The rows of a run: one for each suggestion that differs, under new ids.
LEMMA InsertedIs ==
  ASSUME RowsRight, NEW p \in Processes, refresh[p].step = "fetched"
  PROVE  LET new == R!Differing(p)
             n == R!Cardinality(new)
             rows == R!Inserted(new)
         IN  /\ n \in Nat /\ OnePerCurrency(rows) /\ OnePerId(rows)
             /\ \A r \in rows :
                  /\ Honest(r) /\ r.source # "manual" /\ r.at = clock
                  /\ r.id \in issued + 1 .. issued + n
                  /\ \E s \in refresh[p].found :
                       s.currency = r.currency /\ s.units = r.units /\ ~R!Unchanged(s)
<1> DEFINE new == R!Differing(p)
           n == Cardinality(new)
<1>1. /\ OnePerCurrency(new)
      /\ \A s \in new : Honest(s) /\ s.source # "manual" /\ s \in refresh[p].found
                        /\ ~R!Unchanged(s)
  BY DEF RowsRight, RunRight, R!Differing, OnePerCurrency
<1>2. issued \in Nat /\ R!Cardinality(new) = n
  BY SameCardinality DEF RowsRight
<1> DEFINE B == {s \in new : s.currency = "BOB"}
           U == {s \in new : s.currency = "USDT"}
<1>3. new = B \union U /\ B \intersect U = {}
  BY <1>1 DEF Honest, R!Official
<1>4. \A V \in {B, U} : IsFiniteSet(V) /\ Cardinality(V) \in 0 .. 1
                       /\ (Cardinality(V) = 0 => V = {})
  <2> SUFFICES ASSUME NEW V \in {B, U}
      PROVE IsFiniteSet(V) /\ Cardinality(V) \in 0 .. 1 /\ (Cardinality(V) = 0 => V = {})
    OBVIOUS
  <2>1. V = {} \/ \E s : V = {s}
    BY <1>1 DEF OnePerCurrency
  <2> HIDE DEF B, U
  <2>2. CASE V = {}
    BY <2>2, FS_EmptySet
  <2>3. ASSUME NEW s, V = {s} PROVE IsFiniteSet(V) /\ Cardinality(V) = 1
    BY <2>3, FS_Singleton
  <2> QED BY <2>1, <2>2, <2>3
<1>5. n = Cardinality(B) + Cardinality(U) /\ IsFiniteSet(new)
  <2> HIDE DEF B, U, new
  <2>1. IsFiniteSet(B) /\ IsFiniteSet(U)
    BY <1>4
  <2>2. Cardinality(B \union U) = Cardinality(B) + Cardinality(U)
    BY <1>3, <1>4, <2>1, FS_Union, FS_EmptySet
  <2> QED BY <1>3, <2>1, <2>2, FS_Union
<1>6. /\ n \in Nat
      /\ U # {} => n >= 1
      /\ B # {} => n >= 1
      /\ U # {} /\ B # {} => n = 2
  <2> HIDE DEF B, U, new
  <2> QED BY <1>4, <1>5
<1> DEFINE id(s) == IF s.currency = "USDT" THEN issued + n ELSE issued + 1
<1>7. R!Inserted(new) = {R!Row(s, id(s)) : s \in new}
  BY <1>2 DEF R!Inserted
<1> HIDE DEF new, n
<1>8. \A s \in new : id(s) \in issued + 1 .. issued + n
  BY <1>1, <1>2, <1>6 DEF Honest, R!Official
<1>9. \A s, q \in new : id(s) = id(q) => s = q
  BY <1>1, <1>2, <1>6 DEF Honest, R!Official, OnePerCurrency
<1> HIDE DEF id, B, U
<1>10. \A s \in new : LET r == R!Row(s, id(s)) IN
         /\ Honest(r) /\ r.source # "manual" /\ r.at = clock /\ r.id = id(s)
         /\ s.currency = r.currency /\ s.units = r.units
  BY <1>1 DEF R!Row, Honest
<1>11. OnePerCurrency(R!Inserted(new)) /\ OnePerId(R!Inserted(new))
  BY <1>1, <1>7, <1>9, <1>10 DEF OnePerCurrency, OnePerId
<1>12. \A r \in R!Inserted(new) :
         /\ Honest(r) /\ r.source # "manual" /\ r.at = clock
         /\ r.id \in issued + 1 .. issued + n
         /\ \E s \in refresh[p].found :
              s.currency = r.currency /\ s.units = r.units /\ ~R!Unchanged(s)
  BY <1>1, <1>7, <1>8, <1>10
<1> QED BY <1>2, <1>6, <1>11, <1>12 DEF new, n

LEMMA AppendIsRight ==
  ASSUME R!RatesAssumption, RatesIInv, NEW p \in Processes, R!Append(p) PROVE RatesIInv'
<1> DEFINE new == R!Differing(p)
           n == R!Cardinality(new)
           rows == R!Inserted(new)
           run == [step |-> "written", found |-> refresh[p].found, rows |-> rows]
<1>1. /\ RowsRight /\ UNCHANGED <<market, moves, rates, clock, entry, quote>>
      /\ refresh[p].step = "fetched" /\ issued' = issued + n
      /\ refresh' = [refresh EXCEPT ![p] = run]
  BY DEF RatesIInv, R!Append, RowsRight
<1>2. /\ n \in Nat /\ OnePerCurrency(rows) /\ OnePerId(rows)
      /\ \A r \in rows :
           /\ Honest(r) /\ r.source # "manual" /\ r.at = clock
           /\ r.id \in issued + 1 .. issued + n
           /\ \E s \in refresh[p].found :
                s.currency = r.currency /\ s.units = r.units /\ ~R!Unchanged(s)
  BY <1>1, InsertedIs
<1>3. run.step = "written" /\ run.found = refresh[p].found /\ run.rows = rows
      /\ run = [step |-> run.step, found |-> run.found, rows |-> run.rows]
  OBVIOUS
<1> HIDE DEF new, n, rows, run
<1>4. RowsRight'
  <2>1. /\ run.step \in {"asleep", "fetched", "written"} /\ (run.step # "written" => run.rows = {})
        /\ \A s \in run.found : Honest(s) /\ s.source # "manual"
        /\ OnePerCurrency(run.found) /\ OnePerCurrency(run.rows) /\ OnePerId(run.rows)
        /\ \A r \in run.rows :
             Honest(r) /\ r.source # "manual" /\ r.id \in issued + 1 .. issued' /\ r.at = clock
    BY <1>1, <1>2, <1>3 DEF RowsRight, RunRight
  <2>2. /\ UNCHANGED <<market, rates, clock, entry>> /\ moves' \in Nat
        /\ issued' \in Nat /\ issued <= issued' /\ RowsRight
        /\ refresh' = [refresh EXCEPT ![p] = run]
    BY <1>1, <1>2 DEF RowsRight
  <2> QED BY <1>3, <2>1, <2>2, RunChanges
<1>5. ASSUME HistoryRight(p) PROVE HistoryRight(p)'
  <2>1. \A c : /\ R!RowsOf(c)' = R!RowsOf(c) /\ Count(c)' = Count(c)
               /\ Value(c)' = Value(c) /\ (AsSource(c)' <=> AsSource(c))
    BY <1>1, TableKept DEF Value, R!Bob, AsSource
  <2>2. Budget' = Budget /\ refresh'[p] = run
    BY <1>1, TableKept DEF RowsRight
  <2>3. ASSUME NEW c \in R!Official, NEW r \in rows, r.currency = c
        PROVE  /\ Count(c) <= Budget
               /\ r.units # Value(c) => Count(c) + 1 <= Budget
               /\ \A q \in R!RowsOf(c) : R!Newer(r, q)
    <3>1. PICK s \in refresh[p].found :
            s.currency = r.currency /\ s.units = r.units /\ ~R!Unchanged(s)
      BY <1>2
    <3>2. Budget \in Nat /\ Count(c) \in Nat
      BY <1>1, CountsAreNumbers
    <3>3. \A q \in R!RowsOf(c) : R!Newer(r, q)
      <4> SUFFICES ASSUME NEW q \in R!RowsOf(c) PROVE R!Newer(r, q)
        OBVIOUS
      <4>1. q.id \in 1 .. issued /\ q.at \in 0 .. clock /\ issued \in Nat /\ clock \in Nat
        BY <1>1 DEF R!RowsOf, RowsRight, Stored
      <4>2. r.at = clock /\ r.id \in issued + 1 .. issued + n
        BY <1>2, <2>3
      <4> QED BY <1>2, <4>1, <4>2 DEF R!Newer
    <3>4. CASE s.units = Value(c)
      <4>1. ~AsSource(c)
        BY <2>3, <3>1, <3>4 DEF AsSource, R!Unchanged
      <4>2. Count(c) <= Budget
        BY <1>5, <4>1 DEF HistoryRight
      <4> QED BY <3>1, <3>3, <3>4, <4>2
    <3>5. CASE s.units # Value(c)
      <4>1. Count(c) + 1 <= Budget
        BY <1>1, <1>5, <2>3, <3>1, <3>5 DEF HistoryRight
      <4> QED BY <3>1, <3>2, <3>3, <4>1
    <3> QED BY <3>3, <3>4, <3>5
  <2> QED BY <1>3, <1>5, <2>1, <2>2, <2>3 DEF HistoryRight
<1>6. QuoteRight'
  BY <1>1 DEF RatesIInv, QuoteRight, R!ConvertedToNearest, R!Off
<1> QED BY <1>4, <1>5, <1>6 DEF RatesIInv

\* The commit of a run is what its row was saved up for.
LEMMA CommitKeepsHistory ==
  ASSUME R!RatesAssumption, RowsRight, NEW p \in Processes, HistoryRight(p), R!Commit(p), RowsRight'
  PROVE  HistoryRight(p)'
<1> DEFINE rows == refresh[p].rows
<1>1. /\ rates' = rates \union rows /\ market' = market /\ moves' = moves
      /\ refresh'[p] = R!Asleep
  BY DEF R!Commit, RowsRight
<1>2. \A r \in rows : Stored(r) /\ r.source # "manual" /\ r \notin rates
  BY DEF RowsRight, RunRight, NoCommonId
<1>3. R!Entered' = R!Entered
  <2>1. {r \in rates' : r.source = "manual"} = {r \in rates : r.source = "manual"}
    BY <1>1, <1>2
  <2> QED BY <2>1 DEF R!Entered
<1>4. Budget' = Budget /\ Budget \in Nat /\ \A c : Value(c)' = Value(c)
  BY <1>1, <1>3, CountsAreNumbers DEF Budget, Value, R!Bob
<1>5. ASSUME NEW c \in R!Official
      PROVE  Count(c)' <= Budget + 1 /\ (~AsSource(c)' => Count(c)' <= Budget)
  <2>1. IsFiniteSet(R!OfficialOf(c)) /\ Count(c) \in Nat
    BY CountsAreNumbers
  <2>2. Count(c) <= Budget + 1 /\ (~AsSource(c) => Count(c) <= Budget)
    BY DEF HistoryRight
  <2>3. CASE \A r \in rows : r.currency # c
    <3>1. R!RowsOf(c)' = R!RowsOf(c)
      BY <1>1, <2>3 DEF R!RowsOf
    <3>2. Count(c)' = Count(c) /\ (AsSource(c)' <=> AsSource(c))
      BY <1>4, <3>1 DEF Count, R!OfficialOf, AsSource, R!Latest
    <3> QED BY <2>2, <3>2
  <2>4. ASSUME NEW r \in rows, r.currency = c
        PROVE  Count(c)' <= Budget + 1 /\ (~AsSource(c)' => Count(c)' <= Budget)
    <3>1. \A q \in rows : q.currency = c => q = r
      BY <2>4 DEF RowsRight, RunRight, OnePerCurrency
    <3>2. R!RowsOf(c)' = R!RowsOf(c) \union {r} /\ r \notin R!RowsOf(c)
      BY <1>1, <1>2, <2>4, <3>1 DEF R!RowsOf
    <3>3. R!OfficialOf(c)' = R!OfficialOf(c) \union {r} /\ r \notin R!OfficialOf(c)
      BY <1>2, <3>2 DEF R!OfficialOf
    <3>4. Count(c)' = Count(c) + 1
      BY <2>1, <3>3, FS_AddElement DEF Count
    <3>5. /\ Count(c) <= Budget
          /\ r.units # Value(c) => Count(c) + 1 <= Budget
          /\ Count(c) + 1 <= Budget \/ \A q \in R!RowsOf(c) : R!Newer(r, q)
      BY <2>4 DEF HistoryRight
    <3>6. ASSUME ~(Count(c) + 1 <= Budget) PROVE AsSource(c)'
      <4>1. r.units = Value(c) /\ \A q \in R!RowsOf(c) : R!Newer(r, q)
        BY <3>5, <3>6
      <4>2. \A q \in R!RowsOf(c)' : q.at \in Nat /\ q.id \in Nat
        BY DEF R!RowsOf, RowsRight, Stored
      <4>3. R!Latest(c)' = r
        <5>1. \A q \in R!RowsOf(c)' \ {r} : R!Newer(r, q)
          BY <3>2, <4>1
        <5>2. \A q \in R!RowsOf(c)' : (\A s \in R!RowsOf(c)' \ {q} : R!Newer(q, s)) => q = r
          BY <3>2, <4>2, <5>1 DEF R!Newer
        <5> QED BY <3>2, <5>1, <5>2 DEF R!Latest
      <4> QED BY <1>4, <3>2, <4>1, <4>3 DEF AsSource
    <3> QED BY <1>4, <2>1, <3>4, <3>5, <3>6
  <2> QED BY <2>3, <2>4
<1> QED BY <1>1, <1>4, <1>5 DEF HistoryRight, R!Asleep

LEMMA CommitIsRight ==
  ASSUME R!RatesAssumption, RatesIInv, NEW p \in Processes, R!Commit(p) PROVE RatesIInv'
<1> DEFINE rows == refresh[p].rows
<1>1. /\ RowsRight /\ UNCHANGED <<market, moves, issued, clock, entry, quote>>
      /\ rates' = rates \union rows /\ refresh' = [refresh EXCEPT ![p] = R!Asleep]
  BY DEF RatesIInv, R!Commit
<1>2. \A r : Stored(r)' <=> Stored(r)
  BY <1>1 DEF Stored, Honest
<1>3. RunRight(p) /\ refresh'[p] = R!Asleep /\ DOMAIN refresh' = Processes
      /\ \A q \in Processes \ {p} : refresh'[q] = refresh[q] /\ RunRight(q)
  BY <1>1 DEF RowsRight
<1>4. IsFiniteSet(rows)
  <2>1. ASSUME NEW c PROVE IsFiniteSet({r \in rows : r.currency = c})
    <3> DEFINE V == {r \in rows : r.currency = c}
    <3>1. \A r, q \in V : r = q
      BY <1>3 DEF RunRight, OnePerCurrency
    <3> HIDE DEF V
    <3>2. ASSUME NEW r \in V PROVE IsFiniteSet(V)
      <4>1. V = {r}
        BY <3>1
      <4> QED BY <4>1, FS_Singleton
    <3> QED BY <3>2, FS_EmptySet DEF V
  <2>2. rows = {r \in rows : r.currency = "BOB"} \union {r \in rows : r.currency = "USDT"}
    BY <1>3 DEF RunRight, Stored, Honest, R!Official
  <2> DEFINE B == {r \in rows : r.currency = "BOB"}
             U == {r \in rows : r.currency = "USDT"}
  <2>3. IsFiniteSet(B) /\ IsFiniteSet(U) /\ rows = B \union U
    BY <2>1, <2>2
  <2> HIDE DEF rows, B, U
  <2> QED BY <2>3, FS_Union
<1>5. IsFiniteSet(rates') /\ OnePerId(rates') /\ \A r \in rates' : Stored(r)'
  <2>1. IsFiniteSet(rates')
    BY <1>1, <1>4, FS_Union DEF RowsRight
  <2>2. OnePerId(rates')
    BY <1>1, <1>3 DEF RowsRight, RunRight, OnePerId, NoCommonId
  <2> QED BY <1>1, <1>2, <1>3, <2>1, <2>2 DEF RowsRight, RunRight
<1>6. RunRight(p)'
  BY <1>3 DEF RunRight, R!Asleep, OnePerCurrency, OnePerId, NoCommonId
<1>7. ASSUME NEW q \in Processes \ {p} PROVE RunRight(q)'
  <2>1. RunRight(q) /\ refresh'[q] = refresh[q]
    BY <1>3
  <2>2. NoCommonId(refresh'[q].rows, rates')
    BY <1>1, <2>1 DEF RunRight, NoCommonId
  <2>3. \A k \in Processes \ {q} : NoCommonId(refresh'[q].rows, refresh'[k].rows)
    <3>1. NoCommonId(refresh'[q].rows, refresh'[p].rows)
      BY <1>3 DEF NoCommonId, R!Asleep
    <3>2. ASSUME NEW k \in Processes \ {q}, k # p
          PROVE  NoCommonId(refresh'[q].rows, refresh'[k].rows)
      <4>1. refresh'[k] = refresh[k] /\ NoCommonId(refresh[q].rows, refresh[k].rows)
        BY <1>3, <2>1, <3>2 DEF RunRight
      <4> QED BY <2>1, <4>1
    <3> QED BY <3>1, <3>2
  <2> QED BY <1>2, <2>1, <2>2, <2>3 DEF RunRight, Stored, Honest
<1>8. EntryRight'
  BY <1>1, <1>2, <1>3 DEF RowsRight, EntryRight, NoCommonId, R!Asleep
<1>9. RowsRight'
  BY <1>1, <1>3, <1>5, <1>6, <1>7, <1>8 DEF RowsRight
<1>10. HistoryRight(p) => HistoryRight(p)'
  BY <1>1, <1>9, CommitKeepsHistory
<1>11. QuoteRight'
  BY <1>1 DEF RatesIInv, QuoteRight, R!ConvertedToNearest, R!Off
<1> QED BY <1>9, <1>10, <1>11 DEF RatesIInv

LEMMA RatesStep ==
  ASSUME R!RatesAssumption, RatesIInv, [R!Next]_(R!vars) PROVE RatesIInv'
BY SourceMovesIsRight, TickIsRight, QuoteIsRight, CreateRateIsRight, CommitRateIsRight,
   FetchIsRight, AppendIsRight, CommitIsRight, InterruptIsRight DEF R!Next

LEMMA RatesAreRight ==
  ASSUME R!RatesAssumption, RatesIInv PROVE R!RatesInvariant
<1>1. R!RatesTypeOK /\ R!LabelsAreHonest
  BY DEF RatesIInv, RowsRight, RunRight, Stored, Honest, OnePerId, QuoteRight,
         R!RatesTypeOK, R!LabelsAreHonest
<1>2. R!HistoryFollowsSources
  <2> SUFFICES ASSUME Cardinality(Processes) = 1, NEW c \in R!Official
      PROVE Count(c) <= Budget + 1
    <3>1. moves + 1 + R!Entered = Budget + 1
      BY CountsAreNumbers DEF Budget, RatesIInv, RowsRight
    <3> QED BY <3>1, SameCardinality DEF R!HistoryFollowsSources, Count
  <2>1. PICK p : Processes = {p}
    BY FS_Singleton, SameCardinality DEF R!RatesAssumption
  <2> QED BY <2>1 DEF RatesIInv, HistoryRight
<1> QED BY <1>1, <1>2 DEF RatesIInv, QuoteRight, R!RatesInvariant

-----------------------------------------------------------------------------
(* The theorems. *)

servicesVars == <<part, vars, rateVars, roomVars>>

\* A step of the composition is a step of the part the behaviour is of.
LEMMA ServicesStep ==
  ASSUME [ServicesNext]_servicesVars
  PROVE  /\ part' = part /\ [Next]_vars
         /\ part = "rates" => [R!Next]_(R!vars)
         /\ part = "geometry" => [RoomNext]_roomVars
BY DEF ServicesNext, servicesVars, vars, rateVars, roomVars, R!vars

ServicesIInv ==
  /\ InterpretationIInv
  /\ part = "rates" => RatesIInv
  /\ part = "geometry" => RoomIInv

\* The inductive invariants of the parts hold in every reachable state.
LEMMA ServicesInductiveInvariant ==
  ASSUME ServicesAssumption PROVE ServicesSpec => []ServicesIInv
<1>1. ServicesAssumption /\ ServicesInit => ServicesIInv
  BY InterpretationInitIInv, RatesStart, RoomStarts
     DEF ServicesAssumption, ServicesInit, ServicesIInv
<1>2. ServicesAssumption /\ ServicesIInv /\ [ServicesNext]_servicesVars => ServicesIInv'
  BY ServicesStep, InterpretationInductive, RatesStep, RoomStep
     DEF ServicesAssumption, ServicesIInv
<1> QED BY <1>1, <1>2, PTL DEF ServicesSpec, servicesVars

\* Whatever the provider answers and however long it takes: it is asked at most
\* three times, never before the moment it named, and never after the timeout.
THEOREM InterpretationSafe ==
  ASSUME ServicesAssumption PROVE ServicesSpec => []InterpretationInvariant
<1>1. InterpretationIInv => InterpretationInvariant
  BY DEF InterpretationIInv, InterpretationInvariant, TypesHold, AskedSoFar, FloorplanTypeOK,
         Asked, Corrections, BoundedAsking, RetryAfterIsKept
<1> QED BY <1>1, ServicesInductiveInvariant, PTL DEF ServicesIInv

\* However the sources fail and move, the processes overlap and administrators
\* interfere: a stored value is one its source published under that name, one
\* process appends no more official rows than the sources took values and
\* administered rates were superseded, and a converted total is within half a cent
\* of the exact one.
THEOREM RatesSafe ==
  ASSUME ServicesAssumption PROVE ServicesSpec => []RatesInvariant
<1>1. ServicesAssumption /\ ServicesIInv => RatesInvariant
  BY RatesAreRight DEF ServicesAssumption, ServicesIInv, RatesInvariant
<1> QED BY <1>1, ServicesInductiveInvariant, PTL

\* Whatever contour the provider proposes: normalisation keeps its area and the
\* schema's verdict on it, finds the wall of every edge, leaves no wall in two
\* and displaces no opening.
THEOREM GeometrySafe ==
  ASSUME ServicesAssumption PROVE ServicesSpec => []GeometryInvariant
<1>1. ServicesIInv => GeometryInvariant
  BY RoomIsRight DEF ServicesIInv, GeometryInvariant
<1> QED BY <1>1, ServicesInductiveInvariant, PTL
=============================================================================
