-------------------------- MODULE RiotClientProofs --------------------------
(***************************************************************************)
(* The request budget of the Riot API client, for any number of callers,   *)
(* any two token buckets and any stretch of time.                          *)
(*                                                                         *)
(* The two buckets are the same machine with other numbers, so the         *)
(* argument is one invariant, Bucket, of the credit of a bucket, the       *)
(* callers that hold a token of it and have not sent, the ticks each of    *)
(* them still waits, and the requests sent.  A request that is due in s    *)
(* ticks counts against the stretch that ends then: the tokens that are    *)
(* due by that time and the requests already sent fit into what the bucket *)
(* lets through until then.  The lemmas are the five things that happen to *)
(* a bucket; each action of RiotClient is one of them for either bucket.   *)
(***************************************************************************)
EXTENDS RiotClient, FiniteSetTheorems, TLAPS

-----------------------------------------------------------------------------
(* One bucket *)

\* The holders whose token is there within s ticks.
Due(H, S, s) == {d \in H : S[d] <= s}

\* Credit a stretch of i ticks may use up.
Allowance(burst, period, i) == period * (burst + Cardinality(Caller)) + i

Waits(period, credit, H, S) ==
  /\ \A c \in H : S[c] \in Nat /\ (S[c] > 0 => credit <= -S[c])
  /\ \A c, d \in H :
       c # d /\ S[c] > 0 /\ S[d] > 0 => S[c] + period <= S[d] \/ S[d] + period <= S[c]

Fits(burst, period, credit, H, S, n) ==
  \A i \in 1 .. Window :
    /\ period * n[i] <= Allowance(burst, period, i)
    /\ credit + period * (Cardinality(H) + n[i]) <= Allowance(burst, period, i)
    /\ \A c \in H :
         period * (Cardinality(Due(H, S, S[c])) + n[i]) <= Allowance(burst, period, i) + S[c]

Bucket(burst, period, credit, H, S, n) ==
  /\ credit \in Int /\ credit <= burst * period
  /\ H \subseteq Caller
  /\ \A i \in 1 .. Window : n[i] \in Nat
  /\ Waits(period, credit, H, S)
  /\ Fits(burst, period, credit, H, S, n)

LEMMA MaxOfTwo == \A a, b \in Int :
                    /\ Max({a, b}) = IF a >= b THEN a ELSE b
                    /\ Min({a, b}) = IF a <= b THEN a ELSE b
<1> SUFFICES ASSUME NEW a \in Int, NEW b \in Int
             PROVE  /\ Max({a, b}) = IF a >= b THEN a ELSE b
                    /\ Min({a, b}) = IF a <= b THEN a ELSE b
  OBVIOUS
<1>1. Max({a, b}) = IF a >= b THEN a ELSE b
  BY DEF Max
<1>2. Min({a, b}) = IF a <= b THEN a ELSE b
  BY DEF Min
<1> QED BY <1>1, <1>2

LEMMA UntilIs == \A credit \in Int : Until(credit) = IF credit >= 0 THEN 0 ELSE -credit
BY MaxOfTwo DEF Until

LEMMA TimesIsMonotone ==
  ASSUME NEW p \in Nat, NEW a \in Int, NEW b \in Int, a <= b
  PROVE  p * a <= p * b
<1>1. p * (b - a) >= 0
  OBVIOUS
<1>2. p * (b - a) = p * b - p * a
  OBVIOUS
<1> QED BY <1>1, <1>2

LEMMA TimesDistributes ==
  ASSUME NEW p \in Int, NEW a \in Int, NEW b \in Int
  PROVE  p * (a + b) = p * a + p * b /\ p * (a + b) \in Int
OBVIOUS

LEMMA CountsAreNumbers ==
  ASSUME NEW H, H \subseteq Caller, NEW S, NEW s
  PROVE  /\ IsFiniteSet(H) /\ Cardinality(H) \in Nat /\ Cardinality(H) <= Cardinality(Caller)
         /\ Cardinality(Caller) \in Nat
         /\ Due(H, S, s) \subseteq H /\ IsFiniteSet(Due(H, S, s))
         /\ Cardinality(Due(H, S, s)) \in Nat
         /\ Cardinality(Due(H, S, s)) <= Cardinality(H)
<1>1. IsFiniteSet(H) /\ Cardinality(H) \in Nat /\ Cardinality(H) <= Cardinality(Caller)
      /\ Cardinality(Caller) \in Nat
  BY BucketAssumption, FS_Subset, FS_CardinalityType
<1>2. Due(H, S, s) \subseteq H
  BY DEF Due
<1> QED BY <1>1, <1>2, FS_Subset, FS_CardinalityType
LEMMA AllowanceIsANumber ==
  ASSUME NEW burst \in Nat \ {0}, NEW period \in Nat \ {0}, NEW i \in Int
  PROVE  /\ Allowance(burst, period, i) \in Int
         /\ Allowance(burst, period, i + 1) = Allowance(burst, period, i) + 1
         /\ \A k \in Int : k <= Cardinality(Caller)
              => burst * period + period * k + i <= Allowance(burst, period, i)
<1>1. Cardinality(Caller) \in Nat
  BY BucketAssumption, FS_CardinalityType
<1>2. period * (burst + Cardinality(Caller)) \in Int
  BY <1>1
<1>3. ASSUME NEW k \in Int, k <= Cardinality(Caller)
      PROVE  burst * period + period * k <= period * (burst + Cardinality(Caller))
  <2>1. period * (burst + k) <= period * (burst + Cardinality(Caller))
    BY <1>1, <1>3, TimesIsMonotone
  <2>2. period * (burst + k) = burst * period + period * k
    OBVIOUS
  <2> QED BY <2>1, <2>2
<1>4. \A k \in Int : burst * period + period * k \in Int
  OBVIOUS
<1> QED BY <1>2, <1>3, <1>4 DEF Allowance

\* A caller that holds no token takes the next one.
LEMMA Reserve ==
  ASSUME NEW burst \in Nat \ {0}, NEW period \in Nat \ {0}, NEW credit, NEW H, NEW S, NEW n, NEW T,
         Bucket(burst, period, credit, H, S, n),
         NEW c \in Caller, c \notin H, T[c] = Until(credit - period), \A d \in H : T[d] = S[d]
  PROVE  Bucket(burst, period, credit - period, H \cup {c}, T, n)
<1> DEFINE left == credit - period
           J == H \cup {c}
<1>1. credit \in Int /\ credit <= burst * period /\ burst * period \in Int
  BY DEF Bucket
<1>2. left \in Int /\ left <= burst * period /\ left < credit
  BY <1>1
<1>3. T[c] = IF left >= 0 THEN 0 ELSE -left
  BY <1>2, UntilIs
<1>4. /\ J \subseteq Caller /\ H \subseteq Caller
      /\ IsFiniteSet(H) /\ Cardinality(H) \in Nat
      /\ IsFiniteSet(J) /\ Cardinality(J) = Cardinality(H) + 1
  BY FS_AddElement, CountsAreNumbers DEF Bucket
<1>5. \A d \in H : T[d] \in Nat /\ (T[d] > 0 => credit <= -T[d])
  BY DEF Bucket, Waits
<1>6. Waits(period, left, J, T)
  <2>1. \A d \in J : T[d] \in Nat /\ (T[d] > 0 => left <= -T[d])
    BY <1>1, <1>2, <1>3, <1>5
  <2>2. \A d \in H : T[d] > 0 /\ T[c] > 0 => T[d] + period <= T[c]
    BY <1>1, <1>2, <1>3, <1>5
  <2>3. \A d, e \in H :
          d # e /\ T[d] > 0 /\ T[e] > 0 => T[d] + period <= T[e] \/ T[e] + period <= T[d]
    BY DEF Bucket, Waits
  <2> QED BY <2>1, <2>2, <2>3 DEF Waits
<1>7. ASSUME NEW i \in 1 .. Window
      PROVE  /\ period * n[i] <= Allowance(burst, period, i)
             /\ left + period * (Cardinality(J) + n[i]) <= Allowance(burst, period, i)
             /\ \A d \in J :
                  period * (Cardinality(Due(J, T, T[d])) + n[i]) <= Allowance(burst, period, i) + T[d]
  <2>1. n[i] \in Nat /\ period * n[i] <= Allowance(burst, period, i)
    BY <1>7 DEF Bucket, Fits
  <2>2. Allowance(burst, period, i) \in Int
    BY <1>7, AllowanceIsANumber
  <2>3. left + period * (Cardinality(J) + n[i]) <= Allowance(burst, period, i)
    <3>1. credit + period * (Cardinality(H) + n[i]) <= Allowance(burst, period, i)
      BY <1>7 DEF Bucket, Fits
    <3>2. period * (Cardinality(H) + n[i] + 1) = period * (Cardinality(H) + n[i]) + period
      BY <1>4, <2>1
    <3>3. Cardinality(J) + n[i] = Cardinality(H) + n[i] + 1
      BY <1>4, <2>1
    <3> DEFINE before == period * (Cardinality(H) + n[i])
               after == period * (Cardinality(J) + n[i])
    <3>4. before \in Int /\ after = before + period
      BY <1>4, <2>1, <3>2, <3>3
    <3>5. credit + before <= Allowance(burst, period, i)
      BY <3>1
    <3> HIDE DEF before, after
    <3>6. left + after <= Allowance(burst, period, i)
      BY <1>1, <2>2, <3>4, <3>5
    <3> QED BY <3>6 DEF after
  <2>4. ASSUME NEW d \in J
        PROVE  period * (Cardinality(Due(J, T, T[d])) + n[i]) <= Allowance(burst, period, i) + T[d]
    <3>1. T[d] \in Nat /\ T[c] \in Nat
      BY <1>6 DEF Waits
    <3>2. CASE c \in Due(J, T, T[d])
      \* Then nobody behind c is due with d: all holders are, and d pays the debt.
      <4>1. -left <= T[d]
        BY <1>1, <1>2, <1>3, <1>5, <3>1, <3>2 DEF Due
      <4>2. /\ Cardinality(Due(J, T, T[d])) \in Nat /\ Cardinality(J) \in Nat
            /\ Cardinality(Due(J, T, T[d])) <= Cardinality(J)
        BY <1>4, CountsAreNumbers
      <4> DEFINE k == Cardinality(Due(J, T, T[d]))  m == Cardinality(J)
      <4>3. period * (k + n[i]) <= period * (m + n[i])
        BY <2>1, <4>2, TimesIsMonotone
      <4>4. period * (k + n[i]) \in Int /\ period * (m + n[i]) \in Int
        BY <2>1, <4>2
      <4> QED BY <1>2, <2>2, <2>3, <3>1, <4>1, <4>3, <4>4
    <3>3. CASE c \notin Due(J, T, T[d])
      <4>1. d \in H /\ T[d] = S[d]
        BY <3>1, <3>3 DEF Due
      <4>2. Due(J, T, T[d]) = Due(H, S, S[d])
        BY <3>3, <4>1 DEF Due
      <4> QED BY <1>7, <4>1, <4>2 DEF Bucket, Fits
    <3> QED BY <3>2, <3>3
  <2> QED BY <2>1, <2>3, <2>4
<1>8. Fits(burst, period, left, J, T, n)
  BY <1>7 DEF Fits
<1> QED BY <1>2, <1>4, <1>6, <1>8 DEF Bucket
\* A caller gives up its token.  The credit comes back only if it was still
\* asleep and nobody has reserved after it.
LEMMA Leave ==
  ASSUME NEW burst \in Nat \ {0}, NEW period \in Nat \ {0}, NEW credit, NEW H, NEW S, NEW n, NEW T,
         Bucket(burst, period, credit, H, S, n),
         NEW c \in H, \A d \in H \ {c} : T[d] = S[d],
         NEW left,
         left = credit \/ (S[c] > 0 /\ S[c] = Until(credit) /\ left = credit + period)
  PROVE  Bucket(burst, period, left, H \ {c}, T, n)
<1> DEFINE J == H \ {c}
<1>1. credit \in Int /\ credit <= burst * period /\ burst * period \in Int
  BY DEF Bucket
<1>2. /\ J \subseteq Caller /\ H \subseteq Caller
      /\ IsFiniteSet(H) /\ Cardinality(H) \in Nat
      /\ IsFiniteSet(J) /\ Cardinality(J) = Cardinality(H) - 1 /\ Cardinality(J) \in Nat
  <2>1. H \subseteq Caller /\ IsFiniteSet(H)
    BY CountsAreNumbers DEF Bucket
  <2> QED BY <2>1, FS_RemoveElement, FS_CardinalityType
<1>3. /\ \A d \in H : S[d] \in Nat /\ (S[d] > 0 => credit <= -S[d])
      /\ \A d, e \in H :
           d # e /\ S[d] > 0 /\ S[e] > 0 => S[d] + period <= S[e] \/ S[e] + period <= S[d]
  BY DEF Bucket, Waits
<1>4. left \in Int /\ (left = credit \/ (left = credit + period /\ credit = -S[c] /\ S[c] > 0))
  BY <1>1, <1>3, UntilIs
<1>5. period <= burst * period
  BY TimesIsMonotone
<1>6. left <= burst * period
  BY <1>1, <1>3, <1>4, <1>5
<1>7. Waits(period, left, J, T)
  <2>1. \A d \in J : T[d] \in Nat /\ (T[d] > 0 => left <= -T[d])
    BY <1>1, <1>3, <1>4
  <2> QED BY <1>3, <2>1 DEF Waits
<1>8. ASSUME NEW i \in 1 .. Window
      PROVE  /\ period * n[i] <= Allowance(burst, period, i)
             /\ left + period * (Cardinality(J) + n[i]) <= Allowance(burst, period, i)
             /\ \A d \in J :
                  period * (Cardinality(Due(J, T, T[d])) + n[i]) <= Allowance(burst, period, i) + T[d]
  <2>1. n[i] \in Nat /\ period * n[i] <= Allowance(burst, period, i)
    BY <1>8 DEF Bucket, Fits
  <2>2. Allowance(burst, period, i) \in Int
    BY <1>8, AllowanceIsANumber
  <2>3. left + period * (Cardinality(J) + n[i]) <= Allowance(burst, period, i)
    <3> DEFINE before == period * (Cardinality(H) + n[i])
               after == period * (Cardinality(J) + n[i])
    <3>1. credit + before <= Allowance(burst, period, i)
      BY <1>8 DEF Bucket, Fits
    <3>2. before = period * (Cardinality(J) + n[i] + 1)
      BY <1>2, <2>1
    <3>3. period * (Cardinality(J) + n[i] + 1) = after + period /\ after \in Int
      BY <1>2, <2>1
    <3>4. before \in Int /\ before = after + period
      BY <3>2, <3>3
    <3> HIDE DEF before, after
    <3>5. left + after <= Allowance(burst, period, i)
      BY <1>1, <1>4, <2>2, <3>1, <3>3, <3>4
    <3> QED BY <3>5 DEF after
  <2>4. ASSUME NEW d \in J
        PROVE  period * (Cardinality(Due(J, T, T[d])) + n[i]) <= Allowance(burst, period, i) + T[d]
    <3> DEFINE k == Cardinality(Due(J, T, T[d]))  m == Cardinality(Due(H, S, S[d]))
    <3>1. T[d] = S[d] /\ S[d] \in Nat /\ Due(J, T, T[d]) \subseteq Due(H, S, S[d])
      BY <1>3 DEF Due
    <3>2. k \in Nat /\ m \in Nat /\ k <= m
      BY <1>2, <3>1, CountsAreNumbers, FS_Subset
    <3>3. period * (m + n[i]) <= Allowance(burst, period, i) + S[d]
      BY <1>8 DEF Bucket, Fits
    <3>4. period * (k + n[i]) <= period * (m + n[i])
      BY <2>1, <3>2, TimesIsMonotone
    <3>5. period * (k + n[i]) \in Int /\ period * (m + n[i]) \in Int
      BY <2>1, <3>2
    <3> QED BY <2>2, <3>1, <3>3, <3>4, <3>5
  <2> QED BY <2>1, <2>3, <2>4
<1>9. Fits(burst, period, left, J, T, n)
  BY <1>8 DEF Fits
<1> QED BY <1>2, <1>4, <1>6, <1>7, <1>9 DEF Bucket

\* A caller whose token is there sends.
LEMMA Spend ==
  ASSUME NEW burst \in Nat \ {0}, NEW period \in Nat \ {0}, NEW credit, NEW H, NEW S, NEW n, NEW T, NEW m,
         Bucket(burst, period, credit, H, S, n),
         NEW c \in H, S[c] = 0, \A d \in H \ {c} : T[d] = S[d],
         \A i \in 1 .. Window : m[i] = n[i] + 1
  PROVE  Bucket(burst, period, credit, H \ {c}, T, m)
<1> DEFINE J == H \ {c}
<1>1. credit \in Int /\ credit <= burst * period
  BY DEF Bucket
<1>2. /\ J \subseteq Caller /\ H \subseteq Caller
      /\ IsFiniteSet(H) /\ Cardinality(H) \in Nat
      /\ Cardinality(J) = Cardinality(H) - 1 /\ Cardinality(J) \in Nat
  <2>1. H \subseteq Caller /\ IsFiniteSet(H)
    BY CountsAreNumbers DEF Bucket
  <2> QED BY <2>1, FS_RemoveElement, FS_CardinalityType
<1>3. Waits(period, credit, J, T)
  BY DEF Bucket, Waits
<1>4. \A d \in H : S[d] \in Nat
  BY DEF Bucket, Waits
<1>5. ASSUME NEW i \in 1 .. Window
      PROVE  /\ m[i] \in Nat
             /\ period * m[i] <= Allowance(burst, period, i)
             /\ credit + period * (Cardinality(J) + m[i]) <= Allowance(burst, period, i)
             /\ \A d \in J :
                  period * (Cardinality(Due(J, T, T[d])) + m[i]) <= Allowance(burst, period, i) + T[d]
  <2>1. n[i] \in Nat /\ m[i] \in Nat /\ m[i] = n[i] + 1
    BY <1>5 DEF Bucket
  <2>2. Allowance(burst, period, i) \in Int
    BY <1>5, AllowanceIsANumber
  <2>3. ASSUME NEW d \in H
        PROVE  /\ IsFiniteSet(Due(H, S, S[d])) /\ c \in Due(H, S, S[d])
               /\ Cardinality(Due(H, S, S[d])) \in Nat /\ Cardinality(Due(H, S, S[d])) >= 1
               /\ Cardinality(Due(H, S, S[d]) \ {c}) = Cardinality(Due(H, S, S[d])) - 1
    <3> DEFINE D == Due(H, S, S[d])
    <3>1. c \in D
      BY <1>4 DEF Due
    <3>2. IsFiniteSet(D) /\ Cardinality(D) \in Nat
      BY <1>2, CountsAreNumbers
    <3> HIDE DEF D
    <3>3. IsFiniteSet(D \ {c}) /\ Cardinality(D \ {c}) = Cardinality(D) - 1
      BY <3>1, <3>2, FS_RemoveElement
    <3>4. Cardinality(D \ {c}) \in Nat
      BY <3>3, FS_CardinalityType
    <3>5. Cardinality(D) >= 1
      BY <3>2, <3>3, <3>4
    <3> QED BY <3>1, <3>2, <3>3, <3>5 DEF D
  <2>4. period * m[i] <= Allowance(burst, period, i)
    <3> DEFINE k == Cardinality(Due(H, S, S[c]))
    <3>1. period * (k + n[i]) <= Allowance(burst, period, i) + S[c]
      BY <1>5 DEF Bucket, Fits
    <3>2. k \in Nat /\ k >= 1
      BY <2>3
    <3> HIDE DEF k
    <3>3. n[i] + 1 <= k + n[i] /\ n[i] + 1 \in Int /\ k + n[i] \in Int
      BY <2>1, <3>2
    <3>4. period * (n[i] + 1) <= period * (k + n[i])
      BY <3>3, TimesIsMonotone
    <3>5. period * (n[i] + 1) \in Int /\ period * (k + n[i]) \in Int
      BY <3>3
    <3> QED BY <2>1, <2>2, <3>1, <3>4, <3>5
  <2>5. credit + period * (Cardinality(J) + m[i]) <= Allowance(burst, period, i)
    <3>1. Cardinality(J) + m[i] = Cardinality(H) + n[i]
      BY <1>2, <2>1
    <3> QED BY <1>5, <3>1 DEF Bucket, Fits
  <2>6. ASSUME NEW d \in J
        PROVE  period * (Cardinality(Due(J, T, T[d])) + m[i]) <= Allowance(burst, period, i) + T[d]
    <3>1. T[d] = S[d] /\ Due(J, T, T[d]) = Due(H, S, S[d]) \ {c}
      BY DEF Due
    <3> DEFINE k == Cardinality(Due(H, S, S[d]))
    <3>2. k \in Nat /\ Cardinality(Due(J, T, T[d])) = k - 1
      BY <2>3, <3>1
    <3>3. Cardinality(Due(J, T, T[d])) + m[i] = k + n[i]
      BY <2>1, <3>2
    <3> QED BY <1>5, <3>1, <3>3 DEF Bucket, Fits
  <2> QED BY <2>1, <2>4, <2>5, <2>6
<1>6. Fits(burst, period, credit, J, T, m)
  BY <1>5 DEF Fits
<1> QED BY <1>1, <1>2, <1>3, <1>5, <1>6 DEF Bucket
\* Every wait gets shorter, and the last i ticks are the i - 1 before and a new one.
Shorter(H, S, T) == \A d \in H : T[d] = Max({0, S[d] - 1})
Shifted(n, m) == \A i \in 1 .. Window : m[i] = IF i = 1 THEN 0 ELSE n[i - 1]

\* A tick passes, in which the bucket gains a unit.
LEMMA Passes ==
  ASSUME NEW burst \in Nat \ {0}, NEW period \in Nat \ {0}, NEW credit, NEW H, NEW S, NEW n, NEW T, NEW m,
         Bucket(burst, period, credit, H, S, n),
         Shorter(H, S, T), Shifted(n, m)
  PROVE  Bucket(burst, period, Min({credit + 1, burst * period}), H, T, m)
<1> DEFINE left == Min({credit + 1, burst * period})
<1>1. credit \in Int /\ credit <= burst * period /\ burst * period \in Int
  BY DEF Bucket
<1>2. left \in Int /\ left <= burst * period /\ left <= credit + 1
  <2> DEFINE full == burst * period  more == credit + 1
  <2>1. full \in Int /\ more \in Int
    BY <1>1
  <2> HIDE DEF full, more
  <2>2. Min({more, full}) = IF more <= full THEN more ELSE full
    BY <2>1, MaxOfTwo
  <2>3. Min({more, full}) \in Int /\ Min({more, full}) <= full /\ Min({more, full}) <= more
    BY <2>1, <2>2
  <2> QED BY <2>3 DEF full, more
<1> HIDE DEF left
<1>3. /\ H \subseteq Caller
      /\ IsFiniteSet(H) /\ Cardinality(H) \in Nat /\ Cardinality(H) <= Cardinality(Caller)
      /\ Cardinality(Caller) \in Nat
  BY CountsAreNumbers DEF Bucket
<1>4. /\ \A d \in H : S[d] \in Nat /\ (S[d] > 0 => credit <= -S[d])
      /\ \A d, e \in H :
           d # e /\ S[d] > 0 /\ S[e] > 0 => S[d] + period <= S[e] \/ S[e] + period <= S[d]
  BY DEF Bucket, Waits
<1>5. ASSUME NEW d \in H
      PROVE  T[d] = IF S[d] = 0 THEN 0 ELSE S[d] - 1
  <2> DEFINE less == S[d] - 1
  <2>1. S[d] \in Nat /\ less \in Int /\ less = S[d] - 1 /\ T[d] = Max({0, less})
    BY <1>4 DEF Shorter
  <2> HIDE DEF less
  <2>2. Max({0, less}) = IF 0 >= less THEN 0 ELSE less
    BY <2>1, MaxOfTwo
  <2> QED BY <2>1, <2>2
<1>6. Waits(period, left, H, T)
  <2>1. \A d \in H : T[d] \in Nat /\ (T[d] > 0 => left <= -T[d])
    BY <1>1, <1>2, <1>4, <1>5
  <2>2. \A d, e \in H :
          d # e /\ T[d] > 0 /\ T[e] > 0 => T[d] + period <= T[e] \/ T[e] + period <= T[d]
    BY <1>4, <1>5
  <2> QED BY <2>1, <2>2 DEF Waits
<1>7. ASSUME NEW i \in 1 .. Window
      PROVE  /\ m[i] \in Nat
             /\ period * m[i] <= Allowance(burst, period, i)
             /\ left + period * (Cardinality(H) + m[i]) <= Allowance(burst, period, i)
             /\ \A d \in H :
                  period * (Cardinality(Due(H, T, T[d])) + m[i]) <= Allowance(burst, period, i) + T[d]
  <2>1. Window \in Nat /\ i \in Int /\ Allowance(burst, period, i) \in Int
    <3>1. Window \in Nat
      BY BucketAssumption
    <3>2. i \in Int
      BY <1>7, <3>1
    <3> QED BY <3>1, <3>2, AllowanceIsANumber
  <2>2. CASE i = 1
    <3>1. m[i] = 0
      BY <2>2 DEF Shifted
    <3>2. ASSUME NEW k \in Nat, k <= Cardinality(H)
          PROVE  /\ period * (k + m[i]) \in Int
                 /\ burst * period + period * (k + m[i]) + 1 <= Allowance(burst, period, i)
      <4>1. burst * period + period * k + 1 <= Allowance(burst, period, 1)
        <5>1. 1 \in Int /\ k \in Int /\ k <= Cardinality(Caller)
          BY <1>3, <3>2
        <5> QED BY <5>1, AllowanceIsANumber
      <4>2. k + m[i] = k /\ period * k \in Int
        BY <3>1
      <4> QED BY <2>2, <4>1, <4>2
    <3>3. period * m[i] = 0 /\ burst * period >= 0
      BY <3>1
    <3>4. period * m[i] <= Allowance(burst, period, i)
      <4>1. period * (0 + m[i]) = 0
        BY <3>1
      <4> QED BY <1>1, <1>3, <2>1, <3>2, <3>3, <4>1
    <3>5. left + period * (Cardinality(H) + m[i]) <= Allowance(burst, period, i)
      <4> DEFINE x == period * (Cardinality(H) + m[i])
      <4>1. x \in Int /\ burst * period + x + 1 <= Allowance(burst, period, i)
        BY <1>3, <3>2
      <4> HIDE DEF x
      <4>2. left + x <= Allowance(burst, period, i)
        BY <1>1, <1>2, <2>1, <4>1
      <4> QED BY <4>2 DEF x
    <3>6. ASSUME NEW d \in H
          PROVE  period * (Cardinality(Due(H, T, T[d])) + m[i]) <= Allowance(burst, period, i) + T[d]
      <4> DEFINE x == period * (Cardinality(Due(H, T, T[d])) + m[i])
      <4>1. x \in Int /\ burst * period + x + 1 <= Allowance(burst, period, i)
        BY <1>3, <3>2, CountsAreNumbers
      <4>2. T[d] \in Nat
        BY <1>6 DEF Waits
      <4> HIDE DEF x
      <4>3. x <= Allowance(burst, period, i) + T[d]
        BY <1>1, <2>1, <3>3, <4>1, <4>2
      <4> QED BY <4>3 DEF x
    <3> QED BY <3>1, <3>4, <3>5, <3>6
  <2>3. CASE i # 1
    <3> DEFINE j == i - 1
    <3>1. j \in 1 .. Window /\ j \in Int /\ m[i] = n[j] /\ j + 1 = i
      BY <1>7, <2>1, <2>3 DEF Shifted
    <3> HIDE DEF j
    <3>2. n[j] \in Nat /\ m[i] \in Nat
      BY <3>1 DEF Bucket
    <3>3. Allowance(burst, period, j) \in Int /\ Allowance(burst, period, i) = Allowance(burst, period, j) + 1
      BY <3>1, AllowanceIsANumber
    <3>4. period * m[i] <= Allowance(burst, period, i)
      <4>1. period * m[i] <= Allowance(burst, period, j) /\ period * m[i] \in Int
        BY <3>1, <3>2 DEF Bucket, Fits
      <4> QED BY <3>3, <4>1
    <3>5. left + period * (Cardinality(H) + m[i]) <= Allowance(burst, period, i)
      <4> DEFINE x == period * (Cardinality(H) + m[i])
      <4>1. x \in Int /\ credit + x <= Allowance(burst, period, j)
        BY <1>3, <3>1, <3>2 DEF Bucket, Fits
      <4> HIDE DEF x
      <4>2. left + x <= Allowance(burst, period, i)
        BY <1>1, <1>2, <3>3, <4>1
      <4> QED BY <4>2 DEF x
    <3>6. ASSUME NEW d \in H
          PROVE  period * (Cardinality(Due(H, T, T[d])) + m[i]) <= Allowance(burst, period, i) + T[d]
      <4>1. ASSUME NEW e \in H, S[e] <= T[d] + 1, Due(H, T, T[d]) \subseteq Due(H, S, S[e])
            PROVE  period * (Cardinality(Due(H, T, T[d])) + m[i]) <= Allowance(burst, period, i) + T[d]
        <5> DEFINE k == Cardinality(Due(H, T, T[d]))  l == Cardinality(Due(H, S, S[e]))
        <5>1. k \in Nat /\ l \in Nat /\ k <= l
          BY <1>3, <4>1, CountsAreNumbers, FS_Subset
        <5>2. period * (l + m[i]) <= Allowance(burst, period, j) + S[e]
          BY <3>1 DEF Bucket, Fits
        <5> HIDE DEF k, l
        <5>3. period * (k + m[i]) <= period * (l + m[i])
          BY <3>2, <5>1, TimesIsMonotone
        <5>4. period * (k + m[i]) \in Int /\ period * (l + m[i]) \in Int
          BY <3>2, <5>1
        <5>5. S[e] \in Nat /\ T[d] \in Nat
          BY <1>4, <1>6 DEF Waits
        <5>6. period * (k + m[i]) <= Allowance(burst, period, i) + T[d]
          BY <3>3, <4>1, <5>2, <5>3, <5>4, <5>5
        <5> QED BY <5>6 DEF k
      <4>2. CASE \E e \in H : T[d] = 0 /\ S[e] = 1
        <5>1. PICK e \in H : T[d] = 0 /\ S[e] = 1
          BY <4>2
        <5>2. Due(H, T, T[d]) \subseteq Due(H, S, S[e])
          BY <1>4, <1>5, <5>1 DEF Due
        <5> QED BY <4>1, <5>1, <5>2
      <4>3. CASE ~ \E e \in H : T[d] = 0 /\ S[e] = 1
        <5>1. Due(H, T, T[d]) \subseteq Due(H, S, S[d])
          BY <1>4, <1>5, <4>3 DEF Due
        <5>2. S[d] <= T[d] + 1
          BY <1>4, <1>5
        <5> QED BY <4>1, <5>1, <5>2
      <4> QED BY <4>2, <4>3
    <3> QED BY <3>2, <3>4, <3>5, <3>6
  <2> QED BY <2>2, <2>3
<1>8. Fits(burst, period, left, H, T, m)
  BY <1>7 DEF Fits
<1>9. Bucket(burst, period, left, H, T, m)
  BY <1>2, <1>3, <1>6, <1>7, <1>8 DEF Bucket
<1> QED BY <1>9 DEF left

\* What a caller does elsewhere changes nothing for the bucket.
LEMMA Undisturbed ==
  ASSUME NEW burst, NEW period, NEW credit, NEW H, NEW S, NEW n, NEW T,
         Bucket(burst, period, credit, H, S, n), \A d \in H : T[d] = S[d]
  PROVE  Bucket(burst, period, credit, H, T, n)
<1>1. \A d \in H : Due(H, T, T[d]) = Due(H, S, S[d])
  BY DEF Due
<1>2. Waits(period, credit, H, T)
  BY DEF Bucket, Waits
<1>3. Fits(burst, period, credit, H, T, n)
  BY <1>1 DEF Bucket, Fits
<1> QED BY <1>2, <1>3 DEF Bucket
\* In the beginning the bucket is full and nobody has taken anything.
LEMMA Untouched ==
  ASSUME NEW burst \in Nat \ {0}, NEW period \in Nat \ {0}, NEW S, NEW n,
         \A i \in 1 .. Window : n[i] = 0
  PROVE  Bucket(burst, period, burst * period, {}, S, n)
<1>1. burst * period \in Int /\ burst * period >= 0
  OBVIOUS
<1>2. Cardinality({}) = 0 /\ Cardinality(Caller) \in Nat
  BY BucketAssumption, FS_EmptySet, FS_CardinalityType
<1>3. ASSUME NEW i \in 1 .. Window
      PROVE  /\ n[i] \in Nat
             /\ period * n[i] <= Allowance(burst, period, i)
             /\ burst * period + period * (Cardinality({}) + n[i]) <= Allowance(burst, period, i)
  <2>1. i \in Int /\ i >= 1 /\ Allowance(burst, period, i) \in Int
    BY AllowanceIsANumber, BucketAssumption
  <2>2. burst * period + period * 0 + i <= Allowance(burst, period, i)
    <3>1. 0 \in Int /\ 0 <= Cardinality(Caller)
      BY <1>2
    <3> QED BY <2>1, <3>1, AllowanceIsANumber
  <2>3. period * n[i] = 0 /\ period * (Cardinality({}) + n[i]) = 0 /\ period * 0 = 0
    BY <1>2
  <2> DEFINE full == burst * period
  <2>4. full \in Int /\ full >= 0 /\ full + 0 + i <= Allowance(burst, period, i)
    BY <1>1, <2>2, <2>3
  <2> HIDE DEF full
  <2>5. 0 <= Allowance(burst, period, i) /\ full + 0 <= Allowance(burst, period, i)
    BY <2>1, <2>4
  <2> QED BY <2>3, <2>5 DEF full
<1>4. Waits(period, burst * period, {}, S)
  BY DEF Waits
<1>5. Fits(burst, period, burst * period, {}, S, n)
  BY <1>3 DEF Fits
<1> QED BY <1>1, <1>3, <1>4, <1>5 DEF Bucket

\* What the invariant is for: sent tokens are within the budget of the bucket.
LEMMA BucketKeepsBudget ==
  ASSUME NEW burst \in Nat \ {0}, NEW period \in Nat \ {0}, NEW credit, NEW H, NEW S, NEW n,
         Bucket(burst, period, credit, H, S, n), NEW i \in 1 .. Window
  PROVE  n[i] <= Budget(burst, period, i)
<1> DEFINE most == burst + Cardinality(Caller)  q == i \div period
<1>1. n[i] \in Nat /\ period * n[i] <= period * most + i
  BY DEF Bucket, Fits, Allowance
<1>2. most \in Nat
  BY BucketAssumption, FS_CardinalityType
<1>3. i \in Nat /\ q \in Nat /\ i < period * (q + 1)
  BY BucketAssumption
<1>4. Budget(burst, period, i) = most + q
  <2>1. Cardinality(Caller) \in Nat
    BY BucketAssumption, FS_CardinalityType
  <2> QED BY <1>3, <2>1 DEF Budget
<1> HIDE DEF most, q
<1>5. n[i] <= most + q
  <2> SUFFICES ASSUME ~ (n[i] <= most + q) PROVE FALSE
    OBVIOUS
  <2>1. most + q + 1 <= n[i] /\ most + q + 1 \in Int
    BY <1>1, <1>2, <1>3
  <2>2. period * (most + q + 1) <= period * n[i]
    BY <1>1, <2>1, TimesIsMonotone
  <2>3. period * (most + q + 1) = period * most + period * (q + 1)
    BY <1>2, <1>3
  <2>4. period * most \in Int /\ period * (q + 1) \in Int /\ period * n[i] \in Int
    BY <1>1, <1>2, <1>3
  <2> QED BY <1>1, <1>3, <2>2, <2>3, <2>4
<1> QED BY <1>4, <1>5

-----------------------------------------------------------------------------
(* The client *)

Calls ==
  [pc : {"idle", "long", "short", "flight", "pause"}, sleep : Nat, attempt : Nat]

TypeOK == call \in [Caller -> Calls]

\* A token of the slow bucket is held until the request is sent, and its time has
\* come when the caller goes on to the fast one.
LongHolders == {c \in Caller : call[c].pc \in {"long", "short"}}
LongWait == [c \in Caller |-> IF At(c, "long") THEN call[c].sleep ELSE 0]

ShortHolders == {c \in Caller : At(c, "short")}
ShortWait == [c \in Caller |-> call[c].sleep]

LongOK == Bucket(LongBurst, LongPeriod, per2Min, LongHolders, LongWait, sent)
ShortOK == Bucket(ShortBurst, ShortPeriod, perSecond, ShortHolders, ShortWait, sent)

Inv == TypeOK /\ LongOK /\ ShortOK

LEMMA Constants ==
  /\ LongBurst \in Nat \ {0} /\ LongPeriod \in Nat \ {0}
  /\ ShortBurst \in Nat \ {0} /\ ShortPeriod \in Nat \ {0}
  /\ maxRetries \in Nat \ {0} /\ DefaultPause \in Nat \ {0} /\ Window \in Nat \ {0}
BY BucketAssumption

LEMMA InitInv == Init => Inv
<1> SUFFICES ASSUME Init PROVE Inv
  OBVIOUS
<1>1. TypeOK
  BY DEF Init, Idle, TypeOK, Calls
<1>2. LongHolders = {} /\ ShortHolders = {}
  BY DEF Init, Idle, LongHolders, ShortHolders, At
<1>3. \A i \in 1 .. Window : sent[i] = 0
  BY DEF Init
<1>4. LongOK
  BY <1>2, <1>3, Untouched, Constants DEF LongOK, Init
<1>5. ShortOK
  BY <1>2, <1>3, Untouched, Constants DEF ShortOK, Init
<1> QED BY <1>1, <1>4, <1>5 DEF Inv

LEMMA InvGivesBudget == Inv => SentWithinBudget
BY BucketKeepsBudget, Constants DEF Inv, LongOK, ShortOK, SentWithinBudget
LEMMA LongUndisturbed ==
  ASSUME LongOK, LongHolders' = LongHolders, per2Min' = per2Min, sent' = sent,
         \A d \in LongHolders : LongWait'[d] = LongWait[d]
  PROVE  LongOK'
<1>1. Bucket(LongBurst, LongPeriod, per2Min, LongHolders, LongWait', sent)
  BY Undisturbed DEF LongOK
<1> QED BY <1>1 DEF LongOK

LEMMA ShortUndisturbed ==
  ASSUME ShortOK, ShortHolders' = ShortHolders, perSecond' = perSecond, sent' = sent,
         \A d \in ShortHolders : ShortWait'[d] = ShortWait[d]
  PROVE  ShortOK'
<1>1. Bucket(ShortBurst, ShortPeriod, perSecond, ShortHolders, ShortWait', sent)
  BY Undisturbed DEF ShortOK
<1> QED BY <1>1 DEF ShortOK

\* A call, or the next attempt of one, takes a token of the slow bucket.
LEMMA WaitInv ==
  ASSUME Inv, NEW c \in Caller, NEW attempt \in Nat,
         call[c].pc \in {"idle", "pause"}, Wait(c, attempt), UNCHANGED <<perSecond, sent>>
  PROVE  Inv'
<1>1. per2Min \in Int /\ Until(per2Min') \in Nat /\ per2Min' = per2Min - LongPeriod
  <2>1. per2Min \in Int
    BY DEF Inv, LongOK, Bucket
  <2> QED BY <2>1, UntilIs, Constants DEF Wait
<1>2. call' = [call EXCEPT ![c] = [pc |-> "long", sleep |-> Until(per2Min'), attempt |-> attempt]]
  BY DEF Wait
<1>3. call \in [Caller -> Calls]
  BY DEF Inv, TypeOK
<1>4. TypeOK'
  BY <1>1, <1>2, <1>3 DEF TypeOK, Calls
<1>5. LongOK'
  <2>1. LongHolders' = LongHolders \cup {c} /\ c \notin LongHolders
    BY <1>2, <1>3 DEF LongHolders
  <2>2. LongWait'[c] = Until(per2Min - LongPeriod) /\ \A d \in LongHolders : LongWait'[d] = LongWait[d]
    BY <1>1, <1>2, <1>3 DEF LongWait, LongHolders, At
  <2>3. Bucket(LongBurst, LongPeriod, per2Min, LongHolders, LongWait, sent)
    BY DEF Inv, LongOK
  <2>4. Bucket(LongBurst, LongPeriod, per2Min - LongPeriod, LongHolders \cup {c}, LongWait', sent)
    BY <2>1, <2>2, <2>3, Reserve, Constants
  <2> QED BY <1>1, <2>1, <2>4 DEF LongOK
<1>6. ShortOK'
  <2>1. ShortHolders' = ShortHolders /\ \A d \in ShortHolders : ShortWait'[d] = ShortWait[d]
    BY <1>2, <1>3 DEF ShortHolders, ShortWait, At
  <2> QED BY <2>1, ShortUndisturbed DEF Inv
<1> QED BY <1>4, <1>5, <1>6 DEF Inv

LEMMA WaitPerSecondInv ==
  ASSUME Inv, NEW c \in Caller, WaitPerSecond(c)
  PROVE  Inv'
<1>1. perSecond \in Int /\ Until(perSecond') \in Nat /\ perSecond' = perSecond - ShortPeriod
  <2>1. perSecond \in Int
    BY DEF Inv, ShortOK, Bucket
  <2> QED BY <2>1, UntilIs, Constants DEF WaitPerSecond
<1>2. /\ call[c].pc = "long" /\ call[c].sleep = 0
      /\ call' = [call EXCEPT ![c].pc = "short", ![c].sleep = Until(perSecond')]
  BY DEF WaitPerSecond, Awake, At
<1>3. call \in [Caller -> Calls]
  BY DEF Inv, TypeOK
<1>4. TypeOK'
  BY <1>1, <1>2, <1>3 DEF TypeOK, Calls
<1>5. LongOK'
  <2>1. LongHolders' = LongHolders
    BY <1>2, <1>3 DEF LongHolders
  <2>2. \A d \in LongHolders : LongWait'[d] = LongWait[d]
    BY <1>2, <1>3 DEF LongWait, LongHolders, At
  <2> QED BY <2>1, <2>2, LongUndisturbed DEF Inv, WaitPerSecond
<1>6. ShortOK'
  <2>1. ShortHolders' = ShortHolders \cup {c} /\ c \notin ShortHolders
    BY <1>2, <1>3 DEF ShortHolders, At
  <2>2. ShortWait'[c] = Until(perSecond - ShortPeriod)
        /\ \A d \in ShortHolders : ShortWait'[d] = ShortWait[d]
    BY <1>1, <1>2, <1>3 DEF ShortWait, ShortHolders, At
  <2>3. Bucket(ShortBurst, ShortPeriod, perSecond, ShortHolders, ShortWait, sent)
    BY DEF Inv, ShortOK
  <2>4. Bucket(ShortBurst, ShortPeriod, perSecond - ShortPeriod, ShortHolders \cup {c}, ShortWait', sent)
    BY <2>1, <2>2, <2>3, Reserve, Constants
  <2> QED BY <1>1, <2>1, <2>4 DEF ShortOK, WaitPerSecond
<1> QED BY <1>4, <1>5, <1>6 DEF Inv

\* The one step in which both buckets lose a token for good.
LEMMA SendInv ==
  ASSUME Inv, NEW c \in Caller, Send(c)
  PROVE  Inv'
<1>1. /\ call[c].pc = "short" /\ call[c].sleep = 0
      /\ call' = [call EXCEPT ![c].pc = "flight"]
      /\ \A i \in 1 .. Window : sent'[i] = sent[i] + 1
  BY DEF Send, Awake, At
<1>2. call \in [Caller -> Calls]
  BY DEF Inv, TypeOK
<1>3. TypeOK'
  BY <1>1, <1>2 DEF TypeOK, Calls
<1>4. LongOK'
  <2>1. LongHolders' = LongHolders \ {c} /\ c \in LongHolders
    BY <1>1, <1>2 DEF LongHolders
  <2>2. LongWait[c] = 0 /\ \A d \in LongHolders \ {c} : LongWait'[d] = LongWait[d]
    BY <1>1, <1>2 DEF LongWait, LongHolders, At
  <2>3. Bucket(LongBurst, LongPeriod, per2Min, LongHolders, LongWait, sent)
    BY DEF Inv, LongOK
  <2>4. Bucket(LongBurst, LongPeriod, per2Min, LongHolders \ {c}, LongWait', sent')
    BY <1>1, <2>1, <2>2, <2>3, Spend, Constants
  <2> QED BY <2>1, <2>4 DEF LongOK, Send
<1>5. ShortOK'
  <2>1. ShortHolders' = ShortHolders \ {c} /\ c \in ShortHolders
    BY <1>1, <1>2 DEF ShortHolders, At
  <2>2. ShortWait[c] = 0 /\ \A d \in ShortHolders \ {c} : ShortWait'[d] = ShortWait[d]
    BY <1>1, <1>2 DEF ShortWait, ShortHolders, At
  <2>3. Bucket(ShortBurst, ShortPeriod, perSecond, ShortHolders, ShortWait, sent)
    BY DEF Inv, ShortOK
  <2>4. Bucket(ShortBurst, ShortPeriod, perSecond, ShortHolders \ {c}, ShortWait', sent')
    BY <1>1, <2>1, <2>2, <2>3, Spend, Constants
  <2> QED BY <2>1, <2>4 DEF ShortOK, Send
<1> QED BY <1>3, <1>4, <1>5 DEF Inv

\* What happens after the request was sent touches no token.
LEMMA NoTokenInv ==
  ASSUME Inv, NEW c \in Caller, call[c].pc \in {"flight", "pause"},
         NEW next \in Calls, next.pc \in {"idle", "pause"}, call' = [call EXCEPT ![c] = next],
         UNCHANGED <<per2Min, perSecond, sent>>
  PROVE  Inv'
<1>1. call \in [Caller -> Calls]
  BY DEF Inv, TypeOK
<1>2. TypeOK'
  BY <1>1 DEF TypeOK
<1>3. LongOK'
  <2>1. LongHolders' = LongHolders
    BY <1>1 DEF LongHolders
  <2>2. \A d \in LongHolders : LongWait'[d] = LongWait[d]
    BY <1>1 DEF LongWait, LongHolders, At
  <2> QED BY <2>1, <2>2, LongUndisturbed DEF Inv
<1>4. ShortOK'
  <2>1. ShortHolders' = ShortHolders /\ \A d \in ShortHolders : ShortWait'[d] = ShortWait[d]
    BY <1>1 DEF ShortHolders, ShortWait, At
  <2> QED BY <2>1, ShortUndisturbed DEF Inv
<1> QED BY <1>2, <1>3, <1>4 DEF Inv

LEMMA AfterSendInv ==
  ASSUME Inv, NEW c \in Caller, Answer(c) \/ TooManyRequests(c)
  PROVE  Inv'
<1>1. call[c] \in Calls /\ call[c].pc = "flight" /\ UNCHANGED <<per2Min, perSecond, sent>>
  BY DEF Inv, TypeOK, Answer, TooManyRequests, At
<1>2. CASE Answer(c)
  <2>1. Idle \in Calls /\ Idle.pc = "idle" /\ call' = [call EXCEPT ![c] = Idle]
    BY <1>2 DEF Answer, Idle, Calls
  <2> QED BY <1>1, <2>1, NoTokenInv
<1>3. CASE TooManyRequests(c)
  <2>1. PICK pause \in RetryAfter :
          call' = [call EXCEPT ![c].pc = "pause",
                               ![c].sleep = IF pause = 0 THEN DefaultPause ELSE pause]
    BY <1>3 DEF TooManyRequests
  <2> DEFINE next == [call[c] EXCEPT !.pc = "pause",
                                     !.sleep = IF pause = 0 THEN DefaultPause ELSE pause]
  <2>2. next \in Calls /\ next.pc = "pause"
    BY <1>1, BucketAssumption, Constants DEF Calls
  <2>3. call' = [call EXCEPT ![c] = next]
    BY <2>1 DEF Inv, TypeOK
  <2> HIDE DEF next
  <2> QED BY <1>1, <2>2, <2>3, NoTokenInv
<1> QED BY <1>2, <1>3

LEMMA RetryInv ==
  ASSUME Inv, NEW c \in Caller, Retry(c)
  PROVE  Inv'
<1>1. call[c] \in Calls /\ call[c].pc = "pause" /\ UNCHANGED <<perSecond, sent>>
  BY DEF Inv, TypeOK, Retry, Awake, At
<1>2. NextAttempt(c) \in Nat
  BY <1>1 DEF NextAttempt, Calls
<1>3. CASE NextAttempt(c) <= maxRetries
  BY <1>1, <1>2, <1>3, WaitInv DEF Retry
<1>4. CASE ~ (NextAttempt(c) <= maxRetries)
  <2>1. Idle \in Calls /\ Idle.pc = "idle"
    BY DEF Idle, Calls
  <2> QED BY <1>1, <1>4, <2>1, NoTokenInv DEF Retry
<1> QED BY <1>3, <1>4
LEMMA CancelInv ==
  ASSUME Inv, NEW c \in Caller, Cancel(c)
  PROVE  Inv'
<1>1. call' = [call EXCEPT ![c] = Idle] /\ sent' = sent /\ call[c].pc # "idle"
  BY DEF Cancel, At
<1>2. call \in [Caller -> Calls] /\ Idle \in Calls /\ Idle.pc = "idle"
  BY DEF Inv, TypeOK, Idle, Calls
<1>3. TypeOK'
  BY <1>1, <1>2 DEF TypeOK
<1>4. LongOK'
  <2>1. \A d \in LongHolders \ {c} : LongWait'[d] = LongWait[d]
    BY <1>1, <1>2 DEF LongWait, LongHolders, At
  <2>2. Bucket(LongBurst, LongPeriod, per2Min, LongHolders, LongWait, sent)
    BY DEF Inv, LongOK
  <2>3. LongHolders' = LongHolders \ {c}
    BY <1>1, <1>2 DEF LongHolders
  <2>4. CASE c \in LongHolders
    <3>1. \/ per2Min' = per2Min
          \/ LongWait[c] > 0 /\ LongWait[c] = Until(per2Min) /\ per2Min' = per2Min + LongPeriod
      BY DEF Cancel, GiveBack, LongWait, At
    <3>2. Bucket(LongBurst, LongPeriod, per2Min', LongHolders \ {c}, LongWait', sent)
      BY <2>1, <2>2, <2>4, <3>1, Leave, Constants
    <3> QED BY <1>1, <2>3, <3>2 DEF LongOK
  <2>5. CASE c \notin LongHolders
    <3>1. per2Min' = per2Min
      BY <2>5 DEF Cancel, GiveBack, LongHolders, At
    <3>2. LongHolders \ {c} = LongHolders
      BY <2>5
    <3> QED BY <1>1, <2>1, <2>3, <3>1, <3>2, LongUndisturbed DEF Inv
  <2> QED BY <2>4, <2>5
<1>5. ShortOK'
  <2>1. \A d \in ShortHolders \ {c} : ShortWait'[d] = ShortWait[d]
    BY <1>1, <1>2 DEF ShortWait, ShortHolders, At
  <2>2. Bucket(ShortBurst, ShortPeriod, perSecond, ShortHolders, ShortWait, sent)
    BY DEF Inv, ShortOK
  <2>3. ShortHolders' = ShortHolders \ {c}
    BY <1>1, <1>2 DEF ShortHolders, At
  <2>4. CASE c \in ShortHolders
    <3>1. \/ perSecond' = perSecond
          \/ ShortWait[c] > 0 /\ ShortWait[c] = Until(perSecond) /\ perSecond' = perSecond + ShortPeriod
      BY DEF Cancel, GiveBack, ShortWait, At
    <3>2. Bucket(ShortBurst, ShortPeriod, perSecond', ShortHolders \ {c}, ShortWait', sent)
      BY <2>1, <2>2, <2>4, <3>1, Leave, Constants
    <3> QED BY <1>1, <2>3, <3>2 DEF ShortOK
  <2>5. CASE c \notin ShortHolders
    <3>1. perSecond' = perSecond
      BY <2>5 DEF Cancel, GiveBack, ShortHolders, At
    <3>2. ShortHolders \ {c} = ShortHolders
      BY <2>5
    <3> QED BY <1>1, <2>1, <2>3, <3>1, <3>2, ShortUndisturbed DEF Inv
  <2> QED BY <2>4, <2>5
<1> QED BY <1>3, <1>4, <1>5 DEF Inv

LEMMA TickInv ==
  ASSUME Inv, Tick
  PROVE  Inv'
<1>1. call \in [Caller -> Calls]
  BY DEF Inv, TypeOK
<1>2. /\ call' = [c \in Caller |-> [call[c] EXCEPT !.sleep = Max({0, @ - 1})]]
      /\ Shifted(sent, sent')
      /\ per2Min' = Min({per2Min + 1, LongBurst * LongPeriod})
      /\ perSecond' = Min({perSecond + 1, ShortBurst * ShortPeriod})
  BY DEF Tick, Shifted
<1>3. \A c \in Caller :
        /\ call'[c].pc = call[c].pc /\ call'[c].attempt = call[c].attempt
        /\ call'[c].sleep = Max({0, call[c].sleep - 1})
  BY <1>1, <1>2 DEF Calls
<1>4. \A s \in Nat : Max({0, s - 1}) \in Nat /\ Max({0, 0}) = 0
  <2> TAKE s \in Nat
  <2>1. s - 1 \in Int /\ 0 \in Int
    OBVIOUS
  <2> QED BY <2>1, MaxOfTwo
<1>5. TypeOK'
  <2>1. ASSUME NEW c \in Caller
        PROVE  [call[c] EXCEPT !.sleep = Max({0, @ - 1})] \in Calls
    <3>1. call[c] \in Calls /\ call[c].sleep \in Nat
      BY <1>1 DEF Calls
    <3>2. Max({0, call[c].sleep - 1}) \in Nat
      BY <1>4, <3>1
    <3> QED BY <3>1, <3>2 DEF Calls
  <2> QED BY <1>2, <2>1 DEF TypeOK
<1>6. LongOK'
  <2>1. LongHolders' = LongHolders
    BY <1>3 DEF LongHolders
  <2>2. Shorter(LongHolders, LongWait, LongWait')
    <3>1. ASSUME NEW d \in Caller, At(d, "long")
          PROVE  LongWait'[d] = Max({0, LongWait[d] - 1})
      BY <1>3, <3>1 DEF LongWait, At
    <3>2. ASSUME NEW d \in Caller, ~ At(d, "long")
          PROVE  LongWait'[d] = Max({0, LongWait[d] - 1})
      <4>1. LongWait'[d] = 0 /\ LongWait[d] = 0
        BY <1>3, <3>2 DEF LongWait, At
      <4>2. 0 - 1 \in Int /\ 0 >= 0 - 1
        OBVIOUS
      <4> QED BY <4>1, <4>2, MaxOfTwo
    <3> QED BY <3>1, <3>2 DEF LongHolders, Shorter
  <2>3. Bucket(LongBurst, LongPeriod, per2Min, LongHolders, LongWait, sent)
    BY DEF Inv, LongOK
  <2>4. Bucket(LongBurst, LongPeriod, Min({per2Min + 1, LongBurst * LongPeriod}),
               LongHolders, LongWait', sent')
    BY <1>2, <2>2, <2>3, Passes, Constants
  <2> QED BY <1>2, <2>1, <2>4 DEF LongOK
<1>7. ShortOK'
  <2>1. ShortHolders' = ShortHolders
    BY <1>3 DEF ShortHolders, At
  <2>2. Shorter(ShortHolders, ShortWait, ShortWait')
    BY <1>3 DEF ShortHolders, ShortWait, Shorter
  <2>3. Bucket(ShortBurst, ShortPeriod, perSecond, ShortHolders, ShortWait, sent)
    BY DEF Inv, ShortOK
  <2>4. Bucket(ShortBurst, ShortPeriod, Min({perSecond + 1, ShortBurst * ShortPeriod}),
               ShortHolders, ShortWait', sent')
    BY <1>2, <2>2, <2>3, Passes, Constants
  <2> QED BY <1>2, <2>1, <2>4 DEF ShortOK
<1> QED BY <1>5, <1>6, <1>7 DEF Inv

LEMMA StutterInv ==
  ASSUME Inv, UNCHANGED vars
  PROVE  Inv'
BY DEF Inv, vars, TypeOK, LongOK, ShortOK, LongHolders, LongWait, ShortHolders, ShortWait, At

LEMMA NextInv == Inv /\ [Next]_vars => Inv'
<1> SUFFICES ASSUME Inv, [Next]_vars PROVE Inv'
  OBVIOUS
<1>1. CASE UNCHANGED vars
  BY <1>1, StutterInv
<1>2. CASE Tick
  BY <1>2, TickInv
<1>3. ASSUME NEW c \in Caller, DoRequest(c) \/ Proceed(c) \/ Cancel(c)
      PROVE  Inv'
  <2>1. CASE DoRequest(c)
    BY <2>1, WaitInv DEF DoRequest, At
  <2>2. CASE WaitPerSecond(c)
    BY <2>2, WaitPerSecondInv
  <2>3. CASE Send(c)
    BY <2>3, SendInv
  <2>4. CASE Answer(c) \/ TooManyRequests(c)
    BY <2>4, AfterSendInv
  <2>5. CASE Retry(c)
    BY <2>5, RetryInv
  <2>6. CASE Cancel(c)
    BY <2>6, CancelInv
  <2> QED BY <1>3, <2>1, <2>2, <2>3, <2>4, <2>5, <2>6 DEF Proceed
<1> QED BY <1>1, <1>2, <1>3 DEF Next

\* Any number of callers together send no more than both buckets allow, in any
\* stretch of up to Window ticks: with retries, cancels and reservations.
THEOREM RequestsAreWithinBudget == Spec => []SentWithinBudget
<1>1. Spec => []Inv
  BY InitInv, NextInv, PTL DEF Spec
<1>2. Inv => SentWithinBudget
  BY InvGivesBudget
<1> QED BY <1>1, <1>2, PTL
=============================================================================
