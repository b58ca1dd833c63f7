-------------------------- MODULE Snowflake_proofs --------------------------
(***************************************************************************)
(* A pod never hands out an id twice, for fields of any size, any number   *)
(* of pods and any number of calls within the load the layout allows.      *)
(***************************************************************************)
EXTENDS Snowflake, FiniteSetTheorems, TLAPS

-----------------------------------------------------------------------------
(* The layout of an id.                                                    *)

\* A position in a field of size k, and the field above it.
LEMMA Division ==
    ASSUME NEW x \in Nat, NEW k \in Nat \ {0}
    PROVE  x % k \in 0 .. k - 1 /\ x \div k \in Nat /\ x = k * (x \div k) + (x % k)
  OBVIOUS

\* Two fields side by side determine each other's contents.
LEMMA FieldsApart ==
    ASSUME NEW k \in Nat \ {0}, NEW a \in Int, NEW b \in Int,
           NEW c \in 0 .. k - 1, NEW d \in 0 .. k - 1, a * k + c = b * k + d
    PROVE  a = b /\ c = d
  OBVIOUS

\* They fill no more than their size.
LEMMA FieldsFit ==
    ASSUME NEW k \in Nat \ {0}, NEW j \in Nat \ {0}, NEW a \in 0 .. j - 1, NEW c \in 0 .. k - 1
    PROVE  a * k + c \in 0 .. j * k - 1
<1>1. a * k >= 0 /\ (j - 1 - a) * k >= 0
  OBVIOUS
<1>2. (j - 1 - a) * k = j * k - k - a * k
  OBVIOUS
<1>3. a * k \in Int /\ j * k \in Int
  OBVIOUS
<1> QED
  BY <1>1, <1>2, <1>3

LEMMA ProductPositive ==
    ASSUME NEW k \in Nat \ {0}, NEW j \in Nat \ {0}
    PROVE  j * k \in Nat \ {0}
  OBVIOUS

\* The low field and the carry into the pod's index.
LEMMA Parts ==
    ASSUME NEW n \in Nat
    PROVE  /\ SequencePart(n) \in 0 .. 2 * SequenceCount - 1
           /\ SequencePart(n) % SequenceCount \in 0 .. SequenceCount - 1
           /\ SequencePart(n) \div SequenceCount \in 0 .. 1
           /\ SequencePart(n) % SequenceCount = n % SequenceCount
<1> DEFINE S == SequenceCount
           q == n % (2 * S)
           h == n \div (2 * S)
           c == q \div S
           r == q % S
           e == n \div S
           f == n % S
<1>1. S \in Nat \ {0} /\ 2 * S \in Nat \ {0}
  BY FieldsAssumption
<1>2. q \in 0 .. 2 * S - 1 /\ h \in Nat /\ n = (2 * S) * h + q
  BY <1>1, Division
<1> HIDE DEF S, q, h
<1>3. q \in Nat
  BY <1>1, <1>2
<1>4. r \in 0 .. S - 1 /\ c \in Nat /\ q = S * c + r
  BY <1>1, <1>3, Division
<1>5. f \in 0 .. S - 1 /\ e \in Nat /\ n = S * e + f
  BY <1>1, Division
<1> HIDE DEF c, r, e, f
<1>6. c \in 0 .. 1
  <2>1. ASSUME c >= 2
        PROVE  FALSE
    <3>1. S * c >= S * 2
      BY <1>1, <1>4, <2>1
    <3> QED
      BY <1>1, <1>2, <1>4, <3>1
  <2> QED
    BY <1>4, <2>1
<1> DEFINE g == 2 * h + c
<1>7. (2 * S) * h + (S * c + r) = g * S + r /\ S * e + f = e * S + f /\ g \in Int
  BY <1>1, <1>2, <1>4, <1>5
<1> HIDE DEF g
<1>8. g * S + r = e * S + f
  BY <1>2, <1>4, <1>5, <1>7
<1>9. r = f
  <2>1. S \in Nat \ {0} /\ g \in Int /\ e \in Int /\ r \in 0 .. S - 1 /\ f \in 0 .. S - 1
    BY <1>1, <1>4, <1>5, <1>7
  <2> QED
    BY <1>8, <2>1, FieldsApart
<1> QED
  BY <1>2, <1>4, <1>6, <1>9 DEF SequencePart, S, q, c, r, f

\* A carry stays within the pod's index, since it only fills a zero at its end.
LEMMA MachinePartFits ==
    ASSUME NEW m \in Machines, NEW n \in Nat
    PROVE  MachinePart(m, n) \in 0 .. MachineCount - 1
<1> DEFINE c == SequencePart(n) \div SequenceCount
<1>1. c \in 0 .. 1
  BY Parts
<1>2. m \in 0 .. MachineCount - 1 /\ MachineCount \in Nat \ {0} /\ MachineCount % 2 = 0
  BY MachinesAssumption, FieldsAssumption
<1>3. MachinePart(m, n) = IF m % 2 = 1 THEN m ELSE m + c
  BY DEF MachinePart
<1> HIDE DEF c
<1> QED
  BY <1>1, <1>2, <1>3

\* Two's complement loses nothing of a number that fits.
LEMMA SignedApart ==
    ASSUME NEW x \in 0 .. 2 * Half - 1, NEW y \in 0 .. 2 * Half - 1, Half \in Nat \ {0}
    PROVE  /\ Signed(x) \in -Half .. Half - 1
           /\ Signed(x) = Signed(y) => x = y
<1>1. x % (2 * Half) = x /\ y % (2 * Half) = y
  OBVIOUS
<1> QED
  BY <1>1 DEF Signed

\* The layout, field by field.
Raw(m, n, time) ==
    time * (SequenceCount * MachineCount)
      + (MachinePart(m, n) * SequenceCount + (SequencePart(n) % SequenceCount))

\* Every id of a pod fits into an int64.
LEMMA RawFits ==
    ASSUME NEW m \in Machines, NEW n \in Nat, NEW time \in 0 .. MaxTime
    PROVE  /\ Half \in Nat \ {0}
           /\ Raw(m, n, time) \in 0 .. 2 * Half - 1
           /\ MachinePart(m, n) * SequenceCount + (SequencePart(n) % SequenceCount)
                \in 0 .. SequenceCount * MachineCount - 1
           /\ Id(m, n, time) = Signed(Raw(m, n, time))
<1> DEFINE S == SequenceCount
           M == MachineCount
           T == TimeCount
           P == S * M
           a == MachinePart(m, n)
           r == SequencePart(n) % SequenceCount
           low == a * S + r
<1>1. S \in Nat \ {0} /\ M \in Nat \ {0} /\ T \in Nat \ {0} /\ 2 * T \in Nat \ {0}
  BY FieldsAssumption
<1>2. time \in 0 .. 2 * T - 1
  BY BoundsAssumption, <1>1
<1>3. a \in 0 .. M - 1 /\ r \in 0 .. S - 1
  BY MachinePartFits, Parts
<1>4. Id(m, n, time) = Signed(time * P + a * S + r)
  BY DEF Id
<1> HIDE DEF S, M, T, a, r
<1>5. P \in Nat \ {0} /\ P = M * S
  BY <1>1, ProductPositive
<1>6. low \in 0 .. P - 1
  BY <1>1, <1>3, <1>5, FieldsFit
<1>7. a * S \in Int
  BY <1>1, <1>3
<1> HIDE DEF P
<1>8. T * P \in Nat \ {0}
  BY <1>1, <1>5, ProductPositive
<1>9. time * P + low \in 0 .. (2 * T) * P - 1
  <2> HIDE DEF low
  <2> QED
    BY <1>1, <1>2, <1>5, <1>6, FieldsFit
<1>10. (2 * T) * P = 2 * (T * P)
  BY <1>1, <1>5
<1>11. time * P \in Int
  BY <1>1, <1>2, <1>5
<1>12. time * P + a * S + r = time * P + low
  BY <1>3, <1>7, <1>11
<1>13. Raw(m, n, time) = time * P + low
  BY DEF Raw, P, S, M, a, r
<1>14. Half = T * P
  BY DEF Half, T, P, S, M
<1>15. Raw(m, n, time) \in 0 .. 2 * Half - 1
  BY <1>9, <1>10, <1>13, <1>14
<1>16. low \in 0 .. SequenceCount * MachineCount - 1
  BY <1>6 DEF P, S, M
<1>17. low = MachinePart(m, n) * SequenceCount + (SequencePart(n) % SequenceCount)
  BY DEF S, a, r
<1> QED
  BY <1>4, <1>8, <1>12, <1>13, <1>14, <1>15, <1>16, <1>17

\* An id of a pod tells its millisecond, and its number but for multiples of
\* the size of the field.
LEMMA IdTells ==
    ASSUME NEW m \in Machines, NEW n \in Nat, NEW k \in Nat,
           NEW t \in 0 .. MaxTime, NEW u \in 0 .. MaxTime, Id(m, n, t) = Id(m, k, u)
    PROVE  t = u /\ n % SequenceCount = k % SequenceCount
<1> DEFINE S == SequenceCount
           P == SequenceCount * MachineCount
           a == MachinePart(m, n)
           b == MachinePart(m, k)
           r == SequencePart(n) % SequenceCount
           x == SequencePart(k) % SequenceCount
           low == a * S + r
           lok == b * S + x
<1>1. Raw(m, n, t) = Raw(m, k, u)
  BY RawFits, SignedApart
<1>2. low \in 0 .. P - 1 /\ lok \in 0 .. P - 1
  BY RawFits
<1>3. t * P + low = u * P + lok
  BY <1>1 DEF Raw
<1>4. S \in Nat \ {0} /\ P \in Nat \ {0}
  BY FieldsAssumption, ProductPositive
<1>5. r \in 0 .. S - 1 /\ x \in 0 .. S - 1 /\ a \in Int /\ b \in Int
  BY Parts, MachinePartFits, FieldsAssumption
<1>6. r = n % S /\ x = k % S
  BY Parts
<1> HIDE DEF P, S, a, b, r, x
<1>7. t = u /\ low = lok
  <2> HIDE DEF low, lok
  <2> QED
    BY <1>2, <1>3, <1>4, FieldsApart
<1>8. r = x
  BY <1>4, <1>5, <1>7, FieldsApart
<1> QED
  BY <1>6, <1>7, <1>8 DEF S

\* Numbers in the same place are at least a field apart.
LEMMA SamePlace ==
    ASSUME NEW n \in Nat, NEW k \in Nat, n % SequenceCount = k % SequenceCount,
           n - k < SequenceCount, k - n < SequenceCount
    PROVE  n = k
<1> DEFINE S == SequenceCount
           p == n \div S
           q == k \div S
           r == n % S
<1>1. S \in Nat \ {0}
  BY FieldsAssumption
<1>2. r \in 0 .. S - 1 /\ p \in Nat /\ n = S * p + r
  BY <1>1, Division
<1>3. q \in Nat /\ k = S * q + r
  BY <1>1, Division
<1>4. n - k < S /\ k - n < S
  OBVIOUS
<1> HIDE DEF S, p, q, r
<1>5. S * p = p * S /\ S * q = q * S /\ S * p \in Int /\ S * q \in Int
  BY <1>1, <1>2, <1>3
<1>6. n - k = (p - q) * S
  BY <1>1, <1>2, <1>3
<1>7. p - q >= 1 => (p - q) * S >= S
  BY <1>1, <1>2, <1>3
<1>8. q - p >= 1 => (q - p) * S >= S
  BY <1>1, <1>2, <1>3
<1>9. k - n = (q - p) * S
  BY <1>1, <1>2, <1>3
<1>10. ~(p - q >= 1) /\ ~(q - p >= 1)
  <2>1. n - k \in Int /\ k - n \in Int
    OBVIOUS
  <2> QED
    BY <1>1, <1>4, <1>6, <1>7, <1>8, <1>9, <2>1
<1>11. p = q
  BY <1>2, <1>3, <1>10
<1> QED
  BY <1>2, <1>3, <1>11

-----------------------------------------------------------------------------
(* The inductive invariant.                                                *)

\* A call of the bounded number has at most one counter value or id, and the
\* counter is not ahead of them.
Counted(m) ==
    /\ IsFiniteSet(IssuedBy(m)) /\ IsFiniteSet(pending[m])
    /\ sequence[m] <= Cardinality(IssuedBy(m)) + Cardinality(pending[m])
    /\ Cardinality(IssuedBy(m)) + Cardinality(pending[m]) <= MaxCalls

\* The counter has passed the numbers that are live, and they are less than a
\* field apart: this is what the load has to guarantee, and TakeNumber keeps it.
LiveOK(m) ==
    /\ \A n \in Live(m) : n < sequence[m]
    /\ \A n, k \in Live(m) : n - k < SequenceCount

\* An id is what GenID makes of its origin, and its number is used up.
IssuedOK ==
    \A i \in issued :
        /\ i.time <= now
        /\ i.id = Id(i.machine, i.n, i.time)
        /\ i.time = now => i.n \notin pending[i.machine]

\* Ids of a pod and millisecond keep the distance their numbers had while live.
Spread ==
    \A i, j \in issued :
        i.machine = j.machine /\ i.time = j.time =>
            /\ i.n - j.n < SequenceCount
            /\ i.n = j.n => i = j

SnowflakeInv ==
    /\ TypeOK
    /\ \A m \in Machines : Counted(m) /\ LiveOK(m)
    /\ IssuedOK
    /\ Spread

LEMMA SnowflakeInitInv == Init => SnowflakeInv
<1> SUFFICES ASSUME Init
             PROVE  SnowflakeInv
  OBVIOUS
<1> USE DEF Init
<1>1. TypeOK
  BY BoundsAssumption DEF TypeOK
<1>2. \A m \in Machines : IssuedBy(m) = {} /\ Live(m) = {} /\ pending[m] = {}
  BY DEF IssuedBy, Live
<1>3. ASSUME NEW m \in Machines
      PROVE  Counted(m)
  <2>1. /\ IsFiniteSet(IssuedBy(m)) /\ IsFiniteSet(pending[m])
        /\ Cardinality(IssuedBy(m)) = 0 /\ Cardinality(pending[m]) = 0
    BY <1>2, FS_EmptySet
  <2>2. sequence[m] = 0 /\ MaxCalls \in Nat
    BY BoundsAssumption
  <2> QED
    BY <2>1, <2>2 DEF Counted
<1>4. \A m \in Machines : LiveOK(m)
  BY <1>2 DEF LiveOK
<1> QED
  BY <1>1, <1>3, <1>4 DEF SnowflakeInv, IssuedOK, Spread

\* What a pod has issued or is about to issue is a number.
LEMMA LiveType ==
    ASSUME TypeOK, NEW m \in Machines
    PROVE  Live(m) \subseteq Nat /\ sequence[m] \in Nat /\ pending[m] \subseteq Live(m)
<1>1. Live(m) \subseteq Nat
  BY BoundsAssumption DEF TypeOK, Live, IssuedBy
<1> QED
  BY <1>1, BoundsAssumption DEF TypeOK, Live

LEMMA TakeNumberInv ==
    ASSUME SnowflakeInv, NEW m \in Machines, TakeNumber(m)
    PROVE  SnowflakeInv'
<1> USE DEF TakeNumber
<1> DEFINE s == sequence[m]
<1>1. TypeOK /\ Counted(m) /\ LiveOK(m) /\ IssuedOK /\ Spread
  BY DEF SnowflakeInv
<1>2. s \in Nat /\ Live(m) \subseteq Nat /\ pending[m] \subseteq Live(m)
  BY <1>1, LiveType
<1>3. s \notin Live(m)
  BY <1>1, <1>2 DEF LiveOK
<1>4. \A x \in Machines : IssuedBy(x)' = IssuedBy(x)
  BY DEF IssuedBy
<1>5. /\ pending'[m] = pending[m] \cup {s} /\ sequence'[m] = s + 1
      /\ \A x \in Machines : x # m => pending'[x] = pending[x] /\ sequence'[x] = sequence[x]
  BY <1>1 DEF TypeOK
<1>6. Live(m)' = Live(m) \cup {s} /\ \A x \in Machines : x # m => Live(x)' = Live(x)
  BY <1>4, <1>5 DEF Live
<1>7. /\ IsFiniteSet(pending'[m])
      /\ Cardinality(pending'[m]) = Cardinality(pending[m]) + 1
  BY <1>1, <1>2, <1>3, <1>5, FS_AddElement DEF Counted
<1>8. Cardinality(IssuedBy(m)) \in Nat /\ Cardinality(pending[m]) \in Nat
  BY <1>1, FS_CardinalityType DEF Counted
<1>9. Counted(m)'
  BY <1>1, <1>2, <1>4, <1>5, <1>7, <1>8, BoundsAssumption DEF Counted
<1>10. LiveOK(m)'
  BY <1>1, <1>2, <1>5, <1>6, FieldsAssumption DEF LiveOK, WithinLoad
<1>11. \A x \in Machines : Counted(x)' /\ LiveOK(x)'
  BY <1>4, <1>5, <1>6, <1>9, <1>10 DEF SnowflakeInv, Counted, LiveOK
<1>12. TypeOK'
  <2>1. s + 1 \in 0 .. MaxCalls /\ s \in 0 .. MaxCalls
    BY <1>1, <1>2, <1>8, BoundsAssumption DEF Counted
  <2> QED
    BY <1>1, <2>1 DEF TypeOK
<1>13. IssuedOK'
  <2>1. \A i \in issued : i.machine \in Machines /\ (i.machine = m /\ i.time = now => i.n \in Live(m))
    BY <1>1 DEF TypeOK, Live, IssuedBy
  <2> QED
    BY <1>1, <1>3, <1>5, <2>1 DEF IssuedOK
<1>14. Spread'
  BY <1>1 DEF Spread
<1> QED
  BY <1>11, <1>12, <1>13, <1>14 DEF SnowflakeInv

LEMMA ReadClockInv ==
    ASSUME SnowflakeInv, NEW m \in Machines, NEW n \in pending[m], ReadClock(m, n)
    PROVE  SnowflakeInv'
<1> DEFINE c == Cardinality(IssuedBy(m))
           new == [machine |-> m, call |-> c + 1, n |-> n, time |-> now,
                   id |-> Id(m, n, now)]
<1>1. TypeOK /\ Counted(m) /\ LiveOK(m) /\ IssuedOK /\ Spread
  BY DEF SnowflakeInv
<1>2. /\ pending' = [pending EXCEPT ![m] = @ \ {n}]
      /\ issued' = issued \cup {new}
      /\ UNCHANGED <<now, sequence>>
  BY DEF ReadClock
<1>3. Live(m) \subseteq Nat /\ pending[m] \subseteq Live(m) /\ n \in Live(m) /\ n \in Nat
  BY <1>1, LiveType
<1>4. /\ pending'[m] = pending[m] \ {n}
      /\ \A x \in Machines : x # m => pending'[x] = pending[x]
  BY <1>1, <1>2 DEF TypeOK
<1>5. c \in Nat /\ Cardinality(pending[m]) \in Nat
  BY <1>1, FS_CardinalityType DEF Counted
<1>6. /\ IsFiniteSet(pending'[m])
      /\ Cardinality(pending'[m]) = Cardinality(pending[m]) - 1
  BY <1>1, <1>4, FS_RemoveElement DEF Counted
<1>7. c + 1 \in 1 .. MaxCalls
  <2>1. Cardinality(pending'[m]) \in Nat
    BY <1>6, FS_CardinalityType
  <2> QED
    BY <1>1, <1>5, <1>6, <2>1, BoundsAssumption DEF Counted
<1>8. /\ new.machine = m /\ new.n = n /\ new.time = now /\ new.id = Id(m, n, now)
      /\ new \in [machine : Machines, call : 1 .. MaxCalls, n : 0 .. MaxCalls,
                  time : 0 .. MaxTime, id : -Half .. Half - 1]
  <2>1. n \in 0 .. MaxCalls /\ now \in 0 .. MaxTime
    BY <1>1 DEF TypeOK
  <2>2. Id(m, n, now) \in -Half .. Half - 1
    BY <1>3, <2>1, RawFits, SignedApart
  <2> HIDE DEF c
  <2> QED
    BY <1>7, <2>1, <2>2
<1> HIDE DEF new
<1>9. \A i \in issued : i.machine = m /\ i.time = now => i.n \in Live(m) /\ i.n # n
  BY <1>1 DEF Live, IssuedBy, IssuedOK
<1>10. new \notin issued
  BY <1>8, <1>9
<1>11. /\ IssuedBy(m)' = IssuedBy(m) \cup {new}
       /\ \A x \in Machines : x # m => IssuedBy(x)' = IssuedBy(x)
  BY <1>2, <1>8 DEF IssuedBy
<1>12. /\ IsFiniteSet(IssuedBy(m)')
       /\ Cardinality(IssuedBy(m)') = c + 1
  <2>1. new \notin IssuedBy(m)
    BY <1>10 DEF IssuedBy
  <2> QED
    BY <1>1, <1>11, <2>1, FS_AddElement DEF Counted
<1>13. Counted(m)'
  BY <1>1, <1>2, <1>5, <1>6, <1>12 DEF Counted
<1>14. /\ Live(m)' = Live(m)
       /\ \A x \in Machines : x # m => Live(x)' = Live(x)
  BY <1>2, <1>4, <1>8, <1>11 DEF Live
<1>15. \A x \in Machines : Counted(x)' /\ LiveOK(x)'
  <2>1. LiveOK(m)'
    BY <1>1, <1>2, <1>14 DEF LiveOK
  <2> QED
    BY <1>2, <1>4, <1>11, <1>13, <1>14, <2>1 DEF SnowflakeInv, Counted, LiveOK
<1>16. TypeOK'
  BY <1>1, <1>2, <1>8 DEF TypeOK
<1>17. IssuedOK'
  <2>1. \A i \in issued' : i \in issued \/ i = new
    BY <1>2
  <2>2. \A i \in issued : i.machine \in Machines
    BY <1>1 DEF TypeOK
  <2>3. now \in Nat
    BY <1>1 DEF TypeOK
  <2> QED
    BY <1>1, <1>2, <1>4, <1>8, <2>1, <2>2, <2>3 DEF IssuedOK
<1>18. Spread'
  <2>1. \A i \in issued' : i \in issued \/ i = new
    BY <1>2
  <2>2. \A i \in issued : i.machine = m /\ i.time = now =>
           i.n - n < SequenceCount /\ n - i.n < SequenceCount /\ i.n # n
    BY <1>1, <1>3, <1>9 DEF LiveOK
  <2>3. n - n < SequenceCount
    BY <1>3, FieldsAssumption
  <2> QED
    BY <1>1, <1>8, <2>1, <2>2, <2>3 DEF Spread
<1> QED
  BY <1>15, <1>16, <1>17, <1>18 DEF SnowflakeInv

\* When the clock goes on, nothing issued so far is live any more.
LEMMA ClockInv ==
    ASSUME SnowflakeInv, now < MaxTime, now' = now + 1, issued' = issued
    PROVE  /\ now' \in 0 .. MaxTime
           /\ \A m \in Machines : Live(m)' = pending'[m] /\ IssuedBy(m)' = IssuedBy(m)
           /\ \A i \in issued : i.time <= now' /\ i.time # now'
<1>1. TypeOK /\ IssuedOK /\ now \in Nat /\ \A i \in issued : i.time \in Nat
  BY DEF SnowflakeInv, TypeOK
<1>2. \A i \in issued : i.time <= now' /\ i.time # now'
  BY <1>1 DEF IssuedOK
<1>3. now' \in 0 .. MaxTime
  BY <1>1, BoundsAssumption
<1>4. \A m \in Machines : IssuedBy(m)' = IssuedBy(m)
  BY DEF IssuedBy
<1>5. \A m \in Machines : {j \in IssuedBy(m)' : j.time = now'} = {}
  BY <1>2 DEF IssuedBy
<1>6. \A m \in Machines : Live(m)' = pending'[m]
  BY <1>5 DEF Live
<1> QED
  BY <1>2, <1>3, <1>4, <1>6

LEMMA TickInv ==
    ASSUME SnowflakeInv, Tick
    PROVE  SnowflakeInv'
<1> USE DEF Tick
<1>1. TypeOK /\ IssuedOK /\ Spread
  BY DEF SnowflakeInv
<1>2. TypeOK'
  BY <1>1, ClockInv DEF TypeOK
<1>3. \A m \in Machines : Counted(m)'
  BY ClockInv DEF SnowflakeInv, Counted
<1>4. \A m \in Machines : LiveOK(m)'
  BY <1>1, ClockInv, LiveType DEF SnowflakeInv, LiveOK
<1>5. IssuedOK'
  BY <1>1, ClockInv DEF IssuedOK
<1>6. Spread'
  BY <1>1 DEF Spread
<1> QED
  BY <1>2, <1>3, <1>4, <1>5, <1>6 DEF SnowflakeInv

LEMMA RestartInv ==
    ASSUME SnowflakeInv, NEW m \in Machines, Restart(m)
    PROVE  SnowflakeInv'
<1> USE DEF Restart
<1>1. TypeOK /\ IssuedOK /\ Spread
  BY DEF SnowflakeInv
<1>2. /\ pending'[m] = {} /\ sequence'[m] = 0
      /\ \A x \in Machines : x # m => pending'[x] = pending[x] /\ sequence'[x] = sequence[x]
  BY <1>1 DEF TypeOK
<1>3. TypeOK'
  BY <1>1, ClockInv, BoundsAssumption DEF TypeOK
<1>4. Counted(m)'
  <2>1. Counted(m)
    BY DEF SnowflakeInv
  <2>2. IsFiniteSet({}) /\ Cardinality({}) = 0
    BY FS_EmptySet
  <2>3. Cardinality(IssuedBy(m)) \in Nat /\ Cardinality(pending[m]) \in Nat
    BY <2>1, FS_CardinalityType DEF Counted
  <2> QED
    BY <1>2, <2>1, <2>2, <2>3, ClockInv, BoundsAssumption DEF Counted
<1>5. \A x \in Machines : Counted(x)'
  BY <1>2, <1>4, ClockInv DEF SnowflakeInv, Counted
<1>6. \A x \in Machines : LiveOK(x)'
  BY <1>1, <1>2, ClockInv, LiveType DEF SnowflakeInv, LiveOK
<1>7. IssuedOK'
  BY <1>1, ClockInv DEF IssuedOK
<1>8. Spread'
  BY <1>1 DEF Spread
<1> QED
  BY <1>3, <1>5, <1>6, <1>7, <1>8 DEF SnowflakeInv

LEMMA SnowflakeStepInv == SnowflakeInv /\ [Next]_vars => SnowflakeInv'
<1> SUFFICES ASSUME SnowflakeInv, [Next]_vars
             PROVE  SnowflakeInv'
  OBVIOUS
<1>1. CASE UNCHANGED vars
  <2> USE <1>1 DEF vars, SnowflakeInv
  <2>1. TypeOK' /\ IssuedOK' /\ Spread'
    BY DEF TypeOK, IssuedOK, Spread
  <2>2. \A m \in Machines : IssuedBy(m)' = IssuedBy(m) /\ Live(m)' = Live(m)
    BY DEF IssuedBy, Live
  <2>3. \A m \in Machines : Counted(m)' /\ LiveOK(m)'
    BY <2>2 DEF Counted, LiveOK
  <2> QED
    BY <2>1, <2>3
<1>2. CASE Next
  BY <1>2, TickInv, TakeNumberInv, ReadClockInv, RestartInv DEF Next
<1> QED
  BY <1>1, <1>2

LEMMA SnowflakeAlwaysInv == Spec => []SnowflakeInv
  BY SnowflakeInitInv, SnowflakeStepInv, PTL DEF Spec

-----------------------------------------------------------------------------
(* The theorems.                                                           *)

\* Ids are int64s, and a counter does not run ahead of the calls it counted.
THEOREM SnowflakeTypeOK == Spec => []TypeOK
<1>1. SnowflakeInv => TypeOK
  BY DEF SnowflakeInv
<1> QED
  BY <1>1, SnowflakeAlwaysInv, PTL

\* GenID never returns an id twice on one pod, for fields of any size, as long
\* as no number is taken a whole field ahead of one that is live.
THEOREM SnowflakeUniquePerPod == Spec => []UniquePerPod
<1>1. SnowflakeInv => UniquePerPod
  <2> SUFFICES ASSUME SnowflakeInv, NEW i \in issued, NEW j \in issued,
                      i.id = j.id, i.machine = j.machine
               PROVE  i = j
    BY DEF UniquePerPod
  <2>1. /\ i.machine \in Machines /\ i.n \in Nat /\ j.n \in Nat
        /\ i.time \in 0 .. MaxTime /\ j.time \in 0 .. MaxTime
    BY BoundsAssumption DEF SnowflakeInv, TypeOK
  <2>2. Id(i.machine, i.n, i.time) = Id(i.machine, j.n, j.time)
    BY DEF SnowflakeInv, IssuedOK
  <2>3. i.time = j.time /\ i.n % SequenceCount = j.n % SequenceCount
    BY <2>1, <2>2, IdTells
  <2>4. i.n - j.n < SequenceCount /\ j.n - i.n < SequenceCount
    BY <2>3 DEF SnowflakeInv, Spread
  <2>5. i.n = j.n
    BY <2>1, <2>3, <2>4, SamePlace
  <2> QED
    BY <2>3, <2>5 DEF SnowflakeInv, Spread
<1> QED
  BY <1>1, SnowflakeAlwaysInv, PTL
=============================================================================
