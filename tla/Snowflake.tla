----------------------------- MODULE Snowflake -----------------------------
(***************************************************************************)
(* The id generator of fwends-backend/util/snowflake.go, one per pod, and  *)
(* the concurrent requests of a pod that call its GenID. An id is made of  *)
(* a millisecond timestamp, the index of the pod and a sequence number.    *)
(***************************************************************************)
EXTENDS Integers, FiniteSets

CONSTANTS
    Machines,       \* pod indexes
    MachineCount,   \* how many pod indexes fit into an id: 1 << machineBits,
    SequenceCount,  \* how many numbers of a pod: 1 << sequenceBits,
    TimeCount,      \* and how many timestamps, next to the sign of an int64
    MaxTime,        \* bound: the clock stops here
    MaxCalls        \* bound: calls of GenID that a pod receives

\* Each count is a power of two, 2^10, 2^12 and 2^41 in the code, of which only
\* this matters: there are such values and an even number of pods.
ASSUME FieldsAssumption ==
    /\ {MachineCount, SequenceCount, TimeCount} \subseteq Nat \ {0}
    /\ MachineCount % 2 = 0

\* NewSnowflakeGenerator rejects any other index.
ASSUME MachinesAssumption == Machines \subseteq 0 .. MachineCount - 1

\* Timestamps reach the sign bit, in 2039, but do not come round, in 2109.
ASSUME BoundsAssumption == {MaxTime, MaxCalls} \subseteq Nat /\ MaxTime < 2 * TimeCount

VARIABLES
    now,        \* milliseconds; the pods' clocks agree
    sequence,   \* sequence[m]: the counter of pod m
    pending,    \* pending[m]: counter values taken by calls of GenID that have
                \* yet to read the clock
    issued      \* the ids returned, with their origin

vars == <<now, sequence, pending, issued>>

\* Mutant: one bit too few.
SequencePartShort(n) == n % (SequenceCount \div 2)

\* The low bits of an id: base | (sequence & mask). The mask keeps one bit more
\* than sequenceBits, and that bit shares its place with the lowest machine bit.
SequencePart(n) == n % (2 * SequenceCount)

MachinePart(m, n) ==
    LET carry == SequencePart(n) \div SequenceCount IN
    IF m % 2 = 1 THEN m ELSE m + carry

Half == TimeCount * (SequenceCount * MachineCount)

\* Mutant: the bits are taken for a uint64.
Unsigned(x) == x % (2 * Half)

\* The int64 with the bits of the natural number x.
Signed(x) == LET low == x % (2 * Half) IN IF low < Half THEN low ELSE low - 2 * Half

Id(m, n, time) ==
    Signed(time * (SequenceCount * MachineCount)
             + MachinePart(m, n) * SequenceCount
             + (SequencePart(n) % SequenceCount))

IssuedBy(m) == {i \in issued : i.machine = m}

TypeOK ==
    /\ now \in 0 .. MaxTime
    /\ sequence \in [Machines -> 0 .. MaxCalls]
    /\ pending \in [Machines -> SUBSET (0 .. MaxCalls)]
    /\ issued \subseteq [machine : Machines, call : 1 .. MaxCalls,
                         n : 0 .. MaxCalls, time : 0 .. MaxTime,
                         id : -Half .. Half - 1]

Init ==
    /\ now = 0
    /\ sequence = [m \in Machines |-> 0]
    /\ pending = [m \in Machines |-> {}]
    /\ issued = {}

\* The numbers of calls of pod m that are running or were answered in the
\* present millisecond.
Live(m) == pending[m] \cup {i.n : i \in {j \in IssuedBy(m) : j.time = now}}

\* Load the design is meant for: by the time the counter wraps around, the
\* millisecond of the ids at the same position is over and no call that took
\* its number then is still running.
WithinLoad(m) == \A n \in Live(m) : sequence[m] - n < SequenceCount

\* atomic.AddInt64
TakeNumber(m) ==
    /\ Cardinality(IssuedBy(m)) + Cardinality(pending[m]) < MaxCalls
    /\ WithinLoad(m)
    /\ pending' = [pending EXCEPT ![m] = @ \cup {sequence[m]}]
    /\ sequence' = [sequence EXCEPT ![m] = @ + 1]
    /\ UNCHANGED <<now, issued>>

\* time.Now, in the same call but a separate step.
ReadClock(m, n) ==
    /\ n \in pending[m]
    /\ pending' = [pending EXCEPT ![m] = @ \ {n}]
    /\ issued' = issued \cup
          {[machine |-> m, call |-> Cardinality(IssuedBy(m)) + 1,
            n |-> n, time |-> now, id |-> Id(m, n, now)]}
    /\ UNCHANGED <<now, sequence>>

Tick ==
    /\ now < MaxTime
    /\ now' = now + 1
    /\ UNCHANGED <<sequence, pending, issued>>

\* A restarted pod counts from zero again; a restart outlasts a millisecond.
Restart(m) ==
    /\ now < MaxTime
    /\ now' = now + 1
    /\ sequence' = [sequence EXCEPT ![m] = 0]
    /\ pending' = [pending EXCEPT ![m] = {}]
    /\ UNCHANGED issued

Next ==
    \/ Tick
    \/ \E m \in Machines :
          \/ TakeNumber(m)
          \/ \E n \in pending[m] : ReadClock(m, n)
          \/ Restart(m)

Spec == Init /\ [][Next]_vars

\* Within its load, a pod never hands out an id twice: not to two concurrent
\* requests, not after the counter wrapped around, not after a restart, and not
\* when the timestamp outgrows its bits and ids become negative (snowflake.go:35).
UniquePerPod ==
    \A i, j \in issued : i.id = j.id /\ i.machine = j.machine => i = j

\* No two calls of GenID return the same id, on one pod or on different pods
\* (snowflake.go:9 refers to the layout that keeps the fields apart); every
\* primary key and every object key is one of these ids.
UniqueIds == \A i, j \in issued : i.id = j.id => i = j
=============================================================================
