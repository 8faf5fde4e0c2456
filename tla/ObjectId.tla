------------------------------ MODULE ObjectId ------------------------------
(***************************************************************************)
(* bson.NewObjectId: an id is made of the second, the machine, the process *)
(* and a counter.  Goroutines of several processes make ids; each takes    *)
(* the time and then a number, and others may run between the two.         *)
(***************************************************************************)
EXTENDS Integers

CONSTANTS
    Procs, Threads,         \* processes of one machine; goroutines of each
    Pids,                   \* the operating system's numbers of processes
    PidSize, CounterSize,   \* 2^16 and 2^24: what the id keeps of a process and a counter
    PerSecond,              \* bound: the ids a process begins in a second
    MaxSecond,              \* bound
    Reuse                   \* whether the number of a process that ended is used again at once

ObjectIdAssumption ==
    /\ Pids \subseteq Nat /\ Reuse \in BOOLEAN
    /\ {PerSecond, MaxSecond} \subseteq Nat /\ {PidSize, CounterSize} \subseteq Nat \ {0}

VARIABLES
    pid,            \* process -> its number
    counter,        \* process -> objectIdCounter, of which an id keeps no more than is kept here
    time,           \* process, goroutine -> the second it has taken, or NoTime
    begun,          \* process -> ids begun in this second
    second, ids, twice  \* the ids of this second and the last; whether one was made twice
idVars == <<pid, counter, time, begun, second, ids, twice>>

\* A goroutine that is not about to take a number
NoTime == -1

IdInit ==
    /\ pid \in [Procs -> Pids] /\ \A p, q \in Procs : p # q => pid[p] # pid[q]
    /\ counter = [p \in Procs |-> 0] /\ time = [c \in Procs \X Threads |-> NoTime]
    /\ begun = [p \in Procs |-> 0] /\ second = 1 /\ ids = {} /\ twice = FALSE

\* (_Two: two bytes of three, here a quarter)
Counter_Two(i) == i % (CounterSize \div 4)
Counter(i) == i % CounterSize
Pid(p) == pid[p] % PidSize

TakeTime(p, g) ==
    /\ time[<<p, g>>] = NoTime /\ begun[p] < PerSecond
    /\ time' = [time EXCEPT ![<<p, g>>] = second] /\ begun' = [begun EXCEPT ![p] = @ + 1]
    /\ UNCHANGED <<pid, counter, second, ids, twice>>

\* The counter is increased and read in one atomic step.
NewObjectId(p, g) ==
    LET id == [time |-> time[<<p, g>>], pid |-> Pid(p), counter |-> Counter(counter[p] + 1)] IN
    /\ time[<<p, g>>] # NoTime /\ time' = [time EXCEPT ![<<p, g>>] = NoTime]
    /\ counter' = [counter EXCEPT ![p] = (@ + 1) % CounterSize]
    /\ ids' = ids \cup {id} /\ twice' = (twice \/ id \in ids)
    /\ UNCHANGED <<pid, begun, second>>

\* No goroutine is held up for more than a second.
NextSecond ==
    /\ second < MaxSecond /\ \A c \in DOMAIN time : time[c] \in {NoTime, second}
    /\ second' = second + 1 /\ begun' = [p \in Procs |-> 0] /\ ids' = {i \in ids : i.time = second}
    /\ UNCHANGED <<pid, counter, time, twice>>

\* A process ends and another one starts, with any free number.
Restart(p) ==
    /\ counter' = [counter EXCEPT ![p] = 0]
    /\ time' = [c \in DOMAIN time |-> IF c[1] = p THEN NoTime ELSE time[c]]
    /\ \E n \in Pids \ {pid[q] : q \in Procs \ {p}} :
        /\ ~Reuse => \A i \in ids : i.pid # n % PidSize
        /\ pid' = [pid EXCEPT ![p] = n]
    /\ UNCHANGED <<begun, second, ids, twice>>

IdNext ==
    \/ \E p \in Procs, g \in Threads : TakeTime(p, g) \/ NewObjectId(p, g)
    \/ \E p \in Procs : Restart(p)
    \/ NextSecond
IdSpec == IdInit /\ [][IdNext]_idVars

\* No id is made twice, by goroutines or processes of a machine whose numbers differ
\* in what an id keeps of them, though counters wrap around.
Unique == ~twice
=============================================================================
