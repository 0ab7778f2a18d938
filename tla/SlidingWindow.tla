--------------------------- MODULE SlidingWindow ---------------------------
(***************************************************************************)
(* What the rate limiter promises, without Redis, threads or time stamps.  *)
(*                                                                         *)
(* Each bucket keeps a log of the admissions it granted.  An admission is  *)
(* granted only while the distinct request ids admitted during the last    *)
(* Span[b] ticks stay within one of the limits that apply to the bucket,   *)
(* and it leaves the log when that time is over.                           *)
(* An operator may clear any set of buckets.                               *)
(***************************************************************************)
EXTENDS Integers, FiniteSets

CONSTANTS
    Buckets,       \* the rate limit keys
    Ids,           \* request identifiers
    Limits,        \* Limits[b]: the limits that callers of bucket b may carry
    Span           \* Span[b]: how many ticks an admission weighs on bucket b

VARIABLES
    now,           \* the clock
    log            \* log[b]: the admissions granted in the last Span[b] ticks,
                   \* since b was last cleared

Admission == [id : Ids, at : Nat]

AdmittedIds(b) == {e.id : e \in log[b]}

----------------------------------------------------------------------------
Init ==
    /\ now = 0
    /\ log = [b \in Buckets |-> {}]

Admit(b, id) ==
    /\ UNCHANGED now
    /\ log' = [log EXCEPT ![b] = @ \cup {[id |-> id, at |-> now]}]
    /\ \E l \in Limits[b] : Cardinality(AdmittedIds(b) \cup {id}) <= l

Clear ==
    /\ UNCHANGED now
    /\ log' = [b \in Buckets |-> log'[b]]
    /\ \A b \in Buckets : log'[b] \in {{}, log[b]}

Tick ==
    /\ now' = now + 1
    /\ log' = [b \in Buckets |-> {e \in log[b] : e.at > now + 1 - Span[b]}]

Next ==
    \/ Tick
    \/ Clear
    \/ \E b \in Buckets, id \in Ids : Admit(b, id)

Spec == Init /\ [][Next]_<<now, log>>
=============================================================================
