--------------------------- MODULE LongTermMemory ---------------------------
(***************************************************************************)
(* What the assistant remembers of one user: the rows of the table         *)
(* long_term_memories and the points of the Qdrant collection, as          *)
(* long_term_memory.py writes, fades and erases them.                      *)
(*                                                                         *)
(* A conversation is stored behind the reply to it: its summary, then what *)
(* the model extracts from it, one memory after the other, each as a row   *)
(* and then as a point.  Erasing the user's data is a transaction over the *)
(* rows and then a deletion of the points, and the decay of the weekly     *)
(* task is a transaction of its own; none of them excludes another.        *)
(***************************************************************************)
EXTENDS Integers, FiniteSets

CONSTANTS
    Stores,          \* calls of store_conversation
    Erasers,         \* calls of delete_user_data that may overlap
    MaxFacts,        \* facts kept of a conversation: 10
    DecayDays,       \* memory_decay_days, in ticks
    Importances,     \* importance the model gives to facts, in tenths
    MaxCrashes       \* bound: how often the process dies

ASSUME CountsAssumption ==
    /\ MaxFacts \in Nat /\ DecayDays \in Nat \ {0} /\ MaxCrashes \in Nat
    /\ Importances \subseteq 0 .. 10

VARIABLES
    account,         \* the user's account has not been deleted
    row,             \* row[m]: "none", "live" or "faded" (is_deleted)
    point,           \* point[m]: Qdrant holds m
    importance, age, \* importance_score of m's row, and ticks since its created_at
    spc, at, facts,  \* spc[s]: where call s is; at[s]: the memory it stores;
                     \* facts[s]: how many facts the model found
    inDb,            \* inDb[s]: db_success
    told,            \* memories whose store_memory returned their id
    epc, seen,       \* epc[e]: where eraser e is; seen[e]: the rows it read
    decay,           \* the decay transaction: "idle" or the rows it read
    crashes,
    due,             \* due[e]: history, memories settled when e began, {} once e failed
    gone             \* history: memories some eraser has erased

store == <<spc, at, facts, inDb>>
erase == <<epc, seen, due>>
memoryVars == <<account, row, point, importance, age, spc, at, facts, inDb, told,
                epc, seen, decay, crashes, due, gone>>

\* A memory is named by the call that stores it: 0 is the summary.
Memories == Stores \X (0 .. MaxFacts)

MinImportance == 1
SummaryImportance == 4
LastAge == 2 * DecayDays

Rows == {m \in Memories : row[m] # "none"}
Points == {m \in Memories : point[m]}

\* No decay is under way.
Idle == [rows |-> {}, on |-> FALSE]

InitMemory ==
    /\ account = TRUE
    /\ row = [m \in Memories |-> "none"]
    /\ point = [m \in Memories |-> FALSE]
    /\ importance = [m \in Memories |-> SummaryImportance]
    /\ age = [m \in Memories |-> 0]
    /\ spc = [s \in Stores |-> "idle"]
    /\ at = [s \in Stores |-> 0]
    /\ facts = [s \in Stores |-> 0]
    /\ inDb = [s \in Stores |-> FALSE]
    /\ told = {}
    /\ epc = [e \in Erasers |-> "idle"]
    /\ seen = [e \in Erasers |-> {}]
    /\ decay = Idle
    /\ crashes = 0
    /\ due = [e \in Erasers |-> {}]
    /\ gone = {}

----------------------------------------------------------------------------
(* store_conversation                                                       *)

\* The user's chat has been answered.
Converse(s) ==
    /\ account /\ spc[s] = "idle"
    /\ spc' = [spc EXCEPT ![s] = "row"]
    /\ UNCHANGED <<account, row, point, importance, age, at, facts, inDb, told, erase,
                   decay, crashes, gone>>

\* _store_in_db; a failure is logged.
StoreRow(s) ==
    /\ spc[s] = "row"
    /\ spc' = [spc EXCEPT ![s] = "point"]
    /\ \/ /\ row' = [row EXCEPT ![<<s, at[s]>>] = "live"]
          /\ inDb' = [inDb EXCEPT ![s] = TRUE]
          /\ \E i \in IF at[s] = 0 THEN {SummaryImportance} ELSE Importances :
                 importance' = [importance EXCEPT ![<<s, at[s]>>] = i]
       \/ UNCHANGED <<row, inDb, importance>>
    /\ UNCHANGED <<account, point, age, at, facts, told, erase, decay, crashes, gone>>

\* What follows a memory: the extraction behind the summary, the next fact, the end.
Proceed(s) ==
    IF at[s] = 0
    THEN spc' = [spc EXCEPT ![s] = "extract"] /\ UNCHANGED <<at, facts>>
    ELSE IF at[s] < facts[s]
    THEN /\ spc' = [spc EXCEPT ![s] = "row"]
         /\ at' = [at EXCEPT ![s] = at[s] + 1]
         /\ UNCHANGED facts
    ELSE /\ spc' = [spc EXCEPT ![s] = "done"]
         /\ at' = [at EXCEPT ![s] = 0]
         /\ facts' = [facts EXCEPT ![s] = 0]

\* Mutation: the id is returned whatever came of it.
ToldOfAll(s, stored) == told' = told \cup {<<s, at[s]>>}

\* db_success or qdrant_success
ToldOf(s, stored) ==
    told' = IF inDb[s] \/ stored THEN told \cup {<<s, at[s]>>} ELSE told

\* _store_in_qdrant; a failure is logged.
StorePoint(s) ==
    /\ spc[s] = "point"
    /\ \E stored \in BOOLEAN :
           /\ point' = [point EXCEPT ![<<s, at[s]>>] = stored]
           /\ ToldOf(s, stored)
    /\ inDb' = [inDb EXCEPT ![s] = FALSE]
    /\ Proceed(s)
    /\ UNCHANGED <<account, row, importance, age, erase, decay, crashes, gone>>

\* The model names n facts, up to the first whose importance cannot be read; 0 when it
\* fails or its answer cannot be read.
Extract(s) ==
    /\ spc[s] = "extract"
    /\ \E n \in 0 .. MaxFacts :
           IF n = 0
           THEN spc' = [spc EXCEPT ![s] = "done"] /\ UNCHANGED <<at, facts>>
           ELSE /\ spc' = [spc EXCEPT ![s] = "row"]
                /\ at' = [at EXCEPT ![s] = 1]
                /\ facts' = [facts EXCEPT ![s] = n]
    /\ UNCHANGED <<account, row, point, importance, age, inDb, told, erase, decay,
                   crashes, gone>>

----------------------------------------------------------------------------
(* delete_user_data                                                         *)

InFlight == {<<s, at[s]>> : s \in {s \in Stores : spc[s] \in {"row", "point"}}}

\* A user deletes the account, or an administrator the memories: the transaction
\* reads the rows.
BeginErase(e) ==
    /\ epc[e] = "idle"
    /\ account' \in {account, FALSE}
    /\ epc' = [epc EXCEPT ![e] = "rows"]
    /\ seen' = [seen EXCEPT ![e] = Rows]
    /\ due' = [due EXCEPT ![e] = (Rows \cup Points) \ InFlight]
    /\ UNCHANGED <<row, point, importance, age, store, told, decay, crashes, gone>>

\* Mutation: the rows are marked as the decay marks them.
EraseRowsSoftly(e) ==
    /\ epc[e] = "rows"
    /\ row' = [m \in Memories |-> IF m \in seen[e] THEN "faded" ELSE row[m]]
    /\ epc' = [epc EXCEPT ![e] = "points"]
    /\ seen' = [seen EXCEPT ![e] = {}]
    /\ UNCHANGED <<account, point, importance, age, store, told, decay, crashes, due,
                   gone>>

\* It deletes what it read and commits, or is rolled back; the points follow anyway.
EraseRows(e) ==
    /\ epc[e] = "rows"
    /\ \/ /\ row' = [m \in Memories |-> IF m \in seen[e] THEN "none" ELSE row[m]]
          /\ age' = [m \in Memories |-> IF m \in seen[e] THEN 0 ELSE age[m]]
          /\ importance' = [m \in Memories |-> IF m \in seen[e] THEN SummaryImportance
                                                ELSE importance[m]]
          /\ UNCHANGED due
       \/ due' = [due EXCEPT ![e] = {}] /\ UNCHANGED <<row, age, importance>>
    /\ epc' = [epc EXCEPT ![e] = "points"]
    /\ seen' = [seen EXCEPT ![e] = {}]
    /\ UNCHANGED <<account, point, store, told, decay, crashes, gone>>

\* _delete_from_qdrant; a failure is logged.
ErasePoints(e) ==
    /\ epc[e] = "points"
    /\ \/ /\ point' = [m \in Memories |-> FALSE]
          /\ gone' = gone \cup due[e]
       \/ UNCHANGED <<point, gone>>
    /\ epc' = [epc EXCEPT ![e] = "idle"]
    /\ due' = [due EXCEPT ![e] = {}]
    /\ UNCHANGED <<account, row, importance, age, store, told, seen, decay, crashes>>

----------------------------------------------------------------------------
(* apply_memory_decay                                                       *)

\* Mutation: a score is only removed below 0, which max() never gives.
FadedAwayBelow0(m) == FALSE

\* 1.0 - days_old / (memory_decay_days * 2), less than 0.1 and of little importance.
FadedAway(m) ==
    /\ 10 * (LastAge - age[m]) < LastAge
    /\ importance[m] < MinImportance

\* The scheduled run reads the old rows of a user who has an account.
DecayReads ==
    /\ account /\ ~decay.on
    /\ decay' = [on |-> TRUE,
                 rows |-> {m \in Memories : row[m] = "live" /\ age[m] > DecayDays
                                            /\ importance[m] < 7}]
    /\ UNCHANGED <<account, row, point, importance, age, store, told, erase, crashes,
                   gone>>

Victims == {m \in decay.rows : FadedAway(m)}

\* The rows are updated in one transaction.  An update that no longer finds its row
\* raises and rolls all of them back; a row whose score is as it was is not updated.
DecayCommits ==
    /\ decay.on
    /\ Victims \subseteq Rows
    /\ row' = [m \in Memories |-> IF m \in Victims THEN "faded" ELSE row[m]]
    /\ decay' = Idle
    /\ UNCHANGED <<account, point, importance, age, store, told, erase, crashes, gone>>

DecayRollsBack ==
    /\ decay.on
    /\ ~(decay.rows \subseteq Rows)
    /\ decay' = Idle
    /\ UNCHANGED <<account, row, point, importance, age, store, told, erase, crashes,
                   gone>>

----------------------------------------------------------------------------
(* Time and crashes.                                                        *)

\* A tick is memory_decay_days / DecayDays.
MemoriesAge ==
    /\ \E m \in Rows : age[m] < LastAge
    /\ age' = [m \in Memories |->
                   IF m \in Rows /\ age[m] < LastAge THEN age[m] + 1 ELSE age[m]]
    /\ UNCHANGED <<account, row, point, importance, store, told, erase, decay, crashes,
                   gone>>

\* The process dies: what ran in it is not taken up again, a transaction that is
\* open is rolled back.
Crash ==
    /\ crashes < MaxCrashes
    /\ crashes' = crashes + 1
    /\ spc' = [s \in Stores |-> IF spc[s] = "idle" THEN "idle" ELSE "done"]
    /\ at' = [s \in Stores |-> 0]
    /\ facts' = [s \in Stores |-> 0]
    /\ inDb' = [s \in Stores |-> FALSE]
    /\ epc' = [e \in Erasers |-> "idle"]
    /\ seen' = [e \in Erasers |-> {}]
    /\ due' = [e \in Erasers |-> {}]
    /\ decay' = Idle
    /\ UNCHANGED <<account, row, point, importance, age, told, gone>>

NextMemory ==
    \/ \E s \in Stores : Converse(s) \/ StoreRow(s) \/ StorePoint(s) \/ Extract(s)
    \/ \E e \in Erasers : BeginErase(e) \/ EraseRows(e) \/ ErasePoints(e)
    \/ DecayReads \/ DecayCommits \/ DecayRollsBack \/ MemoriesAge \/ Crash

MemorySpec == InitMemory /\ [][NextMemory]_memoryVars

\* Time passes, and the weekly task runs and ends.
FairMemorySpec ==
    /\ MemorySpec
    /\ WF_memoryVars(MemoriesAge)
    /\ WF_memoryVars(DecayReads)
    /\ WF_memoryVars(DecayCommits \/ DecayRollsBack)

----------------------------------------------------------------------------
\* The type of the state; a row is no older than its age counts.
MemoryTypeOK ==
    /\ account \in BOOLEAN
    /\ row \in [Memories -> {"none", "live", "faded"}]
    /\ point \in [Memories -> BOOLEAN]
    /\ importance \in [Memories -> 0 .. 10] /\ age \in [Memories -> 0 .. LastAge]
    /\ spc \in [Stores -> {"idle", "row", "point", "extract", "done"}]
    /\ at \in [Stores -> 0 .. MaxFacts] /\ facts \in [Stores -> 0 .. MaxFacts]
    /\ inDb \in [Stores -> BOOLEAN]
    /\ told \subseteq Memories /\ gone \subseteq Memories
    /\ epc \in [Erasers -> {"idle", "rows", "points"}]
    /\ seen \in [Erasers -> SUBSET Memories] /\ due \in [Erasers -> SUBSET Memories]
    /\ decay \in [on : BOOLEAN, rows : SUBSET Memories]
    /\ crashes \in 0 .. MaxCrashes

\* An erasure that met no failure took every memory that was settled when it began,
\* from both stores, and neither a decay that had read it nor another store brings
\* it back.
ErasedForGood == \A m \in gone : row[m] = "none" /\ ~point[m]

\* store_memory returns an id when at least one store took the memory, whichever of
\* the two failed; from then on the memory can be found until an eraser runs.
Findable(m) == row[m] # "none" \/ point[m]

EraserRuns == \E e \in Erasers : epc'[e] # epc[e]

StoredIsKept ==
    [][\A m \in told' :
           \/ Findable(m)'
           \/ m \in told /\ (~Findable(m) \/ EraserRuns)
           \/ m \notin told /\ inDb[m[1]]]_memoryVars

\* A memory of little importance fades away, though a decay that meets an erasure
\* undoes all it did.
Fades ==
    \A m \in Memories :
        (account /\ row[m] = "live" /\ importance[m] < MinImportance)
            ~> (~account \/ row[m] # "live")

\* delete_account: "Also purges long-term memory".
Quiet == \A s \in Stores : spc[s] \in {"idle", "done"}
NothingRemains ==
    ~account /\ Quiet /\ (\A e \in Erasers : epc[e] = "idle") /\ crashes = 0
        => Rows = {}
=============================================================================
