----------------------------- MODULE RagSystems -----------------------------
(***************************************************************************)
(* The knowledge bases of app.py: the table of RAGSystem objects, one per  *)
(* user and at most RAG_MAX_CACHED_USERS of them, which request threads    *)
(* look up, fill, query and evict, the files and saved indexes on disk,    *)
(* and the routes that upload, delete, rebuild and clear.                  *)
(*                                                                         *)
(* Two kinds of lock: the table's, and each object's build lock, which     *)
(* clear() takes, so that an eviction waits for it while it holds the      *)
(* table.  A thread that has fetched an object goes on with it whatever    *)
(* becomes of the table.                                                   *)
(***************************************************************************)
EXTENDS Integers, Sequences, FiniteSets

CONSTANTS
    Users,
    Requests,        \* request threads, and the rebuild threads they turn into
    Files,           \* ids of uploads; their contents differ
    Owner,           \* Owner[f]: the user who uploads f
    MaxCached,       \* RAG_MAX_CACHED_USERS
    NoUser, NoFile, NoRequest, NoObject

ASSUME TableAssumption == MaxCached \in Nat \ {0}

ASSUME OwnerAssumption == Owner \in [Files -> Users]

ASSUME NamesAssumption ==
    /\ NoUser \notin Users
    /\ NoFile \notin Files
    /\ NoRequest \notin Requests

\* A RAGSystem: the user it is for, and which of that user's objects it is.  A user
\* has one in the table, and each request may hold an older one.
Objects == Users \X (0 .. Cardinality(Requests))

ASSUME NoObjectAssumption == NoObject \notin Objects

VARIABLES
    cache,           \* cache[u]: the object of u in _cache, or NoObject
    order,           \* _access_order
    tableLock,       \* who holds _cache_lock over a wait, or NoRequest
    ready,           \* ready[o]: o._ready
    engine,          \* engine[o]: the files o._engine answers from, {} if None
    lock,            \* lock[o]: who holds o._build_lock
    files,           \* the files in the knowledge directories
    saved,           \* saved[u]: the files of the index saved on disk, {} if none
    rows,            \* the files that have a row in uploads
    pc, op, user,    \* where a request is, its route and its user
    file,            \* file[r]: the upload it saves or deletes
    ref,             \* ref[r]: the object it has fetched, or evicts
    docs,            \* docs[r]: the files its build read
    spoiled,         \* history: chats that met no saved index, or lost it meanwhile
    upset            \* history: chats whose user's object was evicted meanwhile

table == <<cache, order, tableLock>>
objects == <<ready, engine, lock>>
disk == <<files, saved, rows>>
request == <<pc, op, user, file, ref, docs>>
history == <<spoiled, upset>>
vars == <<table, objects, disk, request, history>>

Owned(u) == {f \in Files : Owner[f] = u}

Routes == {"chat", "look", "upload", "delete", "rebuild", "clear"}

----------------------------------------------------------------------------
Init ==
    /\ cache = [u \in Users |-> NoObject]
    /\ order = <<>>
    /\ tableLock = NoRequest
    /\ ready = [o \in Objects |-> FALSE]
    /\ engine = [o \in Objects |-> {}]
    /\ lock = [o \in Objects |-> NoRequest]
    /\ files = {} /\ rows = {}
    /\ saved = [u \in Users |-> {}]
    /\ pc = [r \in Requests |-> "idle"]
    /\ op = [r \in Requests |-> "look"]
    /\ user = [r \in Requests |-> NoUser]
    /\ file = [r \in Requests |-> NoFile]
    /\ ref = [r \in Requests |-> NoObject]
    /\ docs = [r \in Requests |-> {}]
    /\ spoiled = {} /\ upset = {}

Goto(r, p) == pc' = [pc EXCEPT ![r] = p]

Chats(u) == {r \in Requests : op[r] = "chat" /\ user[r] = u}

Spoil(u) == spoiled' = spoiled \cup Chats(u)

\* r is over; an object that nobody else has is garbage.
Finish(r) ==
    LET o == ref[r]
        garbage == /\ o # NoObject /\ cache[o[1]] # o
                   /\ \A q \in Requests \ {r} : ref[q] # o
    IN  /\ Goto(r, "idle")
        /\ op' = [op EXCEPT ![r] = "look"]
        /\ user' = [user EXCEPT ![r] = NoUser]
        /\ file' = [file EXCEPT ![r] = NoFile]
        /\ ref' = [ref EXCEPT ![r] = NoObject]
        /\ docs' = [docs EXCEPT ![r] = {}]
        /\ spoiled' = spoiled \ {r} /\ upset' = upset \ {r}
        /\ ready' = IF garbage THEN [ready EXCEPT ![o] = FALSE] ELSE ready
        /\ engine' = IF garbage THEN [engine EXCEPT ![o] = {}] ELSE engine

\* A request comes; "look" are the routes that fetch an object to show its numbers.
Arrive(r, route, u) ==
    /\ pc[r] = "idle"
    /\ Goto(r, CASE route \in {"upload", "delete"} -> "saving"
                 [] route = "clear" -> "emptying"
                 [] OTHER -> "looking")
    /\ op' = [op EXCEPT ![r] = route]
    /\ user' = [user EXCEPT ![r] = u]
    /\ spoiled' = IF saved[u] = {} THEN spoiled \cup {r} ELSE spoiled
    /\ UNCHANGED <<table, objects, disk, file, ref, docs, upset>>

----------------------------------------------------------------------------
(* RAGSystem.for_user.                                                      *)

\* _access_order.remove(key), and the ValueError that is ignored.
Without(q, u) ==
    IF \E i \in 1 .. Len(q) : q[i] = u
    THEN LET at == CHOOSE i \in 1 .. Len(q) : q[i] = u
         IN  [i \in 1 .. Len(q) - 1 |-> IF i < at THEN q[i] ELSE q[i + 1]]
    ELSE q

\* Mutation: the key is appended but not taken from its old place.
TouchedTwice(q, u) == Append(q, u)

Touched(q, u) == Append(Without(q, u), u)

Cached == {u \in Users : cache[u] # NoObject}

\* The objects of u that nobody has: there is always one, as u has one more than
\* there are requests, each of which holds one at most.
Unused(u) ==
    {o \in Objects : o[1] = u /\ cache[u] # o /\ \A r \in Requests : ref[r] # o}

NewObject(u) == CHOOSE o \in Unused(u) : TRUE

Hit(r) ==
    /\ pc[r] = "looking"
    /\ tableLock = NoRequest
    /\ cache[user[r]] # NoObject
    /\ order' = Touched(order, user[r])
    /\ Goto(r, "fetching")
    /\ UNCHANGED <<cache, tableLock, objects, disk, op, user, file, ref, docs, history>>

Miss(r) ==
    /\ pc[r] = "looking"
    /\ tableLock = NoRequest
    /\ cache[user[r]] = NoObject
    /\ Cardinality(Cached) < MaxCached
    /\ Unused(user[r]) # {}
    /\ cache' = [cache EXCEPT ![user[r]] = NewObject(user[r])]
    /\ order' = Touched(order, user[r])
    /\ Goto(r, "fetching")
    /\ UNCHANGED <<tableLock, objects, disk, op, user, file, ref, docs, history>>

\* The table is full: the least recently used object goes, and r keeps the table
\* until it has cleared it.
Displace(r) ==
    LET k == Head(order)
    IN  /\ pc[r] = "looking"
        /\ tableLock = NoRequest
        /\ cache[user[r]] = NoObject
        /\ Cardinality(Cached) >= MaxCached
        /\ order' = Tail(order)
        /\ cache' = [cache EXCEPT ![k] = NoObject]
        /\ ref' = [ref EXCEPT ![r] = cache[k]]
        /\ tableLock' = r
        /\ upset' = upset \cup Chats(k)
        /\ Goto(r, "evicting")
        /\ UNCHANGED <<objects, disk, op, user, file, docs, spoiled>>

\* Mutation: a build lock that is held is no reason to wait.
LockIgnored(o) == TRUE

LockFree(o) == lock[o] = NoRequest

\* clear() of the evicted object, the new object, and the end of the locked block.
Evict(r) ==
    LET u == user[r]
    IN  /\ pc[r] = "evicting"
        /\ LockFree(ref[r])
        /\ Unused(u) # {}
        /\ ready' = [ready EXCEPT ![ref[r]] = FALSE]
        /\ engine' = [engine EXCEPT ![ref[r]] = {}]
        /\ cache' = [cache EXCEPT ![u] = NewObject(u)]
        /\ order' = Touched(order, u)
        /\ tableLock' = NoRequest
        /\ ref' = [ref EXCEPT ![r] = NoObject]
        /\ Goto(r, "fetching")
        /\ UNCHANGED <<lock, disk, op, user, file, docs, history>>

\* Mutation: the object that was used last is returned.
LastUsed(u) == IF order = <<>> THEN NoObject ELSE cache[order[Len(order)]]

InTable(u) == cache[u]

\* cls._cache[key], after the lock was released: KeyError if the key is gone.
Fetch(r) ==
    /\ pc[r] = "fetching"
    /\ InTable(user[r]) # NoObject
    /\ ref' = [ref EXCEPT ![r] = InTable(user[r])]
    /\ Goto(r, CASE op[r] \in {"chat", "look"} -> "fetched"
                 [] op[r] = "clear" -> "clearing"
                 [] OTHER -> "requeuing")
    /\ UNCHANGED <<table, objects, disk, op, user, file, docs, history>>

FetchFails(r) ==
    /\ pc[r] = "fetching"
    /\ InTable(user[r]) = NoObject
    /\ Finish(r)
    /\ UNCHANGED <<table, lock, disk>>

----------------------------------------------------------------------------
(* RAGSystem.init.                                                          *)

\* Only rebuild threads force it.
Forced(r) == op[r] # "chat"

AfterInit(r) == IF op[r] = "chat" THEN "asking" ELSE "leaving"

\* Mutation: the index is built from the files even if one is saved.
LoadsNever(r) == FALSE

LoadsSaved(r) == ~Forced(r) /\ saved[user[r]] # {}

BeginInit(r) ==
    /\ pc[r] = "initing"
    /\ LockFree(ref[r])
    /\ IF ready[ref[r]] /\ ~Forced(r)
       THEN Goto(r, AfterInit(r)) /\ UNCHANGED lock
       ELSE /\ lock' = [lock EXCEPT ![ref[r]] = r]
            /\ Goto(r, IF LoadsSaved(r) THEN "loading" ELSE "reading")
    /\ UNCHANGED <<table, ready, engine, disk, op, user, file, ref, docs, history>>

\* Mutation: a build takes the table's lock before it ends.
BuildEndsInTable == tableLock = NoRequest

BuildMayEnd == TRUE

\* init() sets the engine and _ready and leaves.
Becomes(r, e) ==
    /\ BuildMayEnd
    /\ ready' = [ready EXCEPT ![ref[r]] = e # {}]
    /\ engine' = [engine EXCEPT ![ref[r]] = e]
    /\ lock' = [lock EXCEPT ![ref[r]] = NoRequest]
    /\ docs' = [docs EXCEPT ![r] = {}]
    /\ Goto(r, AfterInit(r))
    /\ UNCHANGED <<table, op, user, file, ref>>

\* _load_persisted.
Load(r) ==
    /\ pc[r] = "loading"
    /\ saved[user[r]] # {}
    /\ Becomes(r, saved[user[r]])
    /\ UNCHANGED <<disk, history>>

\* _build_from_files reads the files, ...
Read(r) ==
    /\ pc[r] = "reading"
    /\ files \cap Owned(user[r]) # {}
    /\ docs' = [docs EXCEPT ![r] = files \cap Owned(user[r])]
    /\ Goto(r, "building")
    /\ UNCHANGED <<table, objects, disk, op, user, file, ref, history>>

\* ... or finds none, and leaves _ready and the engine as they were.
ReadNothing(r) ==
    /\ pc[r] = "reading"
    /\ files \cap Owned(user[r]) = {}
    /\ BuildMayEnd
    /\ lock' = [lock EXCEPT ![ref[r]] = NoRequest]
    /\ Goto(r, AfterInit(r))
    /\ UNCHANGED <<table, ready, engine, disk, op, user, file, ref, docs, history>>

\* ... embeds them and saves the index.
Build(r) ==
    /\ pc[r] = "building"
    /\ saved' = [saved EXCEPT ![user[r]] = docs[r]]
    /\ Becomes(r, docs[r])
    /\ UNCHANGED <<files, rows, history>>

\* A library raises, or the saved index is gone; a built index may have been saved.
InitFails(r) ==
    /\ pc[r] \in {"loading", "reading", "building"}
    /\ Becomes(r, {})
    /\ \/ UNCHANGED saved
       \/ pc[r] = "building" /\ saved' = [saved EXCEPT ![user[r]] = docs[r]]
    /\ Spoil(user[r])
    /\ UNCHANGED <<files, rows, upset>>

----------------------------------------------------------------------------
(* chat_rag, and the routes that only look.                                 *)

LookIsOver(r) ==
    /\ pc[r] = "fetched" /\ op[r] = "look"
    /\ Finish(r)
    /\ UNCHANGED <<table, lock, disk>>

CheckReady(r) ==
    /\ pc[r] = "fetched" /\ op[r] = "chat"
    /\ Goto(r, IF ready[ref[r]] THEN "asking" ELSE "initing")
    /\ UNCHANGED <<table, objects, disk, op, user, file, ref, docs, history>>

Ask(r) ==
    /\ pc[r] = "asking"
    /\ ready[ref[r]]
    /\ Goto(r, "retrieving")
    /\ UNCHANGED <<table, objects, disk, op, user, file, ref, docs, history>>

\* RAG_NOT_READY.
AskFails(r) ==
    /\ pc[r] = "asking"
    /\ ~ready[ref[r]]
    /\ Finish(r)
    /\ UNCHANGED <<table, lock, disk>>

\* The engine is read again: without one, the answer is that nothing was found.
Retrieve(r) ==
    /\ pc[r] = "retrieving"
    /\ Finish(r)
    /\ UNCHANGED <<table, lock, disk>>

----------------------------------------------------------------------------
(* Uploads, deletions and rebuilds.                                         *)

\* save_upload writes the file before its row is committed.
SaveFile(r, f) ==
    /\ pc[r] = "saving" /\ op[r] = "upload"
    /\ Owner[f] = user[r]
    /\ f \notin files \cup rows \cup saved[user[r]]
    /\ \A o \in Objects : f \notin engine[o]
    /\ \A q \in Requests : f \notin docs[q] /\ f # file[q]
    /\ files' = files \cup {f}
    /\ file' = [file EXCEPT ![r] = f]
    /\ Goto(r, "committing")
    /\ UNCHANGED <<table, objects, saved, rows, op, user, ref, docs, history>>

\* delete_upload unlinks the file before its row's deletion is committed.
UnlinkFile(r, f) ==
    /\ pc[r] = "saving" /\ op[r] = "delete"
    /\ Owner[f] = user[r] /\ f \in rows
    /\ files' = files \ {f}
    /\ file' = [file EXCEPT ![r] = f]
    /\ Goto(r, "committing")
    /\ UNCHANGED <<table, objects, saved, rows, op, user, ref, docs, history>>

\* The upload is refused, or there is no such upload.
Refuse(r) ==
    /\ pc[r] = "saving"
    /\ Finish(r)
    /\ UNCHANGED <<table, lock, disk>>

Commit(r) ==
    /\ pc[r] = "committing"
    /\ rows' = IF op[r] = "upload" THEN rows \cup {file[r]} ELSE rows \ {file[r]}
    /\ Goto(r, "looking")
    /\ UNCHANGED <<table, objects, files, saved, op, user, file, ref, docs, history>>

CommitFails(r) ==
    /\ pc[r] = "committing"
    /\ Finish(r)
    /\ UNCHANGED <<table, lock, disk>>

\* rebuild_async: Celery takes the task, which does not touch the table, the files
\* or the saved index.
Queue(r) ==
    /\ pc[r] = "requeuing"
    /\ Finish(r)
    /\ UNCHANGED <<table, lock, disk>>

\* Celery is not there: a thread removes the saved index and forces init().
WipeAndBuild(r) ==
    /\ pc[r] = "requeuing"
    /\ saved' = [saved EXCEPT ![user[r]] = {}]
    /\ Spoil(user[r])
    /\ Goto(r, "initing")
    /\ UNCHANGED <<table, objects, files, rows, op, user, file, ref, docs, upset>>

\* rag_clear, in its order: files, saved index, object, table, rows.
EmptyFiles(r) ==
    /\ pc[r] = "emptying"
    /\ files' = files \ Owned(user[r])
    /\ Goto(r, "unsaving")
    /\ UNCHANGED <<table, objects, saved, rows, op, user, file, ref, docs, history>>

Unsave(r) ==
    /\ pc[r] = "unsaving"
    /\ saved' = [saved EXCEPT ![user[r]] = {}]
    /\ Spoil(user[r])
    /\ Goto(r, "looking")
    /\ UNCHANGED <<table, objects, files, rows, op, user, file, ref, docs, upset>>

Clear(r) ==
    /\ pc[r] = "clearing"
    /\ LockFree(ref[r])
    /\ ready' = [ready EXCEPT ![ref[r]] = FALSE]
    /\ engine' = [engine EXCEPT ![ref[r]] = {}]
    /\ Spoil(user[r])
    /\ Goto(r, "dropping")
    /\ UNCHANGED <<table, lock, disk, op, user, file, ref, docs, upset>>

\* RAGSystem.evict, which does not clear what it drops.
Drop(r) ==
    /\ pc[r] = "dropping"
    /\ tableLock = NoRequest
    /\ cache' = [cache EXCEPT ![user[r]] = NoObject]
    /\ order' = Without(order, user[r])
    /\ Spoil(user[r])
    /\ Goto(r, "unlisting")
    /\ UNCHANGED <<tableLock, objects, disk, op, user, file, ref, docs, upset>>

Unlist(r) ==
    /\ pc[r] = "unlisting"
    /\ rows' = rows \ Owned(user[r])
    /\ Goto(r, "leaving")
    /\ UNCHANGED <<table, objects, files, saved, op, user, file, ref, docs, history>>

Leave(r) ==
    /\ pc[r] = "leaving"
    /\ Finish(r)
    /\ UNCHANGED <<table, lock, disk>>

Building(r) == Load(r) \/ Read(r) \/ ReadNothing(r) \/ Build(r) \/ InitFails(r)

Next ==
    \E r \in Requests :
        \/ \E route \in Routes, u \in Users : Arrive(r, route, u)
        \/ \E f \in Files : SaveFile(r, f) \/ UnlinkFile(r, f)
        \/ Hit(r) \/ Miss(r) \/ Displace(r) \/ Evict(r) \/ Fetch(r) \/ FetchFails(r)
        \/ BeginInit(r) \/ Building(r)
        \/ LookIsOver(r) \/ CheckReady(r) \/ Ask(r) \/ AskFails(r) \/ Retrieve(r)
        \/ Refuse(r) \/ Commit(r) \/ CommitFails(r) \/ Queue(r) \/ WipeAndBuild(r)
        \/ EmptyFiles(r) \/ Unsave(r) \/ Clear(r) \/ Drop(r) \/ Unlist(r) \/ Leave(r)

Spec == Init /\ [][Next]_vars

\* Libraries return or raise, and a thread that finds a lock free for good takes it.
FairSpec == Spec /\ \A r \in Requests : WF_vars(Building(r)) /\ WF_vars(Evict(r))

----------------------------------------------------------------------------
(* Properties.                                                              *)

HoldsBuildLock(r) == pc[r] \in {"loading", "reading", "building"}

TypeOK ==
    /\ cache \in [Users -> Objects \cup {NoObject}]
    /\ order \in Seq(Users)
    /\ tableLock \in Requests \cup {NoRequest}
    /\ ready \in [Objects -> BOOLEAN]
    /\ engine \in [Objects -> SUBSET Files]
    /\ lock \in [Objects -> Requests \cup {NoRequest}]
    /\ files \subseteq Files /\ rows \subseteq Files
    /\ saved \in [Users -> SUBSET Files]
    /\ pc \in [Requests -> {"idle", "looking", "evicting", "fetching", "fetched", "initing",
                            "loading", "reading", "building", "asking", "retrieving",
                            "saving", "committing", "requeuing", "emptying", "unsaving",
                            "clearing", "dropping", "unlisting", "leaving"}]
    /\ op \in [Requests -> Routes]
    /\ user \in [Requests -> Users \cup {NoUser}]
    /\ file \in [Requests -> Files \cup {NoFile}]
    /\ ref \in [Requests -> Objects \cup {NoObject}]
    /\ docs \in [Requests -> SUBSET Files]
    /\ spoiled \subseteq Requests /\ upset \subseteq Requests
    /\ \A r \in Requests :
           /\ pc[r] = "evicting" <=> tableLock = r
           /\ HoldsBuildLock(r) <=> ref[r] # NoObject /\ lock[ref[r]] = r

\* Whatever threads do between their locked blocks, the table is within its bound and
\* the access order lists each of its keys once: a key it lacked would never be
\* evicted, and one too many would let the table grow (for_user, evict).
TableConsistent ==
    /\ Cardinality(Cached) <= MaxCached
    /\ {order[i] : i \in 1 .. Len(order)} = Cached
    /\ Len(order) = Cardinality(Cached)

\* "per-user isolated": a query retrieves from files of its own user, although it
\* fetches its object after it let go of the table.
AnswersAreOwn ==
    \A r \in Requests : pc[r] = "retrieving" => engine[ref[r]] \subseteq Owned(user[r])

Answers(r) == pc[r] = "retrieving" /\ engine[ref[r]] # {}

ChatEnds(r) == op[r] = "chat" /\ pc[r] # "idle" /\ pc'[r] = "idle"

\* A chat whose user had a saved index when it came answers from an index, whoever
\* else loads, builds or uploads, unless the index was wiped, a library raised, or
\* the user's object was evicted meanwhile (for_user, init, query).
ChatsAnswer ==
    [][\A r \in Requests : ChatEnds(r) /\ r \notin spoiled \cup upset => Answers(r)]_vars

\* The table is not locked for good, although an eviction waits in it for a build.
TableIsReleased == tableLock # NoRequest ~> tableLock = NoRequest

\* "only the in-memory object is dropped, and it will be transparently reloaded from
\* disk on next use".
EvictionIsTransparent ==
    [][\A r \in Requests : ChatEnds(r) /\ r \notin spoiled => Answers(r)]_vars

\* "File deleted. RAG index rebuilding in background.": when nothing is under way, no
\* object answers from a file that was deleted with its row.
DeletedFilesStayOut ==
    (\A r \in Requests : pc[r] = "idle")
        => \A u \in Cached : engine[cache[u]] \subseteq files \cup rows
=============================================================================
