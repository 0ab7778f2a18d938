-------------------------- MODULE RagSystemsProofs --------------------------
(***************************************************************************)
(* Proofs about RagSystems, for any users, requests, files and size of the *)
(* table.                                                                  *)
(*                                                                         *)
(* The access order lists the keys of the table, each once (Lists), which  *)
(* an eviction relies on for a victim and a bound.  Answers are a user's   *)
(* own because objects carry their user: what a request fetches, builds or *)
(* loads is tied to the user it is for (Placed, OwnFiles), whatever the    *)
(* table does after it let go of it.                                       *)
(***************************************************************************)
EXTENDS RagSystems, FiniteSetTheorems, TLAPS

\* The states in which a request has fetched an object, and the one where it evicts.
Fetched == {"fetched", "initing", "loading", "reading", "building", "asking",
            "retrieving", "requeuing", "clearing", "dropping", "unlisting", "leaving"}

Placed ==
    \A r \in Requests :
        /\ pc[r] # "idle" => user[r] \in Users
        /\ pc[r] = "committing" => file[r] \in Files
        /\ pc[r] = "evicting" => ref[r] \in Objects
        /\ pc[r] \in Fetched => ref[r] \in Objects /\ ref[r][1] = user[r]

LocksHeld ==
    \A r \in Requests, o \in Objects : lock[o] = r => ref[r] = o /\ HoldsBuildLock(r)

\* The sequence q lists the members of S, each once.
Lists(q, S) ==
    /\ q \in Seq(Users)
    /\ IsFiniteSet(S)
    /\ Len(q) = Cardinality(S)
    /\ \A i \in 1 .. Len(q) : q[i] \in S
    /\ \A u \in S : \E i \in 1 .. Len(q) : q[i] = u
    /\ \A i, j \in 1 .. Len(q) : q[i] = q[j] => i = j

TableRules ==
    /\ Lists(order, Cached)
    /\ Cardinality(Cached) <= MaxCached
    /\ \A r \in Requests :
           tableLock = r => cache[user[r]] = NoObject /\ Cardinality(Cached) < MaxCached

OwnFiles ==
    /\ \A u \in Users : cache[u] # NoObject => cache[u][1] = u
    /\ \A o \in Objects : engine[o] \subseteq Owned(o[1])
    /\ \A u \in Users : saved[u] \subseteq Owned(u)
    /\ \A r \in Requests : pc[r] = "building" => docs[r] \subseteq Owned(user[r])

IInv == TypeOK /\ Placed /\ LocksHeld /\ TableRules /\ OwnFiles

----------------------------------------------------------------------------
(* What the operations on the access order do to what it lists.             *)

\* remove() takes the user from the list and from what it lists.
LEMMA WithoutLists ==
    ASSUME NEW q, NEW S, Lists(q, S), NEW u \in Users
    PROVE  Lists(Without(q, u), S \ {u})
<1>1. /\ q \in Seq(Users) /\ IsFiniteSet(S) /\ Len(q) = Cardinality(S) /\ Len(q) \in Nat
      /\ \A i \in 1 .. Len(q) : q[i] \in S /\ q[i] \in Users
      /\ \A v \in S : \E i \in 1 .. Len(q) : q[i] = v
      /\ \A i, j \in 1 .. Len(q) : q[i] = q[j] => i = j
  BY DEF Lists
<1>2. CASE u \notin S
  <2>1. Without(q, u) = q
    BY <1>1, <1>2 DEF Without
  <2>2. S \ {u} = S
    BY <1>2
  <2> QED BY <2>1, <2>2
<1>3. CASE u \in S
  <2> DEFINE at == CHOOSE i \in 1 .. Len(q) : q[i] = u
             p == [i \in 1 .. Len(q) - 1 |-> IF i < at THEN q[i] ELSE q[i + 1]]
  <2>1. at \in 1 .. Len(q) /\ q[at] = u
    BY <1>1, <1>3
  <2>2. Without(q, u) = p
    BY <1>1, <1>3 DEF Without
  <2> HIDE DEF at
  <2>3. Len(q) - 1 \in Nat
    BY <1>1, <2>1
  <2>4. \A i \in 1 .. Len(q) - 1 : p[i] \in Users
    BY <1>1, <2>1
  <2>5. p \in Seq(Users) /\ Len(p) = Len(q) - 1
    BY <2>3, <2>4
  <2>6. IsFiniteSet(S \ {u}) /\ Cardinality(S \ {u}) = Cardinality(S) - 1
    BY <1>1, <1>3, FS_RemoveElement
  <2>7. \A i \in 1 .. Len(p) : p[i] \in S \ {u}
    BY <1>1, <2>1, <2>5
  <2>8. ASSUME NEW v \in S \ {u} PROVE \E i \in 1 .. Len(p) : p[i] = v
    <3>1. PICK j \in 1 .. Len(q) : q[j] = v
      BY <1>1
    <3>2. j # at
      BY <2>1, <3>1
    <3>3. CASE j < at
      BY <1>1, <2>1, <2>5, <3>1, <3>3
    <3>4. CASE j > at
      <4>1. j - 1 \in 1 .. Len(p) /\ p[j - 1] = q[j]
        BY <1>1, <2>1, <2>5, <3>1, <3>4
      <4> QED BY <4>1, <3>1
    <3>5. j < at \/ j > at
      BY <2>1, <3>1, <3>2
    <3> QED BY <3>3, <3>4, <3>5
  <2>9. \A i, j \in 1 .. Len(p) : p[i] = p[j] => i = j
    BY <1>1, <2>1, <2>5
  <2>10. Lists(p, S \ {u})
    BY <1>1, <2>5, <2>6, <2>7, <2>8, <2>9 DEF Lists
  <2> QED BY <2>2, <2>10
<1> QED BY <1>2, <1>3

\* append() of a user who is not listed lists one more.
LEMMA AppendLists ==
    ASSUME NEW q, NEW S, Lists(q, S), NEW u \in Users, u \notin S
    PROVE  Lists(Append(q, u), S \cup {u})
<1>1. /\ q \in Seq(Users) /\ IsFiniteSet(S) /\ Len(q) = Cardinality(S) /\ Len(q) \in Nat
      /\ \A i \in 1 .. Len(q) : q[i] \in S
      /\ \A v \in S : \E i \in 1 .. Len(q) : q[i] = v
      /\ \A i, j \in 1 .. Len(q) : q[i] = q[j] => i = j
  BY DEF Lists
<1> DEFINE p == Append(q, u)
<1>2. /\ p \in Seq(Users) /\ Len(p) = Len(q) + 1 /\ p[Len(q) + 1] = u
      /\ \A i \in 1 .. Len(q) : p[i] = q[i]
  BY <1>1
<1> HIDE DEF p
<1>3. IsFiniteSet(S \cup {u}) /\ Cardinality(S \cup {u}) = Cardinality(S) + 1
  BY <1>1, FS_AddElement
<1>4. \A i \in 1 .. Len(p) : p[i] \in S \cup {u}
  BY <1>1, <1>2
<1>5. \A v \in S \cup {u} : \E i \in 1 .. Len(p) : p[i] = v
  <2>1. Len(q) + 1 \in 1 .. Len(p) /\ \A i \in 1 .. Len(q) : i \in 1 .. Len(p)
    BY <1>1, <1>2
  <2> QED BY <2>1, <1>1, <1>2
<1>6. \A i, j \in 1 .. Len(p) : p[i] = p[j] => i = j
  BY <1>1, <1>2
<1>7. Lists(p, S \cup {u})
  BY <1>1, <1>2, <1>3, <1>4, <1>5, <1>6 DEF Lists
<1> QED BY <1>7 DEF p

\* A touched user is listed, once.
LEMMA TouchedLists ==
    ASSUME NEW q, NEW S, Lists(q, S), NEW u \in Users
    PROVE  Lists(Touched(q, u), S \cup {u})
<1>1. Lists(Without(q, u), S \ {u})
  BY WithoutLists
<1>2. Lists(Append(Without(q, u), u), (S \ {u}) \cup {u})
  BY <1>1, AppendLists
<1>3. (S \ {u}) \cup {u} = S \cup {u}
  OBVIOUS
<1> QED BY <1>2, <1>3 DEF Touched

\* pop(0) takes the first, who is listed.
LEMMA TailLists ==
    ASSUME NEW q, NEW S, Lists(q, S), S # {}
    PROVE  /\ Head(q) \in S /\ Head(q) \in Users
           /\ Lists(Tail(q), S \ {Head(q)})
           /\ Cardinality(S \ {Head(q)}) = Cardinality(S) - 1
<1>1. /\ q \in Seq(Users) /\ IsFiniteSet(S) /\ Len(q) = Cardinality(S) /\ Len(q) \in Nat
      /\ \A i \in 1 .. Len(q) : q[i] \in S /\ q[i] \in Users
      /\ \A v \in S : \E i \in 1 .. Len(q) : q[i] = v
      /\ \A i, j \in 1 .. Len(q) : q[i] = q[j] => i = j
  BY DEF Lists
<1> DEFINE p == Tail(q)
           u == Head(q)
<1>2. Len(q) >= 1 /\ q # <<>>
  BY <1>1
<1>3. /\ u = q[1] /\ p \in Seq(Users) /\ Len(p) = Len(q) - 1
      /\ \A i \in 1 .. Len(p) : p[i] = q[i + 1]
  BY <1>1, <1>2
<1> HIDE DEF p, u
<1>4. u \in S /\ u \in Users
  BY <1>1, <1>2, <1>3
<1>5. IsFiniteSet(S \ {u}) /\ Cardinality(S \ {u}) = Cardinality(S) - 1
  BY <1>1, <1>4, FS_RemoveElement
<1>6. \A i \in 1 .. Len(p) : p[i] \in S \ {u}
  BY <1>1, <1>2, <1>3
<1>7. ASSUME NEW v \in S \ {u} PROVE \E i \in 1 .. Len(p) : p[i] = v
  <2>1. PICK j \in 1 .. Len(q) : q[j] = v
    BY <1>1
  <2>2. j # 1
    BY <1>3, <2>1
  <2>3. j - 1 \in 1 .. Len(p) /\ p[j - 1] = q[j]
    BY <1>1, <1>3, <2>1, <2>2
  <2> QED BY <2>1, <2>3
<1>8. \A i, j \in 1 .. Len(p) : p[i] = p[j] => i = j
  BY <1>1, <1>3
<1>9. Lists(p, S \ {u})
  BY <1>1, <1>3, <1>5, <1>6, <1>7, <1>8 DEF Lists
<1> QED BY <1>4, <1>5, <1>9 DEF p, u

----------------------------------------------------------------------------
(* The invariant is inductive.                                              *)

USE DEF table, objects, disk, request, history

\* The invariant holds at first.
LEMMA InitInv == Init => IInv
<1> SUFFICES ASSUME Init PROVE IInv
  OBVIOUS
<1>1. TypeOK
  BY NamesAssumption, NoObjectAssumption DEF Init, TypeOK, HoldsBuildLock, Routes
<1>2. Placed /\ LocksHeld
  BY NamesAssumption DEF Init, Placed, LocksHeld, Fetched
<1>3. TableRules
  <2>1. Cached = {}
    BY DEF Init, Cached
  <2>2. IsFiniteSet({}) /\ Cardinality({}) = 0
    BY FS_EmptySet
  <2>3. order = <<>> /\ \A r \in Requests : tableLock # r
    BY NamesAssumption DEF Init
  <2>4. Lists(order, Cached)
    BY <2>1, <2>2, <2>3 DEF Lists
  <2> QED BY <2>1, <2>2, <2>3, <2>4, TableAssumption DEF TableRules
<1>4. OwnFiles
  BY DEF Init, OwnFiles
<1> QED BY <1>1, <1>2, <1>3, <1>4 DEF IInv

\* Every way for a request to end leaves the others, and the table, as they were.
LEMMA FinishKeeps ==
    ASSUME IInv, NEW r \in Requests, pc[r] \notin {"evicting", "loading", "reading", "building"},
           Finish(r), UNCHANGED <<table, lock, disk>>
    PROVE  IInv'
<1>1. TypeOK /\ Placed /\ LocksHeld /\ TableRules /\ OwnFiles
  BY DEF IInv
<1>2. /\ pc' = [pc EXCEPT ![r] = "idle"] /\ op' = [op EXCEPT ![r] = "look"]
      /\ user' = [user EXCEPT ![r] = NoUser] /\ file' = [file EXCEPT ![r] = NoFile]
      /\ ref' = [ref EXCEPT ![r] = NoObject] /\ docs' = [docs EXCEPT ![r] = {}]
  BY DEF Finish, Goto
<1>3. ready' \in [Objects -> BOOLEAN] /\ engine' \in [Objects -> SUBSET Files]
  BY <1>1 DEF TypeOK, Finish
<1>4. \A o \in Objects : engine'[o] \subseteq engine[o]
  BY <1>1 DEF TypeOK, Finish
<1>5. spoiled' \subseteq Requests /\ upset' \subseteq Requests
  BY <1>1 DEF TypeOK, Finish
<1>6. \A q \in Requests \ {r} :
          /\ pc'[q] = pc[q] /\ user'[q] = user[q] /\ file'[q] = file[q]
          /\ ref'[q] = ref[q] /\ docs'[q] = docs[q]
  BY <1>1, <1>2 DEF TypeOK
<1>7. pc'[r] = "idle" /\ ref'[r] = NoObject
  BY <1>1, <1>2 DEF TypeOK
<1>8. TypeOK'
  <2>1. \A q \in Requests : HoldsBuildLock(q)' <=> ref'[q] # NoObject /\ lock'[ref'[q]] = q
    BY <1>1, <1>6, <1>7 DEF TypeOK, HoldsBuildLock
  <2>2. \A q \in Requests : pc'[q] = "evicting" <=> tableLock' = q
    BY <1>1, <1>6, <1>7 DEF TypeOK
  <2> QED BY <1>1, <1>2, <1>3, <1>5, <2>1, <2>2 DEF TypeOK, Routes
<1>9. Placed'
  BY <1>1, <1>6, <1>7 DEF Placed, Fetched
<1>10. LocksHeld'
  BY <1>1, <1>6, <1>7 DEF LocksHeld, HoldsBuildLock
<1>11. TableRules'
  BY <1>1, <1>6, <1>7 DEF TableRules, Cached, TypeOK
<1>12. OwnFiles'
  BY <1>1, <1>4, <1>6, <1>7 DEF OwnFiles
<1> QED BY <1>8, <1>9, <1>10, <1>11, <1>12 DEF IInv

\* init() leaves with an engine of the user's own files.
LEMMA BecomesKeeps ==
    ASSUME IInv, NEW r \in Requests, HoldsBuildLock(r), NEW e, e \subseteq Owned(user[r]),
           Becomes(r, e), saved' \in [Users -> SUBSET Files],
           \A u \in Users : saved'[u] \subseteq Owned(u),
           UNCHANGED <<files, rows>>, spoiled' \subseteq Requests, upset' \subseteq Requests
    PROVE  IInv'
<1>1. TypeOK /\ Placed /\ LocksHeld /\ TableRules /\ OwnFiles
  BY DEF IInv
<1>2. PICK o \in Objects : o = ref[r] /\ o[1] = user[r]
  BY <1>1 DEF Placed, HoldsBuildLock, Fetched
<1>3. /\ engine' = [engine EXCEPT ![o] = e] /\ ready' = [ready EXCEPT ![o] = e # {}]
      /\ lock' = [lock EXCEPT ![o] = NoRequest]
  BY <1>2 DEF Becomes
<1>4. /\ docs' = [docs EXCEPT ![r] = {}] /\ pc' = [pc EXCEPT ![r] = AfterInit(r)]
      /\ UNCHANGED <<table, op, user, file, ref>>
  BY DEF Becomes, Goto
<1>5. AfterInit(r) \in {"asking", "leaving"}
  BY DEF AfterInit
<1>6. e \subseteq Files
  BY DEF Owned
<1>7. \A q \in Requests \ {r} : pc'[q] = pc[q] /\ docs'[q] = docs[q]
  BY <1>1, <1>4 DEF TypeOK
<1>8. pc'[r] \in {"asking", "leaving"}
  BY <1>1, <1>4, <1>5 DEF TypeOK
<1>9. \A q \in Requests, p \in Objects : lock'[p] = q <=> lock[p] = q /\ p # o
  BY <1>1, <1>3, NamesAssumption DEF TypeOK
<1>10. lock[o] = r
  BY <1>1, <1>2 DEF TypeOK
<1>11. LocksHeld'
  BY <1>1, <1>2, <1>4, <1>7, <1>9, <1>10 DEF LocksHeld, HoldsBuildLock
<1>12. TypeOK'
  <2>1. \A q \in Requests : HoldsBuildLock(q)' <=> ref'[q] # NoObject /\ lock'[ref'[q]] = q
    BY <1>1, <1>2, <1>4, <1>7, <1>8, <1>9, <1>10, NoObjectAssumption
       DEF TypeOK, HoldsBuildLock
  <2>2. \A q \in Requests : pc'[q] = "evicting" <=> tableLock' = q
    BY <1>1, <1>4, <1>7, <1>8 DEF TypeOK, HoldsBuildLock
  <2>3. /\ ready' \in [Objects -> BOOLEAN] /\ engine' \in [Objects -> SUBSET Files]
        /\ lock' \in [Objects -> Requests \cup {NoRequest}]
    BY <1>1, <1>3, <1>6 DEF TypeOK
  <2> QED BY <1>1, <1>4, <1>5, <2>1, <2>2, <2>3 DEF TypeOK
<1>13. Placed'
  BY <1>1, <1>4, <1>7, <1>8 DEF Placed, Fetched, HoldsBuildLock
<1>14. TableRules'
  BY <1>1, <1>4 DEF TableRules, Cached
<1>15. OwnFiles'
  <2>1. \A p \in Objects : engine'[p] \subseteq Owned(p[1])
    BY <1>1, <1>2, <1>3 DEF OwnFiles, TypeOK
  <2> QED BY <1>1, <1>4, <1>7, <1>8, <2>1 DEF OwnFiles
<1> QED BY <1>11, <1>12, <1>13, <1>14, <1>15 DEF IInv

Waits == {"evicting", "loading", "reading", "building"}

Calm == {"looking", "fetching", "saving", "committing", "emptying", "unsaving"}
            \cup (Fetched \ Waits)

\* A step of r that takes and releases no lock, fetches nothing and adds to no engine.
LEMMA CalmStepKeeps ==
    ASSUME IInv, NEW r \in Requests, pc[r] \in Calm, NEW p \in Calm, Goto(r, p),
           p \in Fetched => pc[r] \in Fetched,
           UNCHANGED <<tableLock, lock, op, user, ref, docs>>,
           file' \in [Requests -> Files \cup {NoFile}], p = "committing" => file'[r] \in Files,
           \A q \in Requests \ {r} : file'[q] = file[q],
           files' \subseteq Files, rows' \subseteq Files,
           saved' \in [Users -> SUBSET Files], \A u \in Users : saved'[u] \subseteq saved[u],
           ready' \in [Objects -> BOOLEAN], engine' \in [Objects -> SUBSET Files],
           \A o \in Objects : engine'[o] \subseteq engine[o],
           cache' \in [Users -> Objects \cup {NoObject}], order' \in Seq(Users),
           \A u \in Users : cache'[u] # NoObject => cache'[u][1] = u,
           TableRules',
           spoiled' \subseteq Requests, upset' \subseteq Requests
    PROVE  IInv'
<1>1. TypeOK /\ Placed /\ LocksHeld /\ OwnFiles
  BY DEF IInv
<1>2. pc' = [pc EXCEPT ![r] = p]
  BY DEF Goto
<1>3. \A q \in Requests \ {r} : pc'[q] = pc[q]
  BY <1>1, <1>2 DEF TypeOK
<1>4. pc'[r] = p /\ p \notin Waits /\ pc[r] \notin Waits /\ pc[r] # "idle" /\ p # "idle"
  BY <1>1, <1>2 DEF TypeOK, Calm, Fetched, Waits
<1>5. TypeOK'
  <2>1. \A q \in Requests : HoldsBuildLock(q)' <=> ref'[q] # NoObject /\ lock'[ref'[q]] = q
    BY <1>1, <1>3, <1>4 DEF TypeOK, HoldsBuildLock, Waits
  <2>2. \A q \in Requests : pc'[q] = "evicting" <=> tableLock' = q
    BY <1>1, <1>3, <1>4 DEF TypeOK, Waits
  <2>3. pc' \in [Requests -> {"idle", "looking", "evicting", "fetching", "fetched", "initing",
                              "loading", "reading", "building", "asking", "retrieving",
                              "saving", "committing", "requeuing", "emptying", "unsaving",
                              "clearing", "dropping", "unlisting", "leaving"}]
    BY <1>1, <1>2 DEF TypeOK, Calm, Fetched
  <2> QED BY <1>1, <2>1, <2>2, <2>3 DEF TypeOK
<1>6. Placed'
  BY <1>1, <1>3, <1>4 DEF Placed, Waits
<1>7. LocksHeld'
  BY <1>1, <1>3, <1>4 DEF LocksHeld, HoldsBuildLock, Waits
<1>8. OwnFiles'
  BY <1>1, <1>3, <1>4 DEF OwnFiles, Waits
<1> QED BY <1>5, <1>6, <1>7, <1>8 DEF IInv

\* A thread that takes a build lock, and the steps with it that leave init() with the
\* engine it had.
LEMMA LockStepKeeps ==
    ASSUME IInv, NEW r \in Requests, pc[r] \in {"initing", "reading"}, NEW o, o = ref[r],
           NEW h \in {r, NoRequest}, lock[o] \in {r, NoRequest},
           lock' = [lock EXCEPT ![o] = h],
           NEW p, Goto(r, p),
           p \in IF h = r THEN {"loading", "reading"} ELSE {"asking", "leaving"},
           UNCHANGED <<table, ready, engine, disk, op, user, file, ref, docs, history>>
    PROVE  IInv'
<1>1. TypeOK /\ Placed /\ LocksHeld /\ OwnFiles /\ TableRules
  BY DEF IInv
<1>2. pc' = [pc EXCEPT ![r] = p]
  BY DEF Goto
<1>3. \A q \in Requests \ {r} : pc'[q] = pc[q]
  BY <1>1, <1>2 DEF TypeOK
<1>4. pc'[r] = p /\ p \in {"loading", "reading", "asking", "leaving"}
  BY <1>1, <1>2 DEF TypeOK
<1>5. o \in Objects /\ o # NoObject
  BY <1>1, NoObjectAssumption DEF Placed, Fetched
<1>6. /\ \A q \in Requests \ {r}, a \in Objects : lock'[a] = q <=> lock[a] = q
      /\ \A a \in Objects : lock'[a] = r <=> a = o /\ h = r
  <2>1. \A a \in Objects : lock[a] = r => a = o
    BY <1>1 DEF LocksHeld
  <2> QED BY <1>1, <1>5, <2>1, NamesAssumption DEF TypeOK
<1>7. HoldsBuildLock(r)' <=> h = r
  BY <1>4, NamesAssumption DEF HoldsBuildLock
<1>8. TypeOK'
  <2>1. \A q \in Requests : HoldsBuildLock(q)' <=> ref'[q] # NoObject /\ lock'[ref'[q]] = q
    BY <1>1, <1>3, <1>5, <1>6, <1>7 DEF TypeOK, HoldsBuildLock
  <2>2. \A q \in Requests : pc'[q] = "evicting" <=> tableLock' = q
    BY <1>1, <1>3, <1>4 DEF TypeOK
  <2>3. lock' \in [Objects -> Requests \cup {NoRequest}]
    <3>1. lock \in [Objects -> Requests \cup {NoRequest}] /\ h \in Requests \cup {NoRequest}
      BY <1>1 DEF TypeOK
    <3> QED BY <3>1
  <2> QED BY <1>1, <1>2, <1>4, <2>1, <2>2, <2>3 DEF TypeOK
<1>9. Placed'
  BY <1>1, <1>3, <1>4 DEF Placed, Fetched
<1>10. LocksHeld'
  BY <1>1, <1>3, <1>6, <1>7 DEF LocksHeld, HoldsBuildLock
<1>11. TableRules'
  BY <1>1 DEF TableRules, Cached
<1>12. OwnFiles'
  BY <1>1, <1>3, <1>4 DEF OwnFiles
<1> QED BY <1>8, <1>9, <1>10, <1>11, <1>12 DEF IInv

\* A new object is one of its user's.
LEMMA NewObjectIsNew ==
    ASSUME NEW u \in Users, Unused(u) # {}
    PROVE  NewObject(u) \in Objects /\ NewObject(u)[1] = u
<1>1. NewObject(u) \in Unused(u)
  BY DEF NewObject
<1> QED BY <1>1 DEF Unused

\* A user's new object is listed in the table.
LEMMA AddedIsListed ==
    ASSUME TypeOK, TableRules, NEW u \in Users, cache[u] = NoObject,
           Cardinality(Cached) < MaxCached, Unused(u) # {},
           cache' = [cache EXCEPT ![u] = NewObject(u)], order' = Touched(order, u)
    PROVE  /\ Lists(order', Cached') /\ Cardinality(Cached') <= MaxCached
           /\ cache' \in [Users -> Objects \cup {NoObject}] /\ order' \in Seq(Users)
           /\ \A v \in Users : cache'[v] = IF v = u THEN NewObject(u) ELSE cache[v]
<1>1. NewObject(u) \in Objects /\ NewObject(u) # NoObject
  BY NewObjectIsNew, NoObjectAssumption
<1>2. Cached' = Cached \cup {u} /\ u \notin Cached
  BY <1>1 DEF TypeOK, Cached
<1>3. Lists(order', Cached')
  BY <1>2, TouchedLists DEF TableRules
<1>4. IsFiniteSet(Cached) /\ Cardinality(Cached) \in Nat
  BY FS_CardinalityType DEF TableRules, Lists
<1>5. Cardinality(Cached') = Cardinality(Cached) + 1
  BY <1>2, <1>4, FS_AddElement
<1>6. Cardinality(Cached') <= MaxCached
  BY <1>4, <1>5, TableAssumption
<1>7. order' \in Seq(Users)
  BY <1>3 DEF Lists
<1> QED BY <1>1, <1>3, <1>6, <1>7 DEF TypeOK

\* A full table has a victim, the first in the access order.
LEMMA VictimIsListed ==
    ASSUME TableRules, Cardinality(Cached) >= MaxCached
    PROVE  /\ Head(order) \in Cached /\ Head(order) \in Users
           /\ Lists(Tail(order), Cached \ {Head(order)})
           /\ Cardinality(Cached \ {Head(order)}) = Cardinality(Cached) - 1
<1>1. IsFiniteSet(Cached) /\ Cardinality(Cached) \in Nat /\ Cardinality({}) = 0
  BY FS_CardinalityType, FS_EmptySet DEF TableRules, Lists
<1>2. Cached # {}
  BY <1>1, TableAssumption
<1> QED BY <1>2, TailLists DEF TableRules

\* One step per action: what it disturbs, and why the invariant survives.
LEMMA NextInv == IInv /\ [Next]_vars => IInv'
<1> SUFFICES ASSUME IInv, [Next]_vars PROVE IInv'
  OBVIOUS
<1>0. TypeOK /\ Placed /\ LocksHeld /\ TableRules /\ OwnFiles
  BY DEF IInv
<1>1. ASSUME NEW r \in Requests, NEW route \in Routes, NEW u \in Users, Arrive(r, route, u)
      PROVE  IInv'
  <2> DEFINE p == CASE route \in {"upload", "delete"} -> "saving"
                    [] route = "clear" -> "emptying"
                    [] OTHER -> "looking"
  <2>1. p \in {"saving", "emptying", "looking"}
    OBVIOUS
  <2>2. pc[r] = "idle" /\ pc' = [pc EXCEPT ![r] = p]
    BY <1>1 DEF Arrive, Goto
  <2> HIDE DEF p
  <2>3. /\ op' = [op EXCEPT ![r] = route] /\ user' = [user EXCEPT ![r] = u]
        /\ UNCHANGED <<table, objects, disk, file, ref, docs, upset>>
    BY <1>1 DEF Arrive
  <2>4. \A q \in Requests \ {r} : pc'[q] = pc[q] /\ user'[q] = user[q]
    BY <1>0, <2>2, <2>3 DEF TypeOK
  <2>5. pc'[r] = p /\ user'[r] = u
    BY <1>0, <2>2, <2>3 DEF TypeOK
  <2>6. spoiled' \subseteq Requests
    BY <1>0, <1>1 DEF TypeOK, Arrive
  <2>7. TypeOK'
    <3>1. \A q \in Requests :
              HoldsBuildLock(q)' <=> ref'[q] # NoObject /\ lock'[ref'[q]] = q
      BY <1>0, <2>1, <2>2, <2>3, <2>4, <2>5 DEF TypeOK, HoldsBuildLock
    <3>2. \A q \in Requests : pc'[q] = "evicting" <=> tableLock' = q
      BY <1>0, <2>1, <2>2, <2>3, <2>4, <2>5 DEF TypeOK
    <3>3. op' \in [Requests -> Routes] /\ user' \in [Requests -> Users \cup {NoUser}]
      BY <1>0, <2>3 DEF TypeOK
    <3> QED BY <1>0, <2>1, <2>2, <2>3, <2>6, <3>1, <3>2, <3>3 DEF TypeOK
  <2>8. Placed'
    BY <1>0, <2>1, <2>3, <2>4, <2>5 DEF Placed, Fetched
  <2>9. LocksHeld'
    BY <1>0, <2>1, <2>2, <2>3, <2>4, <2>5 DEF LocksHeld, HoldsBuildLock
  <2>10. TableRules'
    BY <1>0, <2>2, <2>3, <2>4 DEF TableRules, Cached, TypeOK
  <2>11. OwnFiles'
    BY <1>0, <2>1, <2>3, <2>4, <2>5 DEF OwnFiles
  <2> QED BY <2>7, <2>8, <2>9, <2>10, <2>11 DEF IInv
<1>2. ASSUME NEW r \in Requests, Hit(r) PROVE IInv'
  <2>1. pc[r] = "looking" /\ user[r] \in Users /\ tableLock = NoRequest
    BY <1>0, <1>2 DEF Hit, Placed
  <2>2. Lists(order', Cached \cup {user[r]})
    BY <1>0, <1>2, <2>1, TouchedLists DEF Hit, TableRules
  <2>3. Cached' = Cached /\ Cached \cup {user[r]} = Cached
    BY <1>2, <2>1 DEF Hit, Cached
  <2>4. TableRules' /\ order' \in Seq(Users)
    BY <1>0, <1>2, <2>1, <2>2, <2>3, NamesAssumption DEF Hit, TableRules, Lists
  <2>5. Goto(r, "fetching") /\ UNCHANGED <<cache, tableLock, objects, disk, op, user, file,
                                          ref, docs, history>>
    BY <1>2 DEF Hit
  <2> QED BY <1>0, <2>1, <2>4, <2>5, CalmStepKeeps DEF Calm, Fetched, TypeOK, OwnFiles
<1>3. ASSUME NEW r \in Requests, Miss(r) PROVE IInv'
  <2>1. pc[r] = "looking" /\ user[r] \in Users /\ tableLock = NoRequest
    BY <1>0, <1>3 DEF Miss, Placed
  <2>2. /\ Lists(order', Cached') /\ Cardinality(Cached') <= MaxCached
        /\ cache' \in [Users -> Objects \cup {NoObject}] /\ order' \in Seq(Users)
        /\ \A v \in Users : cache'[v] = IF v = user[r] THEN NewObject(user[r]) ELSE cache[v]
    BY <1>0, <1>3, <2>1, AddedIsListed DEF Miss
  <2>3. \A v \in Users : cache'[v] # NoObject => cache'[v][1] = v
    BY <1>0, <1>3, <2>1, <2>2, NewObjectIsNew DEF Miss, OwnFiles
  <2>4. TableRules'
    BY <1>3, <2>1, <2>2, NamesAssumption DEF Miss, TableRules
  <2>5. Goto(r, "fetching") /\ UNCHANGED <<tableLock, objects, disk, op, user, file, ref,
                                          docs, history>>
    BY <1>3 DEF Miss
  <2> QED BY <1>0, <2>1, <2>2, <2>3, <2>4, <2>5, CalmStepKeeps
          DEF Calm, Fetched, TypeOK, OwnFiles
<1>4. ASSUME NEW r \in Requests, Displace(r) PROVE IInv'
  <2> DEFINE k == Head(order)
  <2>1. /\ pc[r] = "looking" /\ user[r] \in Users /\ tableLock = NoRequest
        /\ cache[user[r]] = NoObject
    BY <1>0, <1>4 DEF Displace, Placed
  <2>2. /\ cache' = [cache EXCEPT ![k] = NoObject] /\ order' = Tail(order)
        /\ pc' = [pc EXCEPT ![r] = "evicting"] /\ ref' = [ref EXCEPT ![r] = cache[k]]
        /\ tableLock' = r
        /\ UNCHANGED <<objects, disk, op, user, file, docs, spoiled>>
    BY <1>4 DEF Displace, Goto
  <2>3. IsFiniteSet(Cached) /\ Cardinality(Cached) \in Nat
    BY <1>0, FS_CardinalityType DEF TableRules, Lists
  <2>4. /\ k \in Cached /\ k \in Users /\ Lists(Tail(order), Cached \ {k})
        /\ Cardinality(Cached \ {k}) = Cardinality(Cached) - 1
    BY <1>0, <1>4, VictimIsListed DEF Displace
  <2> HIDE DEF k
  <2>5. Cached' = Cached \ {k} /\ k # user[r] /\ cache[k] \in Objects
    BY <1>0, <2>1, <2>2, <2>4 DEF Cached, TypeOK
  <2>6. \A q \in Requests \ {r} : pc'[q] = pc[q] /\ ref'[q] = ref[q]
    BY <1>0, <2>2 DEF TypeOK
  <2>7. pc'[r] = "evicting" /\ ref'[r] = cache[k] /\ ref'[r] \in Objects
    BY <1>0, <2>2, <2>5 DEF TypeOK
  <2>8. LocksHeld'
    BY <1>0, <2>1, <2>2, <2>6 DEF LocksHeld, HoldsBuildLock
  <2>9. TypeOK'
    <3>1. \A q \in Requests :
              HoldsBuildLock(q)' <=> ref'[q] # NoObject /\ lock'[ref'[q]] = q
      BY <1>0, <2>1, <2>2, <2>6, <2>7 DEF TypeOK, HoldsBuildLock, LocksHeld
    <3>2. \A q \in Requests : pc'[q] = "evicting" <=> tableLock' = q
      BY <1>0, <2>1, <2>2, <2>6, <2>7, NamesAssumption DEF TypeOK
    <3>3. upset' \subseteq Requests
      BY <1>0, <1>4 DEF TypeOK, Displace, Chats
    <3>4. order' \in Seq(Users) /\ cache' \in [Users -> Objects \cup {NoObject}]
      BY <1>0, <2>2, <2>4 DEF TypeOK, Lists
    <3>5. ref' \in [Requests -> Objects \cup {NoObject}]
      BY <1>0, <2>2, <2>5 DEF TypeOK
    <3> QED BY <1>0, <2>2, <3>1, <3>2, <3>3, <3>4, <3>5 DEF TypeOK
  <2>10. Placed'
    BY <1>0, <2>1, <2>2, <2>6, <2>7 DEF Placed, Fetched
  <2>11. TableRules'
    <3>1. cache'[user[r]] = NoObject
      BY <1>0, <2>1, <2>2, <2>5 DEF TypeOK
    <3>2. Cardinality(Cached') < MaxCached
      BY <1>0, <2>3, <2>4, <2>5, TableAssumption DEF TableRules
    <3>3. Cardinality(Cached') <= MaxCached
      BY <2>3, <2>4, <2>5, <3>2, TableAssumption
    <3>4. Lists(order', Cached')
      BY <2>2, <2>4, <2>5
    <3> QED BY <2>2, <3>1, <3>2, <3>3, <3>4 DEF TableRules
  <2>12. OwnFiles'
    BY <1>0, <2>1, <2>2, <2>6, <2>7 DEF OwnFiles, TypeOK
  <2> QED BY <2>8, <2>9, <2>10, <2>11, <2>12 DEF IInv
<1>5. ASSUME NEW r \in Requests, Evict(r) PROVE IInv'
  <2> DEFINE u == user[r]
  <2>1. /\ pc[r] = "evicting" /\ u \in Users /\ tableLock = r /\ cache[u] = NoObject
        /\ Cardinality(Cached) < MaxCached /\ LockFree(ref[r]) /\ ref[r] \in Objects
    BY <1>0, <1>5 DEF Evict, Placed, TypeOK, TableRules
  <2>2. /\ ready' = [ready EXCEPT ![ref[r]] = FALSE]
        /\ engine' = [engine EXCEPT ![ref[r]] = {}]
        /\ pc' = [pc EXCEPT ![r] = "fetching"] /\ ref' = [ref EXCEPT ![r] = NoObject]
        /\ tableLock' = NoRequest
        /\ UNCHANGED <<lock, disk, op, user, file, docs, history>>
    BY <1>5 DEF Evict, Goto
  <2>3. /\ Lists(order', Cached') /\ Cardinality(Cached') <= MaxCached
        /\ cache' \in [Users -> Objects \cup {NoObject}] /\ order' \in Seq(Users)
        /\ \A v \in Users : cache'[v] = IF v = u THEN NewObject(u) ELSE cache[v]
    BY <1>0, <1>5, <2>1, AddedIsListed DEF Evict
  <2>4. \A v \in Users : cache'[v] # NoObject => cache'[v][1] = v
    BY <1>0, <1>5, <2>1, <2>3, NewObjectIsNew DEF Evict, OwnFiles
  <2> HIDE DEF u
  <2>5. \A q \in Requests \ {r} : pc'[q] = pc[q] /\ ref'[q] = ref[q]
    BY <1>0, <2>2 DEF TypeOK
  <2>6. pc'[r] = "fetching" /\ ref'[r] = NoObject
    BY <1>0, <2>2 DEF TypeOK
  <2>7. TypeOK'
    <3>1. \A q \in Requests :
              HoldsBuildLock(q)' <=> ref'[q] # NoObject /\ lock'[ref'[q]] = q
      BY <1>0, <2>2, <2>5, <2>6 DEF TypeOK, HoldsBuildLock
    <3>2. \A q \in Requests : pc'[q] = "evicting" <=> tableLock' = q
      BY <1>0, <2>1, <2>2, <2>5, <2>6, NamesAssumption DEF TypeOK
    <3>3. ready' \in [Objects -> BOOLEAN] /\ engine' \in [Objects -> SUBSET Files]
      BY <1>0, <2>2 DEF TypeOK
    <3> QED BY <1>0, <2>2, <2>3, <3>1, <3>2, <3>3 DEF TypeOK
  <2>8. Placed'
    BY <1>0, <2>1, <2>2, <2>5, <2>6 DEF Placed, Fetched
  <2>9. LocksHeld'
    BY <1>0, <2>1, <2>2, <2>5, <2>6 DEF LocksHeld, HoldsBuildLock
  <2>10. TableRules'
    BY <2>2, <2>3, NamesAssumption DEF TableRules
  <2>11. OwnFiles'
    <3>1. \A o \in Objects : engine'[o] \subseteq engine[o]
      BY <1>0, <2>2 DEF TypeOK
    <3> QED BY <1>0, <2>2, <2>4, <2>5, <2>6, <3>1 DEF OwnFiles
  <2> QED BY <2>7, <2>8, <2>9, <2>10, <2>11 DEF IInv
<1>6. ASSUME NEW r \in Requests, Fetch(r) PROVE IInv'
  <2> DEFINE p == CASE op[r] \in {"chat", "look"} -> "fetched"
                    [] op[r] = "clear" -> "clearing"
                    [] OTHER -> "requeuing"
  <2>1. pc[r] = "fetching" /\ user[r] \in Users /\ cache[user[r]] # NoObject
    BY <1>0, <1>6 DEF Fetch, Placed, InTable
  <2>2. p \in {"fetched", "clearing", "requeuing"}
    OBVIOUS
  <2>3. /\ pc' = [pc EXCEPT ![r] = p] /\ ref' = [ref EXCEPT ![r] = cache[user[r]]]
        /\ UNCHANGED <<table, objects, disk, op, user, file, docs, history>>
    BY <1>6 DEF Fetch, Goto, InTable
  <2> HIDE DEF p
  <2>4. cache[user[r]] \in Objects /\ cache[user[r]][1] = user[r]
    BY <1>0, <2>1 DEF TypeOK, OwnFiles
  <2>5. \A q \in Requests \ {r} : pc'[q] = pc[q] /\ ref'[q] = ref[q]
    BY <1>0, <2>3 DEF TypeOK
  <2>6. pc'[r] = p /\ ref'[r] = cache[user[r]]
    BY <1>0, <2>3 DEF TypeOK
  <2>7. LocksHeld'
    BY <1>0, <2>1, <2>3, <2>5 DEF LocksHeld, HoldsBuildLock
  <2>8. TypeOK'
    <3>1. \A q \in Requests :
              HoldsBuildLock(q)' <=> ref'[q] # NoObject /\ lock'[ref'[q]] = q
      BY <1>0, <2>1, <2>2, <2>3, <2>4, <2>5, <2>6 DEF TypeOK, HoldsBuildLock, LocksHeld
    <3>2. \A q \in Requests : pc'[q] = "evicting" <=> tableLock' = q
      BY <1>0, <2>1, <2>2, <2>3, <2>5, <2>6 DEF TypeOK
    <3>3. ref' \in [Requests -> Objects \cup {NoObject}]
      BY <1>0, <2>3, <2>4 DEF TypeOK
    <3> QED BY <1>0, <2>2, <2>3, <3>1, <3>2, <3>3 DEF TypeOK
  <2>9. Placed'
    BY <1>0, <2>1, <2>2, <2>3, <2>4, <2>5, <2>6 DEF Placed
  <2>10. TableRules'
    BY <1>0, <2>3 DEF TableRules, Cached
  <2>11. OwnFiles'
    BY <1>0, <2>2, <2>3, <2>5, <2>6 DEF OwnFiles
  <2> QED BY <2>7, <2>8, <2>9, <2>10, <2>11 DEF IInv
<1>7. ASSUME NEW r \in Requests,
             \/ FetchFails(r) \/ LookIsOver(r) \/ AskFails(r) \/ Retrieve(r)
             \/ Refuse(r) \/ CommitFails(r) \/ Queue(r) \/ Leave(r)
      PROVE  IInv'
  <2>1. /\ pc[r] \notin {"evicting", "loading", "reading", "building"}
        /\ Finish(r) /\ UNCHANGED <<table, lock, disk>>
    BY <1>7 DEF FetchFails, LookIsOver, AskFails, Retrieve, Refuse, CommitFails, Queue, Leave
  <2> QED BY <2>1, FinishKeeps
<1>8. ASSUME NEW r \in Requests, BeginInit(r) PROVE IInv'
  <2>1. /\ pc[r] = "initing" /\ lock[ref[r]] = NoRequest
        /\ UNCHANGED <<table, ready, engine, disk, op, user, file, ref, docs, history>>
    BY <1>8 DEF BeginInit, LockFree
  <2>2. CASE Goto(r, AfterInit(r)) /\ UNCHANGED lock
    <3>1. AfterInit(r) \in {"asking", "leaving"}
      BY DEF AfterInit
    <3>2. pc[r] \in Calm /\ AfterInit(r) \in Calm /\ pc[r] \in Fetched
          /\ AfterInit(r) # "committing"
      BY <2>1, <3>1 DEF Calm, Fetched, Waits
    <3>3. TableRules'
      BY <1>0, <2>1 DEF TableRules, Cached
    <3> QED BY <1>0, <2>1, <2>2, <3>2, <3>3, CalmStepKeeps DEF TypeOK, OwnFiles
  <2>3. CASE /\ lock' = [lock EXCEPT ![ref[r]] = r]
             /\ Goto(r, IF LoadsSaved(r) THEN "loading" ELSE "reading")
    BY <2>1, <2>3, LockStepKeeps
  <2> QED BY <1>8, <2>2, <2>3 DEF BeginInit
<1>9. ASSUME NEW r \in Requests, Read(r) PROVE IInv'
  <2>1. /\ pc[r] = "reading" /\ pc' = [pc EXCEPT ![r] = "building"]
        /\ docs' = [docs EXCEPT ![r] = files \cap Owned(user[r])]
        /\ UNCHANGED <<table, objects, disk, op, user, file, ref, history>>
    BY <1>9 DEF Read, Goto
  <2>2. \A q \in Requests \ {r} : pc'[q] = pc[q] /\ docs'[q] = docs[q]
    BY <1>0, <2>1 DEF TypeOK
  <2>3. pc'[r] = "building" /\ docs'[r] = files \cap Owned(user[r])
    BY <1>0, <2>1 DEF TypeOK
  <2>4. TypeOK'
    <3>1. \A q \in Requests :
              HoldsBuildLock(q)' <=> ref'[q] # NoObject /\ lock'[ref'[q]] = q
      BY <1>0, <2>1, <2>2, <2>3 DEF TypeOK, HoldsBuildLock
    <3>2. \A q \in Requests : pc'[q] = "evicting" <=> tableLock' = q
      BY <1>0, <2>1, <2>2, <2>3 DEF TypeOK
    <3>3. docs' \in [Requests -> SUBSET Files]
      BY <1>0, <2>1 DEF TypeOK
    <3> QED BY <1>0, <2>1, <3>1, <3>2, <3>3 DEF TypeOK
  <2>5. Placed'
    BY <1>0, <2>1, <2>2, <2>3 DEF Placed, Fetched
  <2>6. LocksHeld'
    BY <1>0, <2>1, <2>2, <2>3 DEF LocksHeld, HoldsBuildLock
  <2>7. TableRules'
    BY <1>0, <2>1 DEF TableRules, Cached
  <2>8. OwnFiles'
    BY <1>0, <2>1, <2>2, <2>3 DEF OwnFiles
  <2> QED BY <2>4, <2>5, <2>6, <2>7, <2>8 DEF IInv
<1>10. ASSUME NEW r \in Requests, ReadNothing(r) PROVE IInv'
  <2>1. /\ pc[r] = "reading" /\ lock' = [lock EXCEPT ![ref[r]] = NoRequest]
        /\ Goto(r, AfterInit(r)) /\ AfterInit(r) \in {"asking", "leaving"}
        /\ UNCHANGED <<table, ready, engine, disk, op, user, file, ref, docs, history>>
    BY <1>10 DEF ReadNothing, AfterInit
  <2>2. lock[ref[r]] = r
    BY <1>0, <2>1 DEF TypeOK, HoldsBuildLock
  <2>3. r # NoRequest
    BY NamesAssumption
  <2> QED BY <2>1, <2>2, <2>3, LockStepKeeps
<1>11. ASSUME NEW r \in Requests, Load(r) PROVE IInv'
  <2>1. /\ HoldsBuildLock(r) /\ Becomes(r, saved[user[r]])
        /\ UNCHANGED <<disk, history>>
    BY <1>11 DEF Load, HoldsBuildLock
  <2>2. user[r] \in Users /\ saved[user[r]] \subseteq Owned(user[r])
    BY <1>0, <1>11 DEF Load, Placed, OwnFiles
  <2> QED BY <1>0, <2>1, <2>2, BecomesKeeps DEF TypeOK, OwnFiles
<1>12. ASSUME NEW r \in Requests, Build(r) PROVE IInv'
  <2>1. /\ pc[r] = "building" /\ HoldsBuildLock(r) /\ Becomes(r, docs[r])
        /\ saved' = [saved EXCEPT ![user[r]] = docs[r]]
        /\ UNCHANGED <<files, rows, history>>
    BY <1>12 DEF Build, HoldsBuildLock
  <2>2. docs[r] \subseteq Owned(user[r]) /\ docs[r] \in SUBSET Files
    BY <1>0, <2>1 DEF TypeOK, OwnFiles
  <2>3. saved' \in [Users -> SUBSET Files] /\ \A u \in Users : saved'[u] \subseteq Owned(u)
    BY <1>0, <2>1, <2>2 DEF TypeOK, OwnFiles
  <2> QED BY <1>0, <2>1, <2>2, <2>3, BecomesKeeps DEF TypeOK
<1>13. ASSUME NEW r \in Requests, InitFails(r) PROVE IInv'
  <2>1. /\ HoldsBuildLock(r) /\ Becomes(r, {}) /\ Spoil(user[r])
        /\ UNCHANGED <<files, rows, upset>>
    BY <1>13 DEF InitFails, HoldsBuildLock
  <2>2. saved' \in [Users -> SUBSET Files] /\ \A u \in Users : saved'[u] \subseteq Owned(u)
    <3>1. CASE UNCHANGED saved
      BY <1>0, <3>1 DEF TypeOK, OwnFiles
    <3>2. CASE pc[r] = "building" /\ saved' = [saved EXCEPT ![user[r]] = docs[r]]
      BY <1>0, <3>2 DEF TypeOK, OwnFiles
    <3> QED BY <1>13, <3>1, <3>2 DEF InitFails
  <2>3. spoiled' \subseteq Requests /\ upset' \subseteq Requests
    BY <1>0, <2>1 DEF TypeOK, Spoil, Chats
  <2> QED BY <2>1, <2>2, <2>3, BecomesKeeps
<1>14. ASSUME NEW r \in Requests, CheckReady(r) \/ Ask(r) PROVE IInv'
  <2>1. PICK p \in {"asking", "initing", "retrieving"} : Goto(r, p)
    BY <1>14 DEF CheckReady, Ask
  <2>2. /\ pc[r] \in Calm \cap Fetched /\ p \in Calm /\ p # "committing"
        /\ UNCHANGED <<table, objects, disk, op, user, file, ref, docs, history>>
    BY <1>14 DEF CheckReady, Ask, Calm, Fetched, Waits
  <2>3. TableRules'
    BY <1>0, <2>2 DEF TableRules, Cached
  <2> QED BY <1>0, <2>1, <2>2, <2>3, CalmStepKeeps DEF TypeOK, OwnFiles
<1>15. ASSUME NEW r \in Requests, NEW f \in Files, SaveFile(r, f) \/ UnlinkFile(r, f)
       PROVE  IInv'
  <2>1. /\ pc[r] \in Calm /\ Goto(r, "committing") /\ "committing" \in Calm
        /\ "committing" \notin Fetched /\ file' = [file EXCEPT ![r] = f]
        /\ UNCHANGED <<table, objects, saved, rows, op, user, ref, docs, history>>
    BY <1>15 DEF SaveFile, UnlinkFile, Calm, Fetched
  <2>2. files' \subseteq Files
    BY <1>0, <1>15 DEF SaveFile, UnlinkFile, TypeOK
  <2>3. /\ file' \in [Requests -> Files \cup {NoFile}] /\ file'[r] \in Files
        /\ \A q \in Requests \ {r} : file'[q] = file[q]
    BY <1>0, <2>1 DEF TypeOK
  <2>4. TableRules'
    BY <1>0, <2>1 DEF TableRules, Cached
  <2> QED BY <1>0, <2>1, <2>2, <2>3, <2>4, CalmStepKeeps DEF TypeOK, OwnFiles
<1>16. ASSUME NEW r \in Requests, Commit(r) PROVE IInv'
  <2>1. /\ pc[r] = "committing" /\ pc[r] \in Calm /\ Goto(r, "looking") /\ "looking" \in Calm
        /\ "looking" \notin Fetched
        /\ UNCHANGED <<table, objects, files, saved, op, user, file, ref, docs, history>>
    BY <1>16 DEF Commit, Calm, Fetched
  <2>2. rows' \subseteq Files
    BY <1>0, <1>16 DEF Commit, TypeOK, Placed
  <2>3. TableRules'
    BY <1>0, <2>1 DEF TableRules, Cached
  <2> QED BY <1>0, <2>1, <2>2, <2>3, CalmStepKeeps DEF TypeOK, OwnFiles
<1>17. ASSUME NEW r \in Requests, WipeAndBuild(r) \/ Unsave(r) PROVE IInv'
  <2>1. PICK p \in {"initing", "looking"} : Goto(r, p)
    BY <1>17 DEF WipeAndBuild, Unsave
  <2>2. /\ pc[r] \in Calm /\ p \in Calm /\ p # "committing"
        /\ saved' = [saved EXCEPT ![user[r]] = {}] /\ Spoil(user[r])
        /\ UNCHANGED <<table, objects, files, rows, op, user, file, ref, docs, upset>>
    BY <1>17 DEF WipeAndBuild, Unsave, Calm, Fetched, Waits
  <2>3. p \in Fetched => pc[r] \in Fetched
    <3>1. CASE WipeAndBuild(r)
      BY <3>1 DEF WipeAndBuild, Fetched
    <3>2. CASE Unsave(r)
      BY <1>0, <2>1, <3>2 DEF Unsave, Goto, Fetched, TypeOK
    <3> QED BY <1>17, <3>1, <3>2
  <2>4. saved' \in [Users -> SUBSET Files] /\ \A u \in Users : saved'[u] \subseteq saved[u]
    BY <1>0, <2>2 DEF TypeOK
  <2>5. spoiled' \subseteq Requests /\ upset' \subseteq Requests
    BY <1>0, <2>2 DEF TypeOK, Spoil, Chats
  <2>6. TableRules'
    BY <1>0, <2>2 DEF TableRules, Cached
  <2> QED BY <1>0, <2>1, <2>2, <2>3, <2>4, <2>5, <2>6, CalmStepKeeps DEF TypeOK, OwnFiles
<1>18. ASSUME NEW r \in Requests, EmptyFiles(r) PROVE IInv'
  <2>1. /\ pc[r] \in Calm /\ Goto(r, "unsaving") /\ "unsaving" \in Calm
        /\ "unsaving" \notin Fetched
        /\ UNCHANGED <<table, objects, saved, rows, op, user, file, ref, docs, history>>
    BY <1>18 DEF EmptyFiles, Calm, Fetched
  <2>2. files' \subseteq Files
    BY <1>0, <1>18 DEF EmptyFiles, TypeOK
  <2>3. TableRules'
    BY <1>0, <2>1 DEF TableRules, Cached
  <2> QED BY <1>0, <2>1, <2>2, <2>3, CalmStepKeeps DEF TypeOK, OwnFiles
<1>19. ASSUME NEW r \in Requests, Clear(r) PROVE IInv'
  <2>1. /\ pc[r] \in Calm \cap Fetched /\ Goto(r, "dropping") /\ "dropping" \in Calm
        /\ ready' = [ready EXCEPT ![ref[r]] = FALSE]
        /\ engine' = [engine EXCEPT ![ref[r]] = {}] /\ Spoil(user[r])
        /\ UNCHANGED <<table, lock, disk, op, user, file, ref, docs, upset>>
    BY <1>19 DEF Clear, Calm, Fetched, Waits
  <2>2. /\ ready' \in [Objects -> BOOLEAN] /\ engine' \in [Objects -> SUBSET Files]
        /\ \A o \in Objects : engine'[o] \subseteq engine[o]
    BY <1>0, <2>1 DEF TypeOK
  <2>3. spoiled' \subseteq Requests /\ upset' \subseteq Requests
    BY <1>0, <2>1 DEF TypeOK, Spoil, Chats
  <2>4. TableRules'
    BY <1>0, <2>1 DEF TableRules, Cached
  <2> QED BY <1>0, <2>1, <2>2, <2>3, <2>4, CalmStepKeeps DEF TypeOK, OwnFiles
<1>20. ASSUME NEW r \in Requests, Drop(r) PROVE IInv'
  <2>1. /\ pc[r] \in Calm \cap Fetched /\ pc[r] = "dropping"
        /\ Goto(r, "unlisting") /\ "unlisting" \in Calm /\ tableLock = NoRequest
        /\ cache' = [cache EXCEPT ![user[r]] = NoObject]
        /\ order' = Without(order, user[r]) /\ Spoil(user[r])
        /\ UNCHANGED <<tableLock, objects, disk, op, user, file, ref, docs, upset>>
    BY <1>20 DEF Drop, Calm, Fetched, Waits
  <2>2. user[r] \in Users
    BY <1>0, <2>1 DEF Placed
  <2>3. Cached' = Cached \ {user[r]}
    BY <1>0, <2>1, <2>2 DEF Cached, TypeOK
  <2>4. Lists(order', Cached')
    BY <1>0, <2>1, <2>2, <2>3, WithoutLists DEF TableRules
  <2>5. Cardinality(Cached') <= MaxCached
    <3>1. IsFiniteSet(Cached) /\ Cardinality(Cached) \in Nat
      BY <1>0, FS_CardinalityType DEF TableRules, Lists
    <3>2. Cardinality(Cached') <= Cardinality(Cached) /\ Cardinality(Cached') \in Nat
      <4>1. /\ IsFiniteSet(Cached \ {user[r]})
            /\ Cardinality(Cached \ {user[r]}) \in {Cardinality(Cached), Cardinality(Cached) - 1}
        BY <3>1, FS_RemoveElement
      <4>2. Cardinality(Cached \ {user[r]}) \in Nat
        BY <4>1, FS_CardinalityType
      <4> QED BY <2>3, <3>1, <4>1, <4>2
    <3> QED BY <1>0, <3>1, <3>2, TableAssumption DEF TableRules
  <2>6. TableRules'
    BY <2>1, <2>4, <2>5, NamesAssumption DEF TableRules
  <2>7. /\ cache' \in [Users -> Objects \cup {NoObject}] /\ order' \in Seq(Users)
        /\ \A u \in Users : cache'[u] # NoObject => cache'[u][1] = u
    BY <1>0, <2>1, <2>2, <2>4 DEF TypeOK, OwnFiles, Lists
  <2>8. spoiled' \subseteq Requests /\ upset' \subseteq Requests
    BY <1>0, <2>1 DEF TypeOK, Spoil, Chats
  <2> QED BY <1>0, <2>1, <2>6, <2>7, <2>8, CalmStepKeeps DEF TypeOK, OwnFiles
<1>21. ASSUME NEW r \in Requests, Unlist(r) PROVE IInv'
  <2>1. /\ pc[r] \in Calm \cap Fetched /\ Goto(r, "leaving") /\ "leaving" \in Calm
        /\ rows' = rows \ Owned(user[r])
        /\ UNCHANGED <<table, objects, files, saved, op, user, file, ref, docs, history>>
    BY <1>21 DEF Unlist, Calm, Fetched, Waits
  <2>2. rows' \subseteq Files
    BY <1>0, <2>1 DEF TypeOK
  <2>3. TableRules'
    BY <1>0, <2>1 DEF TableRules, Cached
  <2> QED BY <1>0, <2>1, <2>2, <2>3, CalmStepKeeps DEF TypeOK, OwnFiles
<1>22. CASE UNCHANGED vars
  BY <1>0, <1>22 DEF vars, IInv, TypeOK, HoldsBuildLock, Placed, LocksHeld, TableRules, Cached,
     OwnFiles
<1> QED
  BY <1>1, <1>2, <1>3, <1>4, <1>5, <1>6, <1>7, <1>8, <1>9, <1>10, <1>11, <1>12, <1>13,
     <1>14, <1>15, <1>16, <1>17, <1>18, <1>19, <1>20, <1>21, <1>22 DEF Next, Building

----------------------------------------------------------------------------
\* The invariant holds always.
LEMMA SpecInv == Spec => []IInv
BY InitInv, NextInv, PTL DEF Spec

\* The variables keep their types; exactly the thread that evicts holds the table, and
\* exactly the threads in init() hold the build lock of their object.
THEOREM TypeCorrect == Spec => []TypeOK
<1>1. IInv => TypeOK
  BY DEF IInv
<1> QED BY <1>1, SpecInv, PTL

\* For any users, requests and size: the table keeps within its bound, and its access
\* order lists each of its keys once (for_user, _touch_locked, evict).
THEOREM TableStaysConsistent == Spec => []TableConsistent
<1>1. IInv => TableConsistent
  <2> SUFFICES ASSUME IInv PROVE TableConsistent
    OBVIOUS
  <2>1. Lists(order, Cached) /\ Cardinality(Cached) <= MaxCached
    BY DEF IInv, TableRules
  <2>2. {order[i] : i \in 1 .. Len(order)} = Cached
    BY <2>1 DEF Lists
  <2> QED BY <2>1, <2>2 DEF TableConsistent, Lists
<1> QED BY <1>1, SpecInv, PTL

\* For any users, requests and files: no query retrieves from another user's file,
\* whatever became of the table since its object was fetched (chat_rag, query).
THEOREM AnswersStayOwn == Spec => []AnswersAreOwn
<1>1. IInv => AnswersAreOwn
  <2> SUFFICES ASSUME IInv, NEW r \in Requests, pc[r] = "retrieving"
               PROVE  engine[ref[r]] \subseteq Owned(user[r])
    BY DEF AnswersAreOwn
  <2>1. ref[r] \in Objects /\ ref[r][1] = user[r]
    BY DEF IInv, Placed, Fetched
  <2> QED BY <2>1 DEF IInv, OwnFiles
<1> QED BY <1>1, SpecInv, PTL

----------------------------------------------------------------------------
(* Chats answer.  One that met a saved index, which nobody has removed      *)
(* since, and whose user's object has not been evicted, never has to read   *)
(* files; the object it fetched is ready when it asks, and stays so,        *)
(* because only an eviction, a failed build or a clearing resets an object, *)
(* and an eviction resets no object that such a chat holds (VictimsAreOut). *)

\* A chat under way that has a right to an answer.
Entitled(r) == op[r] = "chat" /\ pc[r] # "idle" /\ r \notin spoiled \cup upset

ChatPlaces == {"looking", "evicting", "fetching", "fetched", "initing", "loading",
               "reading", "building", "asking", "retrieving"}

ChatsInPlace == \A r \in Requests : op[r] = "chat" => pc[r] \in ChatPlaces

\* An object is ready exactly when it has something to answer from, and so will be one
\* that is being built.
ReadyHasEngine ==
    /\ \A o \in Objects : ready[o] <=> engine[o] # {}
    /\ \A r \in Requests : pc[r] = "building" => docs[r] # {}

\* An object that is being evicted is in the table no more.
VictimsAreOut ==
    \A r \in Requests, u \in Users : pc[r] = "evicting" => cache[u] # ref[r]

\* The index is there; so is the object, once the chat has looked it up.
IndexIsThere ==
    \A r \in Requests : Entitled(r) =>
        /\ saved[user[r]] # {}
        /\ pc[r] \notin {"reading", "building"}
        /\ pc[r] = "fetching" => cache[user[r]] # NoObject

\* Nobody evicts the object the chat has fetched, which is ready when it asks.
ObjectIsKept ==
    \A r \in Requests : Entitled(r) =>
        /\ pc[r] \in Fetched => \A q \in Requests : pc[q] = "evicting" => ref[q] # ref[r]
        /\ pc[r] \in {"asking", "retrieving"} => ready[ref[r]]

Entitlements ==
    ChatsInPlace /\ ReadyHasEngine /\ VictimsAreOut /\ IndexIsThere /\ ObjectIsKept

\* The entitlements hold at first.
LEMMA InitEntitlements == Init => Entitlements
BY DEF Init, Entitlements, ChatsInPlace, ReadyHasEngine, VictimsAreOut, IndexIsThere,
   ObjectIsKept, Entitled

\* What init() sets when it leaves, and on which object.
LEMMA BecomesReady ==
    ASSUME TypeOK, Placed, ReadyHasEngine, NEW r \in Requests, HoldsBuildLock(r), NEW e,
           Becomes(r, e)
    PROVE  /\ ready'[ref[r]] <=> e # {}
           /\ \A o \in Objects : ready'[o] <=> engine'[o] # {}
           /\ \A o \in Objects \ {ref[r]} : ready'[o] = ready[o]
           /\ \A q \in Requests : pc'[q] = "building" => docs'[q] # {}
<1>1. ref[r] \in Objects
  BY DEF Placed, HoldsBuildLock, Fetched
<1>2. /\ engine' = [engine EXCEPT ![ref[r]] = e] /\ ready' = [ready EXCEPT ![ref[r]] = e # {}]
      /\ docs' = [docs EXCEPT ![r] = {}] /\ pc' = [pc EXCEPT ![r] = AfterInit(r)]
  BY DEF Becomes, Goto
<1>3. engine'[ref[r]] = e /\ \A o \in Objects \ {ref[r]} : engine'[o] = engine[o]
  BY <1>1, <1>2 DEF TypeOK
<1>4. /\ ready'[ref[r]] <=> e # {}
      /\ \A o \in Objects \ {ref[r]} : ready'[o] = ready[o]
  BY <1>1, <1>2 DEF TypeOK
<1>5. \A o \in Objects : ready'[o] <=> engine'[o] # {}
  BY <1>1, <1>3, <1>4 DEF ReadyHasEngine
<1>6. AfterInit(r) # "building"
  BY DEF AfterInit
<1>7. \A q \in Requests : pc'[q] = "building" => docs'[q] # {}
  BY <1>2, <1>6 DEF TypeOK, ReadyHasEngine
<1> QED BY <1>4, <1>5, <1>7

\* One step per action: what it does to the places of chats, to engines, victims,
\* indexes and objects.
LEMMA NextEntitlements == IInv /\ Entitlements /\ [Next]_vars => Entitlements'
<1> SUFFICES ASSUME IInv, Entitlements, [Next]_vars PROVE Entitlements'
  OBVIOUS
<1>0. /\ TypeOK /\ Placed /\ LocksHeld /\ TableRules /\ OwnFiles
      /\ ChatsInPlace /\ ReadyHasEngine /\ VictimsAreOut /\ IndexIsThere /\ ObjectIsKept
  BY DEF IInv, Entitlements
<1>1. ASSUME NEW r \in Requests, NEW route \in Routes, NEW u \in Users,
      Arrive(r, route, u)
      PROVE  Entitlements'
  <2>1. ChatsInPlace'
    BY <1>0, <1>1 DEF Arrive, Goto, TypeOK, ChatsInPlace, ChatPlaces
  <2>2. ReadyHasEngine'
    BY <1>0, <1>1 DEF Arrive, Goto, ReadyHasEngine
  <2>3. VictimsAreOut'
    BY <1>0, <1>1 DEF Arrive, Goto, VictimsAreOut
  <2>4. IndexIsThere'
    BY <1>0, <1>1 DEF Arrive, Goto, TypeOK, IndexIsThere, Entitled
  <2>5. ObjectIsKept'
    BY <1>0, <1>1 DEF Arrive, Goto, Fetched, ObjectIsKept, Entitled
  <2> QED BY <2>1, <2>2, <2>3, <2>4, <2>5 DEF Entitlements
<1>2. ASSUME NEW r \in Requests, Hit(r) PROVE Entitlements'
  <2>1. ChatsInPlace'
    BY <1>0, <1>2 DEF Hit, Goto, ChatsInPlace, ChatPlaces
  <2>2. ReadyHasEngine'
    BY <1>0, <1>2 DEF Hit, Goto, ReadyHasEngine
  <2>3. VictimsAreOut'
    BY <1>0, <1>2 DEF Hit, Goto, VictimsAreOut
  <2>4. IndexIsThere'
    BY <1>0, <1>2 DEF Hit, Goto, IndexIsThere, Entitled
  <2>5. ObjectIsKept'
    BY <1>0, <1>2 DEF Hit, Goto, Fetched, ObjectIsKept, Entitled
  <2> QED BY <2>1, <2>2, <2>3, <2>4, <2>5 DEF Entitlements
<1>3. ASSUME NEW r \in Requests, Miss(r) PROVE Entitlements'
  <2>1. ChatsInPlace'
    BY <1>0, <1>3 DEF Miss, Goto, ChatsInPlace, ChatPlaces
  <2>2. ReadyHasEngine'
    BY <1>0, <1>3 DEF Miss, Goto, ReadyHasEngine
  <2>3. VictimsAreOut'
    <3>1. \A q \in Requests : pc'[q] # "evicting"
      BY <1>0, <1>3, NamesAssumption DEF Miss, Goto, TypeOK
    <3> QED BY <3>1 DEF VictimsAreOut
  <2>4. IndexIsThere'
    <3>1. user[r] \in Users /\ NewObject(user[r]) # NoObject
      BY <1>0, <1>3, NewObjectIsNew, NoObjectAssumption DEF Miss, Placed
    <3>2. cache'[user[r]] # NoObject
          /\ \A u \in Users : cache[u] # NoObject => cache'[u] # NoObject
      BY <1>0, <1>3, <3>1 DEF Miss, TypeOK
    <3> QED BY <1>0, <1>3, <3>1, <3>2 DEF Miss, Goto, TypeOK, Placed, IndexIsThere, Entitled
  <2>5. ObjectIsKept'
    BY <1>0, <1>3 DEF Miss, Goto, Fetched, ObjectIsKept, Entitled
  <2> QED BY <2>1, <2>2, <2>3, <2>4, <2>5 DEF Entitlements
<1>4. ASSUME NEW r \in Requests, Displace(r) PROVE Entitlements'
  <2>0. PICK k \in Users :
            /\ cache[k] \in Objects /\ cache[k][1] = k /\ k # user[r]
            /\ cache' = [cache EXCEPT ![k] = NoObject]
            /\ ref' = [ref EXCEPT ![r] = cache[k]] /\ upset' = upset \cup Chats(k)
            /\ pc' = [pc EXCEPT ![r] = "evicting"]
    <3>1. Head(order) \in Cached /\ Head(order) \in Users
      BY <1>0, <1>4, VictimIsListed DEF Displace
    <3>2. cache[Head(order)] \in Objects /\ Head(order) # user[r]
      BY <1>0, <1>4, <3>1 DEF Displace, Cached, TypeOK
    <3>3. cache[Head(order)][1] = Head(order)
      BY <1>0, <3>1 DEF OwnFiles, Cached
    <3>4. /\ cache' = [cache EXCEPT ![Head(order)] = NoObject]
          /\ ref' = [ref EXCEPT ![r] = cache[Head(order)]]
          /\ upset' = upset \cup Chats(Head(order)) /\ pc' = [pc EXCEPT ![r] = "evicting"]
      BY <1>4 DEF Displace, Goto
    <3> QED BY <3>1, <3>2, <3>3, <3>4
  <2>1. ChatsInPlace'
    BY <1>0, <1>4, <2>0 DEF Displace, ChatsInPlace, ChatPlaces
  <2>2. ReadyHasEngine'
    BY <1>0, <1>4, <2>0 DEF Displace, ReadyHasEngine
  <2>3. VictimsAreOut'
    <3>1. \A q \in Requests : pc'[q] = "evicting" => q = r
      BY <1>0, <1>4, <2>0, NamesAssumption DEF Displace, TypeOK
    <3>2. ref'[r] = cache[k]
      BY <1>0, <2>0 DEF TypeOK
    <3>3. \A u \in Users : cache'[u] # cache[k]
      BY <1>0, <2>0, NoObjectAssumption DEF TypeOK, OwnFiles
    <3> QED BY <3>1, <3>2, <3>3 DEF VictimsAreOut
  <2>4. IndexIsThere'
    BY <1>0, <1>4, <2>0 DEF Displace, Chats, IndexIsThere, Entitled
  <2>5. ObjectIsKept'
    <3> SUFFICES ASSUME NEW q \in Requests, Entitled(q)'
                 PROVE  /\ pc'[q] \in Fetched => \A v \in Requests :
                               pc'[v] = "evicting" => ref'[v] # ref'[q]
                        /\ pc'[q] \in {"asking", "retrieving"} => ready'[ref'[q]]
      BY DEF ObjectIsKept
    <3>1. CASE q = r
      BY <1>0, <2>0, <3>1 DEF TypeOK, Fetched
    <3>2. CASE q # r
      <4>1. /\ op[q] = "chat" /\ pc'[q] = pc[q] /\ ref'[q] = ref[q] /\ pc[q] # "idle"
            /\ q \notin Chats(k) /\ ready' = ready /\ Entitled(q)
        BY <1>0, <1>4, <2>0, <3>2 DEF Displace, TypeOK, Entitled
      <4>2. user[q] # k
        BY <4>1 DEF Chats
      <4>3. pc[q] \in Fetched => ref[q][1] = user[q]
        BY <1>0 DEF Placed
      <4>4. pc[q] \in Fetched => ref[q] # cache[k]
        BY <2>0, <4>2, <4>3
      <4>5. \A v \in Requests : pc'[v] = "evicting" => v = r
        BY <1>0, <1>4, <2>0, NamesAssumption DEF Displace, TypeOK
      <4>6. ref'[r] = cache[k]
        BY <1>0, <2>0 DEF TypeOK
      <4> QED BY <1>0, <4>1, <4>4, <4>5, <4>6 DEF ObjectIsKept
    <3> QED BY <3>1, <3>2
  <2> QED BY <2>1, <2>2, <2>3, <2>4, <2>5 DEF Entitlements
<1>5. ASSUME NEW r \in Requests, Evict(r) PROVE Entitlements'
  <2>1. ChatsInPlace'
    BY <1>0, <1>5 DEF Evict, Goto, ChatsInPlace, ChatPlaces
  <2>2. ReadyHasEngine'
    BY <1>0, <1>5 DEF Evict, Goto, TypeOK, ReadyHasEngine
  <2>3. VictimsAreOut'
    BY <1>0, <1>5 DEF Evict, Goto, TypeOK, VictimsAreOut
  <2>4. IndexIsThere'
    <3>1. user[r] \in Users /\ NewObject(user[r]) # NoObject
      BY <1>0, <1>5, NewObjectIsNew, NoObjectAssumption DEF Evict, Placed
    <3>2. cache'[user[r]] # NoObject
          /\ \A u \in Users : cache[u] # NoObject => cache'[u] # NoObject
      BY <1>0, <1>5, <3>1 DEF Evict, TypeOK
    <3> QED BY <1>0, <1>5, <3>1, <3>2 DEF Evict, Goto, TypeOK, Placed, IndexIsThere, Entitled
  <2>5. ObjectIsKept'
    BY <1>0, <1>5 DEF Evict, Goto, TypeOK, Fetched, ObjectIsKept, Entitled
  <2> QED BY <2>1, <2>2, <2>3, <2>4, <2>5 DEF Entitlements
<1>6. ASSUME NEW r \in Requests, Fetch(r) PROVE Entitlements'
  <2>1. ChatsInPlace'
    BY <1>0, <1>6 DEF Fetch, Goto, ChatsInPlace, ChatPlaces
  <2>2. ReadyHasEngine'
    BY <1>0, <1>6 DEF Fetch, Goto, ReadyHasEngine
  <2>3. VictimsAreOut'
    BY <1>0, <1>6 DEF Fetch, Goto, VictimsAreOut
  <2>4. IndexIsThere'
    BY <1>0, <1>6 DEF Fetch, Goto, IndexIsThere, Entitled
  <2>5. ObjectIsKept'
    BY <1>0, <1>6 DEF Fetch, Goto, InTable, TypeOK, Placed, VictimsAreOut, ObjectIsKept,
       Entitled
  <2> QED BY <2>1, <2>2, <2>3, <2>4, <2>5 DEF Entitlements
<1>7. ASSUME NEW r \in Requests,
             \/ FetchFails(r) \/ LookIsOver(r) \/ AskFails(r) \/ Retrieve(r)
             \/ Refuse(r) \/ CommitFails(r) \/ Queue(r) \/ Leave(r)
      PROVE  Entitlements'
  <2>1. ChatsInPlace'
    BY <1>0, <1>7 DEF FetchFails, LookIsOver, AskFails, Retrieve, Refuse, CommitFails,
       Queue, Leave, Goto, Finish, TypeOK, ChatsInPlace
  <2>2. ReadyHasEngine'
    <3>1. Finish(r) /\ ready \in [Objects -> BOOLEAN] /\ DOMAIN engine = Objects
          /\ DOMAIN pc = Requests /\ DOMAIN docs = Requests
      BY <1>0, <1>7 DEF FetchFails, LookIsOver, AskFails, Retrieve, Refuse, CommitFails,
         Queue, Leave, TypeOK
    <3>2. \A o \in Objects : ready'[o] <=> engine'[o] # {}
      BY <1>0, <3>1 DEF Finish, ReadyHasEngine
    <3>3. \A q \in Requests : pc'[q] = "building" => docs'[q] # {}
      BY <1>0, <3>1 DEF Finish, Goto, ReadyHasEngine
    <3> QED BY <3>2, <3>3 DEF ReadyHasEngine
  <2>3. VictimsAreOut'
    BY <1>0, <1>7 DEF FetchFails, LookIsOver, AskFails, Retrieve, Refuse, CommitFails,
       Queue, Leave, Goto, Finish, TypeOK, VictimsAreOut, OwnFiles
  <2>4. IndexIsThere'
    BY <1>0, <1>7 DEF FetchFails, LookIsOver, AskFails, Retrieve, Refuse, CommitFails,
       Queue, Leave, Goto, Finish, TypeOK, ChatsInPlace, ChatPlaces, IndexIsThere,
       Entitled
  <2>5. ObjectIsKept'
    <3> SUFFICES ASSUME NEW q \in Requests, Entitled(q)'
                 PROVE  /\ pc'[q] \in Fetched => \A v \in Requests :
                               pc'[v] = "evicting" => ref'[v] # ref'[q]
                        /\ pc'[q] \in {"asking", "retrieving"} => ready'[ref'[q]]
      BY DEF ObjectIsKept
    <3>0. Finish(r)
      BY <1>7 DEF FetchFails, LookIsOver, AskFails, Retrieve, Refuse, CommitFails, Queue, Leave
    <3>1. q # r
      BY <1>0, <3>0 DEF Finish, Goto, TypeOK, Entitled
    <3>2. /\ pc'[q] = pc[q] /\ ref'[q] = ref[q] /\ Entitled(q)
          /\ \A v \in Requests : pc'[v] = "evicting" => pc[v] = "evicting" /\ ref'[v] = ref[v]
      BY <1>0, <3>0, <3>1 DEF Finish, Goto, TypeOK, Entitled
    <3>3. pc[q] \in Fetched => ref[q] \in Objects
      BY <1>0 DEF Placed
    <3>4. pc[q] \in Fetched => ready'[ref[q]] = ready[ref[q]]
      BY <1>0, <3>0, <3>1, <3>3 DEF Finish, TypeOK
    <3> QED BY <1>0, <3>2, <3>4 DEF ObjectIsKept, Fetched
  <2> QED BY <2>1, <2>2, <2>3, <2>4, <2>5 DEF Entitlements
<1>8. ASSUME NEW r \in Requests, BeginInit(r) PROVE Entitlements'
  <2>1. ChatsInPlace'
    BY <1>0, <1>8 DEF BeginInit, Goto, AfterInit, TypeOK, ChatsInPlace, ChatPlaces
  <2>2. ReadyHasEngine'
    BY <1>0, <1>8 DEF BeginInit, Goto, AfterInit, TypeOK, ReadyHasEngine
  <2>3. VictimsAreOut'
    BY <1>0, <1>8 DEF BeginInit, Goto, AfterInit, TypeOK, VictimsAreOut
  <2>4. IndexIsThere'
    BY <1>0, <1>8 DEF BeginInit, Goto, AfterInit, Forced, LoadsSaved, TypeOK,
       IndexIsThere, Entitled
  <2>5. ObjectIsKept'
    BY <1>0, <1>8 DEF BeginInit, Goto, AfterInit, TypeOK, Fetched, ObjectIsKept, Entitled
  <2> QED BY <2>1, <2>2, <2>3, <2>4, <2>5 DEF Entitlements
<1>9. ASSUME NEW r \in Requests, Load(r) PROVE Entitlements'
  <2>1. ChatsInPlace'
    BY <1>0, <1>9 DEF Load, Goto, Becomes, AfterInit, ChatsInPlace, ChatPlaces
  <2>2. ReadyHasEngine'
    <3>1. HoldsBuildLock(r) /\ Becomes(r, saved[user[r]])
      BY <1>9 DEF Load, HoldsBuildLock
    <3> QED BY <1>0, <3>1, BecomesReady DEF ReadyHasEngine
  <2>3. VictimsAreOut'
    BY <1>0, <1>9 DEF Load, Goto, Becomes, AfterInit, VictimsAreOut
  <2>4. IndexIsThere'
    BY <1>0, <1>9 DEF Load, Goto, Becomes, AfterInit, IndexIsThere, Entitled
  <2>5. ObjectIsKept'
    <3>1. /\ HoldsBuildLock(r) /\ Becomes(r, saved[user[r]]) /\ saved[user[r]] # {}
          /\ UNCHANGED history
      BY <1>9 DEF Load, HoldsBuildLock
    <3>2. \A o \in Objects : ready[o] => ready'[o]
      BY <1>0, <3>1, BecomesReady
    <3>3. ready'[ref[r]]
      BY <1>0, <3>1, BecomesReady
    <3>4. /\ UNCHANGED <<op, user, ref>> /\ pc' = [pc EXCEPT ![r] = AfterInit(r)]
      BY <3>1 DEF Becomes, Goto
    <3>5. AfterInit(r) \in {"asking", "leaving"} /\ pc[r] \in Fetched
      BY <3>1 DEF AfterInit, HoldsBuildLock, Fetched
    <3>6. \A q \in Requests \ {r} : pc'[q] = pc[q]
      BY <1>0, <3>4 DEF TypeOK
    <3>7. pc'[r] \in {"asking", "leaving"}
      BY <1>0, <3>4, <3>5 DEF TypeOK
    <3> QED BY <1>0, <3>1, <3>2, <3>3, <3>4, <3>5, <3>6, <3>7
            DEF ObjectIsKept, Entitled, Placed, Fetched, HoldsBuildLock
  <2> QED BY <2>1, <2>2, <2>3, <2>4, <2>5 DEF Entitlements
<1>10. ASSUME NEW r \in Requests, Read(r) PROVE Entitlements'
  <2>1. ChatsInPlace'
    BY <1>0, <1>10 DEF Read, Goto, ChatsInPlace, ChatPlaces
  <2>2. ReadyHasEngine'
    BY <1>0, <1>10 DEF Read, Goto, TypeOK, ReadyHasEngine
  <2>3. VictimsAreOut'
    BY <1>0, <1>10 DEF Read, Goto, VictimsAreOut
  <2>4. IndexIsThere'
    BY <1>0, <1>10 DEF Read, Goto, IndexIsThere, Entitled
  <2>5. ObjectIsKept'
    BY <1>0, <1>10 DEF Read, Goto, Fetched, ObjectIsKept, Entitled
  <2> QED BY <2>1, <2>2, <2>3, <2>4, <2>5 DEF Entitlements
<1>11. ASSUME NEW r \in Requests, ReadNothing(r) PROVE Entitlements'
  <2>1. ChatsInPlace'
    BY <1>0, <1>11 DEF ReadNothing, Goto, AfterInit, ChatsInPlace, ChatPlaces
  <2>2. ReadyHasEngine'
    BY <1>0, <1>11 DEF ReadNothing, Goto, AfterInit, ReadyHasEngine
  <2>3. VictimsAreOut'
    BY <1>0, <1>11 DEF ReadNothing, Goto, AfterInit, VictimsAreOut
  <2>4. IndexIsThere'
    BY <1>0, <1>11 DEF ReadNothing, Goto, IndexIsThere, Entitled
  <2>5. ObjectIsKept'
    BY <1>0, <1>11 DEF ReadNothing, Goto, AfterInit, IndexIsThere, ObjectIsKept, Entitled
  <2> QED BY <2>1, <2>2, <2>3, <2>4, <2>5 DEF Entitlements
<1>12. ASSUME NEW r \in Requests, Build(r) PROVE Entitlements'
  <2>1. ChatsInPlace'
    BY <1>0, <1>12 DEF Build, Goto, Becomes, AfterInit, ChatsInPlace, ChatPlaces
  <2>2. ReadyHasEngine'
    <3>1. HoldsBuildLock(r) /\ Becomes(r, docs[r])
      BY <1>12 DEF Build, HoldsBuildLock
    <3> QED BY <1>0, <3>1, BecomesReady DEF ReadyHasEngine
  <2>3. VictimsAreOut'
    BY <1>0, <1>12 DEF Build, Goto, Becomes, AfterInit, VictimsAreOut
  <2>4. IndexIsThere'
    BY <1>0, <1>12 DEF Build, Goto, Becomes, ReadyHasEngine, IndexIsThere, Entitled
  <2>5. ObjectIsKept'
    BY <1>0, <1>12 DEF Build, Goto, Becomes, AfterInit, TypeOK, ReadyHasEngine,
       IndexIsThere, ObjectIsKept, Entitled
  <2> QED BY <2>1, <2>2, <2>3, <2>4, <2>5 DEF Entitlements
<1>13. ASSUME NEW r \in Requests, InitFails(r) PROVE Entitlements'
  <2>1. ChatsInPlace'
    BY <1>0, <1>13 DEF InitFails, Goto, Becomes, AfterInit, ChatsInPlace, ChatPlaces
  <2>2. ReadyHasEngine'
    <3>1. HoldsBuildLock(r) /\ Becomes(r, {})
      BY <1>13 DEF InitFails, HoldsBuildLock
    <3> QED BY <1>0, <3>1, BecomesReady DEF ReadyHasEngine
  <2>3. VictimsAreOut'
    BY <1>0, <1>13 DEF InitFails, Goto, Becomes, AfterInit, VictimsAreOut
  <2>4. IndexIsThere'
    BY <1>0, <1>13 DEF InitFails, Goto, Becomes, Spoil, Chats, TypeOK, Placed,
       IndexIsThere, Entitled
  <2>5. ObjectIsKept'
    BY <1>0, <1>13 DEF InitFails, Goto, Becomes, Spoil, Chats, Placed, Fetched,
       ObjectIsKept, Entitled
  <2> QED BY <2>1, <2>2, <2>3, <2>4, <2>5 DEF Entitlements
<1>14. ASSUME NEW r \in Requests, CheckReady(r) \/ Ask(r) PROVE Entitlements'
  <2>1. ChatsInPlace'
    <3>1. CASE CheckReady(r)
      BY <1>0, <3>1 DEF CheckReady, Goto, TypeOK, ChatsInPlace, ChatPlaces
    <3>2. CASE Ask(r)
      BY <1>0, <3>2 DEF Ask, Goto, TypeOK, ChatsInPlace, ChatPlaces
    <3> QED BY <1>14, <3>1, <3>2
  <2>2. ReadyHasEngine'
    BY <1>0, <1>14 DEF CheckReady, Ask, Goto, TypeOK, ReadyHasEngine
  <2>3. VictimsAreOut'
    BY <1>0, <1>14 DEF CheckReady, Ask, Goto, TypeOK, VictimsAreOut
  <2>4. IndexIsThere'
    BY <1>0, <1>14 DEF CheckReady, Ask, Goto, TypeOK, Placed, IndexIsThere, Entitled
  <2>5. ObjectIsKept'
    BY <1>0, <1>14 DEF CheckReady, Ask, Goto, TypeOK, Fetched, ObjectIsKept, Entitled
  <2> QED BY <2>1, <2>2, <2>3, <2>4, <2>5 DEF Entitlements
<1>15. ASSUME NEW r \in Requests, NEW f \in Files,
      SaveFile(r, f) \/ UnlinkFile(r, f)
      PROVE  Entitlements'
  <2>1. ChatsInPlace'
    BY <1>0, <1>15 DEF SaveFile, UnlinkFile, Goto, TypeOK, ChatsInPlace
  <2>2. ReadyHasEngine'
    BY <1>0, <1>15 DEF SaveFile, UnlinkFile, Goto, TypeOK, Fetched, ReadyHasEngine
  <2>3. VictimsAreOut'
    BY <1>0, <1>15 DEF SaveFile, UnlinkFile, Goto, TypeOK, VictimsAreOut
  <2>4. IndexIsThere'
    BY <1>0, <1>15 DEF SaveFile, UnlinkFile, Goto, TypeOK, Placed, IndexIsThere, Entitled
  <2>5. ObjectIsKept'
    BY <1>0, <1>15 DEF SaveFile, UnlinkFile, Goto, TypeOK, ChatPlaces, ObjectIsKept,
       Entitled
  <2> QED BY <2>1, <2>2, <2>3, <2>4, <2>5 DEF Entitlements
<1>16. ASSUME NEW r \in Requests, Commit(r) PROVE Entitlements'
  <2>1. ChatsInPlace'
    BY <1>0, <1>16 DEF Commit, Goto, ChatsInPlace, ChatPlaces
  <2>2. ReadyHasEngine'
    BY <1>0, <1>16 DEF Commit, Goto, ReadyHasEngine
  <2>3. VictimsAreOut'
    BY <1>0, <1>16 DEF Commit, Goto, VictimsAreOut
  <2>4. IndexIsThere'
    BY <1>0, <1>16 DEF Commit, Goto, IndexIsThere, Entitled
  <2>5. ObjectIsKept'
    BY <1>0, <1>16 DEF Commit, Goto, ChatsInPlace, ChatPlaces, ObjectIsKept, Entitled
  <2> QED BY <2>1, <2>2, <2>3, <2>4, <2>5 DEF Entitlements
<1>17. ASSUME NEW r \in Requests, WipeAndBuild(r) \/ Unsave(r) PROVE Entitlements'
  <2>1. ChatsInPlace'
    BY <1>0, <1>17 DEF WipeAndBuild, Unsave, Goto, TypeOK, ChatsInPlace, ChatPlaces
  <2>2. ReadyHasEngine'
    BY <1>0, <1>17 DEF WipeAndBuild, Unsave, Goto, TypeOK, ReadyHasEngine
  <2>3. VictimsAreOut'
    BY <1>0, <1>17 DEF WipeAndBuild, Unsave, Goto, TypeOK, VictimsAreOut
  <2>4. IndexIsThere'
    BY <1>0, <1>17 DEF WipeAndBuild, Unsave, Goto, Spoil, Chats, TypeOK, Placed,
       IndexIsThere, Entitled
  <2>5. ObjectIsKept'
    BY <1>0, <1>17 DEF WipeAndBuild, Unsave, Goto, Spoil, Chats, TypeOK, ObjectIsKept,
       Entitled
  <2> QED BY <2>1, <2>2, <2>3, <2>4, <2>5 DEF Entitlements
<1>18. ASSUME NEW r \in Requests, EmptyFiles(r) PROVE Entitlements'
  <2>1. ChatsInPlace'
    BY <1>0, <1>18 DEF EmptyFiles, Goto, ChatsInPlace, ChatPlaces
  <2>2. ReadyHasEngine'
    BY <1>0, <1>18 DEF EmptyFiles, Goto, ReadyHasEngine
  <2>3. VictimsAreOut'
    BY <1>0, <1>18 DEF EmptyFiles, Goto, VictimsAreOut
  <2>4. IndexIsThere'
    BY <1>0, <1>18 DEF EmptyFiles, Goto, IndexIsThere, Entitled
  <2>5. ObjectIsKept'
    BY <1>0, <1>18 DEF EmptyFiles, Goto, ChatsInPlace, ChatPlaces, ObjectIsKept, Entitled
  <2> QED BY <2>1, <2>2, <2>3, <2>4, <2>5 DEF Entitlements
<1>19. ASSUME NEW r \in Requests, Clear(r) PROVE Entitlements'
  <2>1. ChatsInPlace'
    BY <1>0, <1>19 DEF Clear, Goto, ChatsInPlace, ChatPlaces
  <2>2. ReadyHasEngine'
    BY <1>0, <1>19 DEF Clear, Goto, TypeOK, ReadyHasEngine
  <2>3. VictimsAreOut'
    BY <1>0, <1>19 DEF Clear, Goto, VictimsAreOut
  <2>4. IndexIsThere'
    BY <1>0, <1>19 DEF Clear, Goto, Spoil, IndexIsThere, Entitled
  <2>5. ObjectIsKept'
    BY <1>0, <1>19 DEF Clear, Goto, Spoil, Chats, Placed, Fetched, ObjectIsKept, Entitled
  <2> QED BY <2>1, <2>2, <2>3, <2>4, <2>5 DEF Entitlements
<1>20. ASSUME NEW r \in Requests, Drop(r) PROVE Entitlements'
  <2>1. ChatsInPlace'
    BY <1>0, <1>20 DEF Drop, Goto, ChatsInPlace, ChatPlaces
  <2>2. ReadyHasEngine'
    BY <1>0, <1>20 DEF Drop, Goto, ReadyHasEngine
  <2>3. VictimsAreOut'
    <3>1. \A q \in Requests : pc[q] = "evicting" => ref[q] # NoObject
      BY <1>0, NoObjectAssumption DEF Placed
    <3> QED BY <1>0, <1>20, <3>1 DEF Drop, Goto, TypeOK, VictimsAreOut
  <2>4. IndexIsThere'
    BY <1>0, <1>20 DEF Drop, Goto, Spoil, Chats, IndexIsThere, Entitled
  <2>5. ObjectIsKept'
    BY <1>0, <1>20 DEF Drop, Goto, Spoil, Chats, ObjectIsKept, Entitled
  <2> QED BY <2>1, <2>2, <2>3, <2>4, <2>5 DEF Entitlements
<1>21. ASSUME NEW r \in Requests, Unlist(r) PROVE Entitlements'
  <2>1. ChatsInPlace'
    BY <1>0, <1>21 DEF Unlist, Goto, ChatsInPlace, ChatPlaces
  <2>2. ReadyHasEngine'
    BY <1>0, <1>21 DEF Unlist, Goto, ReadyHasEngine
  <2>3. VictimsAreOut'
    BY <1>0, <1>21 DEF Unlist, Goto, VictimsAreOut
  <2>4. IndexIsThere'
    BY <1>0, <1>21 DEF Unlist, Goto, IndexIsThere, Entitled
  <2>5. ObjectIsKept'
    BY <1>0, <1>21 DEF Unlist, Goto, ChatsInPlace, ChatPlaces, ObjectIsKept, Entitled
  <2> QED BY <2>1, <2>2, <2>3, <2>4, <2>5 DEF Entitlements
<1>22. CASE UNCHANGED vars
  BY <1>0, <1>22 DEF vars, Entitlements, ChatsInPlace, ReadyHasEngine, VictimsAreOut,
     IndexIsThere, ObjectIsKept, Entitled
<1> QED
  BY <1>1, <1>2, <1>3, <1>4, <1>5, <1>6, <1>7, <1>8, <1>9, <1>10, <1>11, <1>12, <1>13,
     <1>14, <1>15, <1>16, <1>17, <1>18, <1>19, <1>20, <1>21, <1>22 DEF Next, Building

\* For any users, requests, files and size of the table: a chat that found a saved index
\* when it came answers from an index, unless the index was removed, a library failed or
\* the user's object was evicted meanwhile (for_user, init, query).
THEOREM EntitledChatsAnswer == Spec => ChatsAnswer
<1>1. IInv /\ Entitlements /\ [Next]_vars =>
          [\A r \in Requests : ChatEnds(r) /\ r \notin spoiled \cup upset => Answers(r)]_vars
  <2> SUFFICES ASSUME IInv, Entitlements, Next, NEW r \in Requests, ChatEnds(r),
                      r \notin spoiled \cup upset
               PROVE  Answers(r)
    BY DEF vars
  <2>0. /\ TypeOK /\ Placed /\ ChatsInPlace /\ ReadyHasEngine /\ IndexIsThere /\ ObjectIsKept
        /\ Entitled(r) /\ pc'[r] = "idle" /\ pc[r] # "idle" /\ op[r] = "chat"
    BY DEF IInv, Entitlements, Entitled, ChatEnds
  <2>1. \E q \in Requests :
            \/ FetchFails(q) \/ LookIsOver(q) \/ AskFails(q) \/ Retrieve(q)
            \/ Refuse(q) \/ CommitFails(q) \/ Queue(q) \/ Leave(q)
    BY <2>0 DEF Next, Building, Arrive, Hit, Miss, Displace, Evict, Fetch, BeginInit, Load,
       Read, ReadNothing, Build, InitFails, Becomes, AfterInit, CheckReady, Ask, SaveFile,
       UnlinkFile, Commit, WipeAndBuild, EmptyFiles, Unsave, Clear, Drop, Unlist, Goto, TypeOK
  <2>2. \/ FetchFails(r) \/ LookIsOver(r) \/ AskFails(r) \/ Retrieve(r)
        \/ Refuse(r) \/ CommitFails(r) \/ Queue(r) \/ Leave(r)
    <3>1. ASSUME NEW q \in Requests,
                 \/ FetchFails(q) \/ LookIsOver(q) \/ AskFails(q) \/ Retrieve(q)
                 \/ Refuse(q) \/ CommitFails(q) \/ Queue(q) \/ Leave(q)
          PROVE  pc' = [pc EXCEPT ![q] = "idle"]
      BY <3>1 DEF FetchFails, LookIsOver, AskFails, Retrieve, Refuse, CommitFails, Queue,
         Leave, Finish, Goto
    <3> QED BY <2>0, <2>1, <3>1 DEF TypeOK
  <2>3. pc[r] \in ChatPlaces
    BY <2>0 DEF ChatsInPlace
  <2>4. pc[r] = "retrieving"
    BY <2>0, <2>2, <2>3 DEF FetchFails, LookIsOver, AskFails, Retrieve, Refuse, CommitFails,
       Queue, Leave, InTable, IndexIsThere, ObjectIsKept, ChatPlaces
  <2>5. ref[r] \in Objects /\ ready[ref[r]]
    BY <2>0, <2>4 DEF Placed, Fetched, ObjectIsKept
  <2> QED BY <2>0, <2>4, <2>5 DEF ReadyHasEngine, Answers
<1> QED
  BY <1>1, InitEntitlements, NextEntitlements, SpecInv, PTL DEF Spec, ChatsAnswer
=============================================================================
