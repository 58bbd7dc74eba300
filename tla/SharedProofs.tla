------------------------------ MODULE SharedProofs ------------------------------
(***************************************************************************)
(* Proofs about what requests to the platform share: the cache, that is    *)
(* the access limit of an application and the gateway of a model, and the  *)
(* rows of users and workspaces.  They hold for every number of requests,  *)
(* readers, processes, users, workspaces and edits, and every limit.       *)
(***************************************************************************)
EXTENDS SharedCache, Workspaces, TLAPS

-----------------------------------------------------------------------------
(* The access limit.                                                       *)

LimitType ==
  /\ maximum \in Nat /\ counter \in Nat /\ granted \in Nat /\ resets \in Nat
  /\ access \in [Turn -> {"new", "missed", "refused", "granted"}]

(***************************************************************************)
(* What the counter has left is still to be granted: every first value is  *)
(* good for maximum, whatever the counter has come to.                     *)
(***************************************************************************)
LimitInv ==
  /\ LimitType
  /\ maximum > 0 => /\ granted <= maximum * resets
                    /\ counter > 0 => granted + maximum - counter <= maximum * resets

LEMMA LimitStep ==
  ASSUME LimitInv, AccessNext \/ UNCHANGED limit
  PROVE  LimitInv'
<1>1. CASE UNCHANGED limit
  BY <1>1 DEF limit, LimitInv, LimitType
<1>2. CASE Forget
  BY <1>2 DEF Forget, LimitInv, LimitType
<1>3. ASSUME NEW r \in Turn, EnsureAccess(r) PROVE LimitInv'
  <2>0. LimitInv /\ maximum' = maximum
    BY <1>3 DEF EnsureAccess
  <2>1. CASE Unlimited(r)
    BY <2>0, <2>1 DEF Unlimited, LimitInv, LimitType
  <2>2. CASE Incr(r)
    <3>1. /\ counter > 0 /\ counter' = counter + 1 /\ resets' = resets
          /\ Decide(r, counter + 1)
      BY <2>2 DEF Incr
    <3>2. LimitType'
      BY <2>0, <3>1 DEF Decide, LimitInv, LimitType
    <3>3. maximum * resets \in Nat
      BY <2>0 DEF LimitInv, LimitType
    <3> DEFINE all == maximum * resets
    <3>4. all \in Nat /\ maximum' * resets' = all
      BY <2>0, <3>1, <3>3
    <3>5. maximum > 0 => granted <= all /\ granted + maximum - counter <= all
      BY <2>0, <3>1 DEF LimitInv
    <3> HIDE DEF all
    <3>6. maximum > 0 => granted' <= all /\ granted' + maximum - counter' <= all
      BY <2>0, <3>1, <3>4, <3>5 DEF Decide, LimitInv, LimitType
    <3> QED
      BY <2>0, <3>2, <3>4, <3>6 DEF LimitInv
  <2>3. CASE Miss(r)
    BY <2>0, <2>3 DEF Miss, LimitInv, LimitType
  <2>4. CASE Set(r)
    <3>1. counter' = 1 /\ resets' = resets + 1 /\ Decide(r, 1)
      BY <2>4 DEF Set
    <3>2. LimitType'
      BY <2>0, <3>1 DEF Decide, LimitInv, LimitType
    <3>3. maximum \in Nat /\ resets \in Nat /\ maximum * resets \in Nat
      BY <2>0 DEF LimitInv, LimitType
    <3>4. maximum * (resets + 1) = maximum * resets + maximum
      BY <3>3
    <3> DEFINE all == maximum * resets
    <3>5. all \in Nat /\ maximum' * resets' = all + maximum
      BY <2>0, <3>1, <3>3, <3>4
    <3>6. maximum > 0 => granted <= all
      BY <2>0 DEF LimitInv
    <3> HIDE DEF all
    <3>7. maximum > 0 => /\ granted' <= all + maximum
                         /\ granted' + maximum - counter' <= all + maximum
      BY <2>0, <3>1, <3>3, <3>5, <3>6 DEF Decide, LimitInv, LimitType
    <3> QED
      BY <2>0, <3>2, <3>5, <3>7 DEF LimitInv
  <2> QED
    BY <1>3, <2>1, <2>2, <2>3, <2>4 DEF EnsureAccess
<1> QED
  BY <1>1, <1>2, <1>3 DEF AccessNext

-----------------------------------------------------------------------------
(* The gateway.                                                            *)

GatewayType ==
  /\ row \in Rows \cup {Absent} /\ cached \in Rows \cup {Absent}
  /\ reader \in [Reader -> [pc : {"idle", "locking", "locked", "checked", "built"},
                            row : Rows \cup {Absent}]]
  /\ editor \in [Editor -> [pc : {"new", "save", "invalidate", "done"},
                            row : Rows \cup {Absent}]]
  /\ held \subseteq Processes
  /\ builds \in [Processes -> Nat]
  /\ edits \in Nat
  /\ late \in BOOLEAN

\* A thread that is inside the lock of its process.
Holds(r) == Reading(r, "locked") \/ Reading(r, "checked") \/ Reading(r, "built")

LockInv ==
  /\ \A r \in Reader : Holds(r) => ProcessOf[r] \in held
  /\ \A r, q \in Reader : Holds(r) /\ Holds(q) /\ ProcessOf[r] = ProcessOf[q] => r = q

RowInv ==
  /\ \A r \in Reader : Reading(r, "built") => reader[r].row \in Rows
  /\ \A e \in Editor : editor[e].pc = "save" => editor[e].row \in Rows

(***************************************************************************)
(* A process that has built the model sees it in the cache, or one of its  *)
(* threads still has it to store; a thread that is about to build is the   *)
(* first of its process.                                                   *)
(***************************************************************************)
BuildInv ==
  Cacheable =>
    \A p \in Processes :
      /\ builds[p] <= 1
      /\ builds[p] = 1 =>
           cached # Absent \/ \E r \in Reader : ProcessOf[r] = p /\ Reading(r, "built")
      /\ \A r \in Reader : ProcessOf[r] = p /\ Reading(r, "checked") => builds[p] = 0

\* What threads have yet to store is current when the cache is.
CurrentInv ==
  ~Open /\ ~late =>
    /\ cached \in {Absent, row}
    /\ \A r \in Reader : Reading(r, "built") => reader[r].row = row

GatewayInv == GatewayType /\ LockInv /\ RowInv /\ BuildInv /\ CurrentInv

LEMMA GatewayInitial ==
  ASSUME GatewayInit PROVE GatewayInv
<1> USE DEF GatewayInit, Holds, Reading
<1>1. GatewayType
  BY DEF GatewayType, Rows, RowOf
<1>2. LockInv /\ RowInv
  BY DEF LockInv, RowInv
<1>3. BuildInv
  BY DEF BuildInv
<1>4. CurrentInv
  BY DEF CurrentInv
<1> QED
  BY <1>1, <1>2, <1>3, <1>4 DEF GatewayInv

(* A process runs the thread of each reader. *)
LEMMA InProcess ==
  ASSUME NEW r \in Reader PROVE ProcessOf[r] \in Processes
BY DEF Processes

LEMMA LookUpStep ==
  ASSUME GatewayInv, NEW r \in Reader, LookUp(r), UNCHANGED <<row, editor, edits, late>>
  PROVE  GatewayInv'
<1> USE DEF GatewayInv, LookUp, Step, Reading
<1>1. GatewayType'
  BY DEF GatewayType
<1>2. \A q \in Reader : Holds(q)' = Holds(q) /\ (reader'[q].pc = "built" <=> reader[q].pc = "built")
                        /\ (reader'[q].pc = "checked" <=> reader[q].pc = "checked")
                        /\ (reader[q].pc = "built" => reader'[q] = reader[q])
  BY DEF GatewayType, Holds
<1>3. LockInv'
  BY <1>2 DEF LockInv
<1>4. RowInv'
  BY <1>2 DEF RowInv
<1>5. BuildInv'
  BY <1>2 DEF BuildInv
<1>6. CurrentInv'
  BY <1>2 DEF CurrentInv, Open
<1> QED
  BY <1>1, <1>3, <1>4, <1>5, <1>6

LEMMA LockStep ==
  ASSUME GatewayInv, NEW r \in Reader, Lock(r), UNCHANGED <<row, editor, edits, late>>
  PROVE  GatewayInv'
<1> USE DEF GatewayInv, Lock, Step, Reading
<1>1. GatewayType'
  BY InProcess DEF GatewayType
<1>2. /\ reader'[r].pc = "locked" /\ ~Holds(r)
      /\ \A q \in Reader \ {r} : reader'[q] = reader[q] /\ Holds(q)' = Holds(q)
  BY DEF GatewayType, Holds
<1>3. LockInv'
  BY <1>2 DEF LockInv
<1>4. RowInv'
  BY <1>2 DEF RowInv
<1>5. BuildInv'
  BY <1>2 DEF BuildInv, Holds
<1>6. CurrentInv'
  BY <1>2 DEF CurrentInv, Open
<1> QED
  BY <1>1, <1>3, <1>4, <1>5, <1>6

(* A thread that leaves the lock of its process and stores nothing. *)
LEMMA UnlockStep ==
  ASSUME GatewayInv, NEW r \in Reader, Holds(r), ~Reading(r, "built"), Unlock(r),
         UNCHANGED <<row, cached, builds, editor, edits, late>>
  PROVE  GatewayInv'
<1> USE DEF GatewayInv, Unlock, Step, Reading
<1>1. GatewayType'
  BY DEF GatewayType
<1>2. /\ reader'[r].pc = "idle" /\ ~Holds(r)'
      /\ \A q \in Reader \ {r} : reader'[q] = reader[q] /\ Holds(q)' = Holds(q)
  BY DEF GatewayType, Holds
<1>3. LockInv'
  BY <1>2 DEF LockInv
<1>4. RowInv'
  BY <1>2 DEF RowInv
<1>5. BuildInv'
  BY <1>2 DEF BuildInv, Holds
<1>6. CurrentInv'
  BY <1>2 DEF CurrentInv, Open
<1> QED
  BY <1>1, <1>3, <1>4, <1>5, <1>6

LEMMA CheckAgainStep ==
  ASSUME GatewayInv, NEW r \in Reader, CheckAgain(r), UNCHANGED <<row, editor, edits, late>>
  PROVE  GatewayInv'
<1>1. CASE cached # Absent /\ Unlock(r)
  BY <1>1, UnlockStep DEF CheckAgain, Holds, Reading
<1>2. CASE cached = Absent /\ Step(r, "checked", Absent) /\ UNCHANGED held
  <2> USE DEF GatewayInv, Step, Reading
  <2>1. GatewayType'
    BY <1>2 DEF CheckAgain, GatewayType
  <2>2. /\ reader'[r].pc = "checked" /\ reader[r].pc = "locked" /\ Holds(r) /\ Holds(r)'
        /\ \A q \in Reader \ {r} : reader'[q] = reader[q] /\ Holds(q)' = Holds(q)
        /\ UNCHANGED <<cached, builds, held>>
    BY <1>2 DEF CheckAgain, GatewayType, Holds
  <2>3. LockInv'
    BY <2>2 DEF LockInv
  <2>4. RowInv'
    BY <2>2 DEF RowInv
  \* No thread of this process has the model to store: r is inside the lock.
  <2>5. \A q \in Reader : ProcessOf[q] = ProcessOf[r] => ~Reading(q, "built")
    BY <2>2 DEF LockInv, Holds
  <2>6. Cacheable => builds[ProcessOf[r]] = 0
    <3>1. ProcessOf[r] \in Processes /\ builds[ProcessOf[r]] \in Nat
      BY InProcess DEF GatewayType
    <3>2. Cacheable => builds[ProcessOf[r]] <= 1 /\ builds[ProcessOf[r]] # 1
      BY <1>2, <2>5, <3>1 DEF BuildInv
    <3> QED
      BY <3>1, <3>2
  <2>7. BuildInv'
    BY <2>2, <2>6 DEF BuildInv, Holds
  <2>8. CurrentInv'
    BY <2>2 DEF CurrentInv, Open
  <2> QED
    BY <2>1, <2>3, <2>4, <2>7, <2>8
<1> QED
  BY <1>1, <1>2 DEF CheckAgain

LEMMA BuildStep ==
  ASSUME GatewayInv, NEW r \in Reader, Build(r), UNCHANGED <<row, editor, edits, late>>
  PROVE  GatewayInv'
<1>1. CASE row = Absent /\ Unlock(r) /\ UNCHANGED builds
  BY <1>1, UnlockStep DEF Build, Holds, Reading
<1>2. CASE /\ row # Absent /\ Step(r, "built", row) /\ UNCHANGED held
           /\ builds' = [builds EXCEPT ![ProcessOf[r]] = @ + 1]
  <2> USE DEF GatewayInv, Step, Reading
  <2>1. GatewayType'
    BY <1>2, InProcess DEF Build, GatewayType
  <2>2. /\ reader'[r].pc = "built" /\ reader[r].pc = "checked" /\ Holds(r) /\ Holds(r)'
        /\ reader'[r].row = row /\ row \in Rows
        /\ \A q \in Reader \ {r} : reader'[q] = reader[q] /\ Holds(q)' = Holds(q)
        /\ UNCHANGED <<cached, held>>
    BY <1>2 DEF Build, GatewayType, Holds
  <2>3. LockInv'
    BY <2>2 DEF LockInv
  <2>4. RowInv'
    BY <2>2 DEF RowInv
  <2>5. Cacheable => builds'[ProcessOf[r]] = 1
    BY <1>2, <2>2, InProcess DEF BuildInv, GatewayType
  <2>6. \A p \in Processes \ {ProcessOf[r]} : builds'[p] = builds[p]
    BY <1>2 DEF GatewayType
  <2>7. \A q \in Reader \ {r} : ProcessOf[q] = ProcessOf[r] => reader'[q].pc # "checked"
    BY <2>2 DEF LockInv, Holds
  <2>8. ASSUME Cacheable, NEW p \in Processes
        PROVE  /\ builds'[p] <= 1
               /\ builds'[p] = 1 =>
                    cached' # Absent \/ \E q \in Reader : ProcessOf[q] = p /\ reader'[q].pc = "built"
               /\ \A q \in Reader : ProcessOf[q] = p /\ reader'[q].pc = "checked" => builds'[p] = 0
    <3>1. CASE p = ProcessOf[r]
      BY <2>2, <2>5, <2>7, <2>8, <3>1
    <3>2. CASE p # ProcessOf[r]
      BY <2>2, <2>6, <2>8, <3>2 DEF BuildInv
    <3> QED
      BY <3>1, <3>2
  <2>9. BuildInv'
    BY <2>8 DEF BuildInv
  <2>10. CurrentInv'
    BY <2>2 DEF CurrentInv, Open
  <2> QED
    BY <2>1, <2>3, <2>4, <2>9, <2>10
<1> QED
  BY <1>1, <1>2 DEF Build

LEMMA StoreStep ==
  ASSUME GatewayInv, NEW r \in Reader, Store(r), UNCHANGED <<row, editor, edits, late>>
  PROVE  GatewayInv'
<1> USE DEF GatewayInv, Store, Unlock, Step, Reading
<1>1. /\ reader'[r].pc = "idle" /\ reader[r].row \in Rows /\ Holds(r) /\ ~Holds(r)'
      /\ \A q \in Reader \ {r} : reader'[q] = reader[q] /\ Holds(q)' = Holds(q)
      /\ UNCHANGED builds
  BY DEF GatewayType, Holds, RowInv
<1>2. GatewayType'
  BY <1>1 DEF GatewayType
<1>3. LockInv'
  BY <1>1 DEF LockInv
<1>4. RowInv'
  BY <1>1 DEF RowInv
<1>5. Cacheable => cached' # Absent
  BY <1>1, GatewayAssumption
<1>6. BuildInv'
  BY <1>1, <1>5 DEF BuildInv
<1>7. CurrentInv'
  BY <1>1 DEF CurrentInv, Open
<1> QED
  BY <1>2, <1>3, <1>4, <1>6, <1>7

(* The entry is gone, whoever removes it. *)
LEMMA EmptyStep ==
  ASSUME GatewayInv, Empty, UNCHANGED <<row, reader, held, editor, edits, late>>
  PROVE  GatewayInv'
<1> USE DEF GatewayInv, Empty
<1>1. GatewayType'
  BY DEF GatewayType
<1>2. LockInv' /\ RowInv'
  BY DEF LockInv, RowInv, Holds, Reading
<1>3. BuildInv'
  BY DEF BuildInv
<1>4. CurrentInv'
  BY DEF CurrentInv, Open, Reading
<1> QED
  BY <1>1, <1>2, <1>3, <1>4

-----------------------------------------------------------------------------
(* The requests to the views.                                              *)

(* A request that takes a step leaves the threads and their lock alone. *)
LEMMA EditorStep ==
  ASSUME GatewayInv, NEW e \in Editor,
         UNCHANGED <<reader, held>>, GatewayType', RowInv',
         \/ UNCHANGED <<cached, builds>>
         \/ Empty,
         CurrentInv'
  PROVE  GatewayInv'
<1>1. LockInv'
  BY DEF GatewayInv, LockInv, Holds, Reading
<1>2. BuildInv'
  BY DEF GatewayInv, BuildInv, Empty, Reading
<1> QED
  BY <1>1, <1>2 DEF GatewayInv

LEMMA ReadStep ==
  ASSUME GatewayInv, NEW e \in Editor, Read(e), UNCHANGED <<reader, held>>
  PROVE  GatewayInv'
<1>0. PICK what \in {"cred", "name"} :
        editor' = [editor EXCEPT ![e] = [pc |-> "save", row |-> [row EXCEPT ![what] = edits + 1]]]
  BY DEF Read
<1>1. row \in Rows /\ [row EXCEPT ![what] = edits + 1] \in Rows
  <2>1. row \in Rows /\ edits + 1 \in Nat
    BY DEF Read, GatewayInv, GatewayType
  <2>2. CASE what = "cred"
    BY <2>1, <2>2 DEF Rows
  <2>3. CASE what = "name"
    BY <2>1, <2>3 DEF Rows
  <2> QED
    BY <2>1, <2>2, <2>3
<1>2. GatewayType'
  <2>1. editor' \in [Editor -> [pc : {"new", "save", "invalidate", "done"},
                                row : Rows \cup {Absent}]]
    BY <1>0, <1>1 DEF GatewayInv, GatewayType
  <2> QED
    BY <2>1 DEF Read, GatewayInv, GatewayType
<1>3. RowInv'
  BY <1>0, <1>1 DEF Read, GatewayInv, GatewayType, RowInv, Reading
<1>4. Open' = Open
  BY <1>0 DEF Read, GatewayInv, GatewayType, Open
<1>5. CurrentInv'
  BY <1>4 DEF Read, GatewayInv, CurrentInv, Reading
<1> QED
  BY <1>2, <1>3, <1>5, EditorStep DEF Read

(* A request that has changed the row owes the cache an invalidation. *)
LEMMA OwesInvalidation ==
  ASSUME GatewayInv, NEW e \in Editor, UNCHANGED <<reader, held>>,
         row' \in Rows \cup {Absent},
         editor' = [editor EXCEPT ![e] = [pc |-> "invalidate", row |-> Absent]],
         UNCHANGED <<cached, builds, edits, late>>
  PROVE  GatewayInv'
<1>1. GatewayType'
  BY DEF GatewayInv, GatewayType
<1>2. RowInv'
  BY DEF GatewayInv, GatewayType, RowInv, Reading
<1>3. Open'
  BY DEF GatewayInv, GatewayType, Open
<1>4. CurrentInv'
  BY <1>3 DEF CurrentInv
<1> QED
  BY <1>1, <1>2, <1>4, EditorStep

LEMMA InvalidateStep ==
  ASSUME GatewayInv, NEW e \in Editor, Invalidate(e), UNCHANGED <<reader, held>>
  PROVE  GatewayInv'
<1> USE DEF Invalidate, Empty
<1>1. GatewayType'
  BY DEF GatewayInv, GatewayType
<1>2. RowInv'
  BY DEF GatewayInv, GatewayType, RowInv, Reading
<1>3. CurrentInv'
  BY DEF CurrentInv, Reading
<1> QED
  BY <1>1, <1>2, <1>3, EditorStep

-----------------------------------------------------------------------------
LEMMA GatewayStep ==
  ASSUME GatewayInv, GatewayNext \/ UNCHANGED gatewayVars
  PROVE  GatewayInv'
<1>1. CASE UNCHANGED gatewayVars
  BY <1>1 DEF gatewayVars, GatewayInv, GatewayType, LockInv, RowInv, BuildInv, CurrentInv,
              Holds, Reading, Open
<1>2. ASSUME NEW r \in Reader, GetModel(r) PROVE GatewayInv'
  BY <1>2, LookUpStep, LockStep, CheckAgainStep, BuildStep, StoreStep DEF GetModel
<1>3. ASSUME NEW e \in Editor, Edit(e) PROVE GatewayInv'
  <2>1. CASE Read(e)
    BY <1>3, <2>1, ReadStep DEF Edit
  <2>2. CASE SaveRow(e)
    BY <1>3, <2>2, OwesInvalidation DEF Edit, SaveRow, GatewayInv, RowInv
  <2>3. CASE Delete(e)
    BY <1>3, <2>3, OwesInvalidation DEF Edit, Delete
  <2>4. CASE Invalidate(e)
    BY <1>3, <2>4, InvalidateStep DEF Edit
  <2> QED
    BY <1>3, <2>1, <2>2, <2>3, <2>4 DEF Edit
<1>4. CASE Expire
  BY <1>4, EmptyStep DEF Expire
<1> QED
  BY <1>1, <1>2, <1>3, <1>4 DEF GatewayNext

-----------------------------------------------------------------------------
(* Both, on the cache they share.                                          *)

LEMMA CacheInvariant == CacheSpec => [](LimitInv /\ GatewayInv)
<1>1. CacheInit => LimitInv /\ GatewayInv
  <2>1. AccessInit => LimitInv
    BY LimitAssumption DEF AccessInit, LimitInv, LimitType
  <2> QED
    BY <2>1, GatewayInitial DEF CacheInit
<1>2. LimitInv /\ GatewayInv /\ [CacheNext]_cacheVars => (LimitInv /\ GatewayInv)'
  <2> SUFFICES ASSUME LimitInv, GatewayInv, [CacheNext]_cacheVars
               PROVE  LimitInv' /\ GatewayInv'
    OBVIOUS
  <2>1. CASE \E r \in Turn : EnsureAccess(r) /\ UNCHANGED gatewayVars
    BY <2>1, LimitStep, GatewayStep DEF AccessNext
  <2>2. CASE GatewayNext /\ UNCHANGED limit
    BY <2>2, LimitStep, GatewayStep
  <2>3. CASE Restart
    BY <2>3, LimitStep, EmptyStep DEF Restart, AccessNext
  <2>4. CASE UNCHANGED cacheVars
    BY <2>4, LimitStep, GatewayStep DEF cacheVars
  <2> QED
    BY <2>1, <2>2, <2>3, <2>4 DEF CacheNext
<1> QED
  BY <1>1, <1>2, PTL DEF CacheSpec

(***************************************************************************)
(* cache_incr lets in the limit once for every first value it sets, for    *)
(* every number of requests and every limit.                               *)
(***************************************************************************)
THEOREM GrantedWithinLimit == CacheSpec => []GrantedAtMost
<1>1. LimitInv => GrantedAtMost
  BY DEF LimitInv, GrantedAtMost
<1> QED
  BY <1>1, CacheInvariant, PTL

(***************************************************************************)
(* The double check of get_model suffices, for every number of threads in  *)
(* every number of processes: each builds a cacheable model once.          *)
(***************************************************************************)
THEOREM OneBuildPerProcess == CacheSpec => []BuiltOnce
<1>1. GatewayInv => BuiltOnce
  BY DEF GatewayInv, BuildInv, BuiltOnce
<1> QED
  BY <1>1, CacheInvariant, PTL

(***************************************************************************)
(* Only a thread that stores behind an invalidation makes the cached model *)
(* stale, for every number of threads, edits and deletions.                *)
(***************************************************************************)
THEOREM OnlyLateStoresAreStale == CacheSpec => []CacheIsCurrent
<1>1. GatewayInv => CacheIsCurrent
  BY DEF GatewayInv, CurrentInv, CacheIsCurrent
<1> QED
  BY <1>1, CacheInvariant, PTL

-----------------------------------------------------------------------------
(* Users, workspaces and what is kept in them.                             *)

UserRow  == [is : {"row"}, role : Role, active : BOOLEAN]
SpaceRow == [is : {"row"}, owner : User]
BaseRow  == [is : {"knowledge", "termbase"}, ws : Workspace, user : User]
TermRow  == [is : {"term"}, base : Base]

Working ==
  [at : {"in"}, user : User, role : Role]
    \cup [at : {"put user"}, of : User, row : UserRow]
    \cup [at : {"member"}, user : User, ws : Workspace]
    \cup [at : {"base"}, user : User, ws : Workspace, kind : {"knowledge", "termbase"}]
    \cup [at : {"term", "put base"}, user : User, base : Base, row : BaseRow]
Owning == [at : {"own"}, user : User, ws : Workspace]

SpaceType ==
  /\ user \in [User -> UserRow \cup {Never, Gone}]
  /\ ws \in [Workspace -> SpaceRow \cup {Never, Gone}]
  /\ base \in [Base -> BaseRow \cup {Never, Gone}]
  /\ term \in [Term -> TermRow \cup {Never, Gone}]
  /\ req \in [Request -> {Idle} \cup Working \cup Owning]
  /\ member = [w \in Workspace |-> member[w]]
  /\ \A w \in Workspace : Members(w) \subseteq User

\* A request that is about to add an owner to its workspace has made that
\* workspace, and is that owner's.
OwnersAct ==
  \A q \in Request :
    Ready(q, "own") => /\ ws[req[q].ws] # Never
                       /\ Is(ws[req[q].ws]) => ws[req[q].ws].owner = By(q)

\* A workspace that a request has found its user in: no other workspace comes
\* in its place, and the user stays while it does.
Belongs(w, u) == ws[w] # Never /\ (Is(ws[w]) => u \in Members(w))

\* What a request carries was looked up.
Vouched(r) ==
  /\ r.at \in {"member", "base"} => Belongs(r.ws, r.user)
  /\ r.at \in {"term", "put base"} => Belongs(r.row.ws, r.row.user)

AskersBelong == \A q \in Request : Vouched(req[q])

\* A user is only asked for as a member by itself, so that members are owners.
OnlyOwners == \A w \in Workspace : \A u \in Members(w) : Is(ws[w]) /\ u = ws[w].owner

SpaceInv ==
  SpaceType /\ OwnersAct /\ OwnerIsMember /\ OnlyOwners /\ AskersBelong /\ MakerIsMember

-----------------------------------------------------------------------------
(* What rows are.                                                          *)

LEMMA RowsAre ==
  /\ \A r \in UserRow \cup SpaceRow \cup BaseRow \cup TermRow : Is(r)
  /\ ~Is(Never) /\ ~Is(Gone)
BY DEF UserRow, SpaceRow, BaseRow, TermRow, Is, Never, Gone

LEMMA IsRow ==
  ASSUME SpaceType
  PROVE  /\ \A u \in User : Is(user[u]) <=> user[u] \in UserRow
         /\ \A w \in Workspace : Is(ws[w]) <=> ws[w] \in SpaceRow
         /\ \A b \in Base : Is(base[b]) <=> base[b] \in BaseRow
         /\ \A t \in Term : Is(term[t]) <=> term[t] \in TermRow
BY RowsAre DEF SpaceType, Is

(* The place of a request tells what it carries. *)
LEMMA Carries ==
  ASSUME SpaceType, NEW q \in Request
  PROVE  /\ Ready(q, "in") => req[q] \in [at : {"in"}, user : User, role : Role]
         /\ Ready(q, "put user") => req[q] \in [at : {"put user"}, of : User, row : UserRow]
         /\ Ready(q, "own") => req[q] \in Owning
         /\ Ready(q, "member") => req[q] \in [at : {"member"}, user : User, ws : Workspace]
         /\ Ready(q, "base") =>
              req[q] \in [at : {"base"}, user : User, ws : Workspace, kind : {"knowledge", "termbase"}]
         /\ Ready(q, "term") \/ Ready(q, "put base") =>
              req[q] \in [at : {"term", "put base"}, user : User, base : Base, row : BaseRow]
<1>1. req[q] \in {Idle} \cup Working \cup Owning
  BY DEF SpaceType
<1>2. CASE req[q] = Idle
  BY <1>2 DEF Idle, Ready
<1>3. CASE req[q] \in Owning
  BY <1>3 DEF Owning, Ready
<1>4. CASE req[q] \in [at : {"in"}, user : User, role : Role]
  BY <1>4 DEF Ready
<1>5. CASE req[q] \in [at : {"put user"}, of : User, row : UserRow]
  BY <1>5 DEF Ready
<1>6. CASE req[q] \in [at : {"member"}, user : User, ws : Workspace]
  BY <1>6 DEF Ready
<1>7. CASE req[q] \in [at : {"base"}, user : User, ws : Workspace, kind : {"knowledge", "termbase"}]
  BY <1>7 DEF Ready
<1>8. CASE req[q] \in [at : {"term", "put base"}, user : User, base : Base, row : BaseRow]
  BY <1>8 DEF Ready
<1> QED
  BY <1>1, <1>2, <1>3, <1>4, <1>5, <1>6, <1>7, <1>8 DEF Working

(* A request that neither begins nor ends as an owner's. *)
LEMMA OwnersStay ==
  ASSUME SpaceType, NEW q \in Request, ~Ready(q, "own"),
         NEW r \in {Idle} \cup Working, Go(q, r)
  PROVE  /\ req' \in [Request -> {Idle} \cup Working \cup Owning]
         /\ \A p \in Request : Ready(p, "own")' <=> Ready(p, "own")
         /\ \A p \in Request : Ready(p, "own") => req'[p] = req[p]
<1>1. r.at # "own"
  <2>1. CASE r = Idle
    BY <2>1 DEF Idle
  <2>2. CASE r \in Working
    BY <2>2 DEF Working
  <2> QED
    BY <2>1, <2>2
<1>2. req' = [req EXCEPT ![q] = r] /\ req \in [Request -> {Idle} \cup Working \cup Owning]
  BY DEF Go, SpaceType
<1>3. \A p \in Request : req'[p] = IF p = q THEN r ELSE req[p]
  BY <1>2
<1>4. \A p \in Request : Ready(p, "own")' <=> Ready(p, "own")
  BY <1>1, <1>3 DEF Ready
<1>5. \A p \in Request : Ready(p, "own") => req'[p] = req[p]
  BY <1>3 DEF Ready
<1>6. req' \in [Request -> {Idle} \cup Working \cup Owning]
  BY <1>2
<1> QED
  BY <1>4, <1>5, <1>6

(* A request that has nothing to do. *)
LEMMA IdleIsVouched ==
  Vouched(Idle)
BY DEF Vouched, Idle

(* While users stay in the workspaces they were found in, what a request   *)
(* carries stays good.                                                     *)
LEMMA AskersStay ==
  ASSUME SpaceType, AskersBelong, NEW q \in Request,
         NEW r \in {Idle} \cup Owning, Go(q, r),
         \A w \in Workspace, u \in User : Belongs(w, u) => Belongs(w, u)'
  PROVE  AskersBelong'
<1> SUFFICES ASSUME NEW p \in Request PROVE Vouched(req[p])'
  BY DEF AskersBelong
<1>1. req'[p] = IF p = q THEN r ELSE req[p]
  BY DEF Go, SpaceType
<1>2. CASE p = q
  <2>1. req'[p].at \in {"idle", "own"}
    BY <1>1, <1>2 DEF Idle, Owning
  <2> QED
    BY <2>1 DEF Vouched
<1>3. CASE p # q
  <2>1. req'[p] = req[p] /\ Vouched(req[p])
    BY <1>1, <1>3 DEF AskersBelong
  <2>2. req[p].at \in {"member", "base"} => Belongs(req[p].ws, req[p].user)'
    <3> SUFFICES ASSUME req[p].at \in {"member", "base"}
                 PROVE  Belongs(req[p].ws, req[p].user)'
      BY <2>1
    <3>1. req[p].ws \in Workspace /\ req[p].user \in User
      BY Carries DEF Ready
    <3>2. Belongs(req[p].ws, req[p].user)
      BY <2>1 DEF Vouched
    <3> QED
      BY <2>1, <3>1, <3>2
  <2>3. req[p].at \in {"term", "put base"} => Belongs(req[p].row.ws, req[p].row.user)'
    <3> SUFFICES ASSUME req[p].at \in {"term", "put base"}
                 PROVE  Belongs(req[p].row.ws, req[p].row.user)'
      BY <2>1
    <3>1. req[p].row \in BaseRow
      BY Carries DEF Ready
    <3>2. req[p].row.ws \in Workspace /\ req[p].row.user \in User
      BY <3>1 DEF BaseRow
    <3>3. Belongs(req[p].row.ws, req[p].row.user)
      BY <2>1 DEF Vouched
    <3> QED
      BY <2>1, <3>2, <3>3
  <2> QED
    BY <2>1, <2>2, <2>3 DEF Vouched
<1> QED
  BY <1>2, <1>3

(* Workspaces and memberships as they were. *)
LEMMA SpacesStay ==
  ASSUME SpaceInv, NEW q \in Request, ~Ready(q, "own"),
         NEW r \in {Idle} \cup Working, Go(q, r), Vouched(r), UNCHANGED spaces
  PROVE  OwnersAct' /\ OwnerIsMember' /\ OnlyOwners' /\ AskersBelong'
<1>1. /\ \A p \in Request : Ready(p, "own")' <=> Ready(p, "own")
      /\ \A p \in Request : Ready(p, "own") => req'[p] = req[p]
  BY OwnersStay DEF SpaceInv
<1>2. ws' = ws /\ member' = member /\ torn' = torn
  BY DEF spaces
<1>3. OwnersAct'
  BY <1>1, <1>2 DEF SpaceInv, OwnersAct, By
<1>4. OwnerIsMember'
  BY <1>1, <1>2 DEF SpaceInv, OwnerIsMember, Members
<1>5. OnlyOwners'
  BY <1>2 DEF SpaceInv, OnlyOwners, Members
<1>6. \A p \in Request : req'[p] = r \/ req'[p] = req[p]
  BY DEF Go, SpaceInv, SpaceType
<1>7. AskersBelong'
  BY <1>2, <1>6 DEF SpaceInv, AskersBelong, Vouched, Belongs, Members
<1> QED
  BY <1>3, <1>4, <1>5, <1>7

(* A request that only moves on. *)
LEMMA OnlyMoves ==
  ASSUME SpaceInv, NEW q \in Request, ~Ready(q, "own"),
         NEW r \in {Idle} \cup Working, Go(q, r), Vouched(r),
         UNCHANGED <<user, spaces, content>>
  PROVE  SpaceInv'
<1>1. UNCHANGED <<user, ws, member, torn, base, term>>
  BY DEF spaces, content
<1>2. SpaceType'
  BY <1>1, OwnersStay DEF SpaceInv, SpaceType, Members
<1>3. MakerIsMember'
  BY <1>1 DEF SpaceInv, MakerIsMember, Members
<1> QED
  BY <1>1, <1>2, <1>3, SpacesStay DEF SpaceInv, spaces

-----------------------------------------------------------------------------
(* Users.                                                                  *)

LEMMA RegisterStep ==
  ASSUME SpaceInv, NEW u \in User, Register(u)
  PROVE  SpaceInv'
<1>1. Account("USER") \in UserRow
  BY DEF Account, UserRow, Role
<1>2. UNCHANGED <<ws, member, torn, base, term, req>>
  BY DEF Register, spaces, content
<1>3. SpaceType'
  BY <1>1, <1>2 DEF Register, SpaceInv, SpaceType, Members
<1>4. OwnersAct' /\ OwnerIsMember' /\ OnlyOwners' /\ MakerIsMember'
  BY <1>2 DEF SpaceInv, OwnersAct, OwnerIsMember, OnlyOwners, MakerIsMember, Members, Ready, By
<1>5. AskersBelong'
  BY <1>2 DEF SpaceInv, AskersBelong, Vouched, Belongs, Members
<1> QED
  BY <1>3, <1>4, <1>5 DEF SpaceInv

(* A request that writes one user and is over. *)
LEMMA UserSaved ==
  ASSUME SpaceInv, NEW q \in Request, ~Ready(q, "own"), Finish(q),
         NEW u \in User, NEW saved \in UserRow, user' = [user EXCEPT ![u] = saved],
         UNCHANGED <<spaces, content>>
  PROVE  SpaceInv'
<1>1. UNCHANGED <<ws, member, torn, base, term>>
  BY DEF spaces, content
<1>2. SpaceType'
  BY <1>1, OwnersStay DEF Finish, SpaceInv, SpaceType, Members
<1>3. MakerIsMember'
  BY <1>1 DEF SpaceInv, MakerIsMember, Members
<1> QED
  BY <1>2, <1>3, SpacesStay, IdleIsVouched DEF Finish, SpaceInv

(* With a user goes what is the user's, and what is kept there: a          *)
(* workspace that stays has its owner still, who is its only member.       *)
LEMMA BatchDeleteStep ==
  ASSUME SpaceInv, NEW q \in Request, NEW us \in SUBSET User, BatchDelete(q, us)
  PROVE  SpaceInv'
<1> DEFINE spaceless == {w \in Workspace : Is(ws[w]) /\ ws[w].owner \in us}
           lost == {b \in Base : Is(base[b]) /\ (base[b].user \in us \/ base[b].ws \in spaceless)}
<1>1. /\ user' = [u \in User |-> IF u \in us THEN Gone ELSE user[u]]
      /\ ws' = [w \in Workspace |-> IF w \in spaceless THEN Gone ELSE ws[w]]
      /\ member' = [w \in Workspace |->
           [u \in IF w \in spaceless THEN {} ELSE DOMAIN member[w] \ us |-> member[w][u]]]
      /\ base' = [b \in Base |-> IF b \in lost THEN Gone ELSE base[b]]
      /\ term' = [t \in Term |-> IF Is(term[t]) /\ term[t].base \in lost THEN Gone ELSE term[t]]
      /\ torn' = torn /\ Finish(q) /\ ~Ready(q, "own")
  BY DEF BatchDelete, DeleteUsers, Ready
<1>2. /\ req' \in [Request -> {Idle} \cup Working \cup Owning]
      /\ \A p \in Request : Ready(p, "own")' <=> Ready(p, "own")
      /\ \A p \in Request : Ready(p, "own") => req'[p] = req[p]
  BY <1>1, OwnersStay DEF Finish, SpaceInv
<1>3. \A w \in Workspace : Members(w)' = IF w \in spaceless THEN {} ELSE Members(w) \ us
  BY <1>1 DEF Members
<1>4. SpaceType'
  <2>1. /\ user' \in [User -> UserRow \cup {Never, Gone}]
        /\ ws' \in [Workspace -> SpaceRow \cup {Never, Gone}]
        /\ base' \in [Base -> BaseRow \cup {Never, Gone}]
        /\ term' \in [Term -> TermRow \cup {Never, Gone}]
    BY <1>1 DEF SpaceInv, SpaceType
  <2>2. member' = [w \in Workspace |-> member'[w]]
    BY <1>1
  <2>3. \A w \in Workspace : Members(w)' \subseteq User
    BY <1>3 DEF SpaceInv, SpaceType
  <2> QED
    BY <1>2, <2>1, <2>2, <2>3 DEF SpaceType
<1>5. \A w \in Workspace : Is(ws'[w]) => Is(ws[w]) /\ w \notin spaceless /\ ws'[w] = ws[w]
  BY <1>1, RowsAre
<1>6. \A u \in User \ us : user'[u] = user[u]
  BY <1>1
<1>7. OwnersAct'
  <2> SUFFICES ASSUME NEW p \in Request, Ready(p, "own")'
               PROVE  /\ ws'[req'[p].ws] # Never
                      /\ Is(ws'[req'[p].ws]) => ws'[req'[p].ws].owner = req'[p].user
    BY DEF OwnersAct, By
  <2>1. Ready(p, "own") /\ req'[p] = req[p] /\ req[p].ws \in Workspace
    BY <1>2, Carries DEF SpaceInv, Owning
  <2>2. Gone # Never
    BY DEF Gone, Never
  <2> QED
    BY <1>1, <1>5, <2>1, <2>2 DEF SpaceInv, OwnersAct, By
<1>8. OwnerIsMember'
  <2> SUFFICES ASSUME NEW w \in Workspace, Is(ws'[w]), w \notin torn',
                      ~(\E p \in Request : Ready(p, "own")' /\ req'[p].ws = w)
               PROVE  ws'[w].owner \in Members(w)'
    BY DEF OwnerIsMember
  <2>1. Is(ws[w]) /\ ws'[w] = ws[w] /\ w \notin spaceless /\ ws[w].owner \notin us
    BY <1>5
  <2>2. ~(\E p \in Request : Ready(p, "own") /\ req[p].ws = w)
    BY <1>2
  <2>3. ws[w].owner \in Members(w)
    BY <1>1, <2>1, <2>2 DEF SpaceInv, OwnerIsMember
  <2> QED
    BY <1>3, <2>1, <2>3
<1>9. \A w \in Workspace, u \in User : Belongs(w, u) => Belongs(w, u)'
  <2> SUFFICES ASSUME NEW w \in Workspace, NEW u \in User, Belongs(w, u) PROVE Belongs(w, u)'
    OBVIOUS
  <2>1. ws'[w] # Never
    BY <1>1 DEF Belongs, Gone, Never
  <2>2. ASSUME Is(ws'[w]) PROVE u \in Members(w)'
    <3>1. Is(ws[w]) /\ w \notin spaceless /\ ws[w].owner \notin us
      BY <1>5, <2>2
    <3>2. u \in Members(w) /\ u = ws[w].owner
      BY <3>1 DEF Belongs, SpaceInv, OnlyOwners
    <3> QED
      BY <1>3, <3>1, <3>2
  <2> QED
    BY <2>1, <2>2 DEF Belongs
<1>10. AskersBelong'
  BY <1>1, <1>9, AskersStay, IdleIsVouched DEF Finish, SpaceInv
<1>11. OnlyOwners'
  BY <1>1, <1>3 DEF SpaceInv, OnlyOwners
<1>12. MakerIsMember'
  <2>1. \A b \in Base : Is(base'[b]) => Is(base[b]) /\ b \notin lost /\ base'[b] = base[b]
    BY <1>1, RowsAre
  <2> SUFFICES ASSUME NEW b \in Base, Is(base[b]), b \notin lost
               PROVE  Is(ws'[base[b].ws]) /\ base[b].user \in DOMAIN member'[base[b].ws]
    BY <2>1 DEF MakerIsMember, Members
  <2>2. base[b].ws \in Workspace \ spaceless /\ base[b].user \in User \ us
    BY IsRow DEF SpaceInv, BaseRow
  <2>3. Is(ws[base[b].ws]) /\ base[b].user \in Members(base[b].ws)
    BY DEF SpaceInv, MakerIsMember
  <2>4. ws'[base[b].ws] = ws[base[b].ws] /\ base[b].user \in DOMAIN member'[base[b].ws]
    BY <1>1, <2>2, <2>3 DEF Members
  <2> QED
    BY <2>3, <2>4
<1> QED
  BY <1>4, <1>7, <1>8, <1>10, <1>11, <1>12 DEF SpaceInv

-----------------------------------------------------------------------------
(* Workspaces and members.                                                 *)

(* The owner of a workspace joins it. *)
LEMMA Joined ==
  ASSUME SpaceInv, NEW w \in Workspace, NEW u \in User, NEW role, Join(w, u, role),
         Is(ws[w]), u = ws[w].owner, UNCHANGED <<user, ws, base, term>>
  PROVE  /\ member' = [v \in Workspace |-> member'[v]]
         /\ \A v \in Workspace : Members(v)' = IF v = w THEN Members(v) \cup {u} ELSE Members(v)
         /\ \A v \in Workspace : Members(v)' \subseteq User
         /\ \A v \in Workspace, x \in User : Belongs(v, x) => Belongs(v, x)'
         /\ OnlyOwners' /\ MakerIsMember'
<1>1. member' = [member EXCEPT ![w] = [v \in DOMAIN @ \cup {u} |-> IF v = u THEN role ELSE @[v]]]
  BY DEF Join
<1>2. DOMAIN member = Workspace
  BY DEF SpaceInv, SpaceType
<1>3. member' = [v \in Workspace |-> member'[v]]
  BY <1>1, <1>2
<1>4. \A v \in Workspace : Members(v)' = IF v = w THEN Members(v) \cup {u} ELSE Members(v)
  BY <1>1, <1>2 DEF Members
<1>5. \A v \in Workspace : Members(v)' \subseteq User
  BY <1>4 DEF SpaceInv, SpaceType
<1>6. \A v \in Workspace, x \in User : Belongs(v, x) => Belongs(v, x)'
  BY <1>4 DEF Belongs
<1>7. OnlyOwners'
  BY <1>4 DEF SpaceInv, OnlyOwners
<1>8. MakerIsMember'
  <2> SUFFICES ASSUME NEW b \in Base, Is(base[b])
               PROVE  Is(ws[base[b].ws]) /\ base[b].user \in Members(base[b].ws)'
    BY DEF MakerIsMember
  <2>1. base[b].ws \in Workspace
    BY IsRow DEF SpaceInv, BaseRow
  <2>2. Is(ws[base[b].ws]) /\ base[b].user \in Members(base[b].ws)
    BY DEF SpaceInv, MakerIsMember
  <2>3. Members(base[b].ws) \subseteq DOMAIN member'[base[b].ws]
    BY <1>4, <2>1 DEF Members
  <2> QED
    BY <2>2, <2>3 DEF Members
<1> QED
  BY <1>3, <1>4, <1>5, <1>6, <1>7, <1>8

LEMMA CreateWorkspaceStep ==
  ASSUME SpaceInv, NEW q \in Request, NEW w \in Workspace, CreateWorkspace(q, w)
  PROVE  SpaceInv'
<1>1. /\ Ready(q, "in") /\ ws[w] = Never
      /\ UNCHANGED <<user, member, base, term, torn>>
      /\ By(q) \in User
  BY Carries DEF CreateWorkspace, content, SpaceInv, By
<1>2. CASE Finish(q) /\ UNCHANGED ws
  BY <1>1, <1>2, OnlyMoves, IdleIsVouched DEF Finish, Ready, spaces, content
<1>3. CASE /\ Is(user[By(q)])
           /\ ws' = [ws EXCEPT ![w] = [is |-> "row", owner |-> By(q)]]
           /\ Go(q, [at |-> "own", user |-> By(q), ws |-> w])
  <2> DEFINE space == [is |-> "row", owner |-> By(q)]
             own == [at |-> "own", user |-> By(q), ws |-> w]
  <2>1. space \in SpaceRow /\ own \in Owning /\ Is(space)
    BY <1>1, RowsAre DEF SpaceRow, Owning
  <2>2. /\ \A v \in Workspace : ws'[v] = IF v = w THEN space ELSE ws[v]
        /\ \A p \in Request : req'[p] = IF p = q THEN own ELSE req[p]
    BY <1>3 DEF SpaceInv, SpaceType, Go
  <2>3. SpaceType'
    BY <1>1, <1>3, <2>1 DEF SpaceInv, SpaceType, Go, Members
  <2>4. OwnersAct'
    <3> SUFFICES ASSUME NEW p \in Request, req'[p].at = "own"
                 PROVE  /\ ws'[req'[p].ws] # Never
                        /\ Is(ws'[req'[p].ws]) => ws'[req'[p].ws].owner = req'[p].user
      BY DEF OwnersAct, By, Ready
    <3>1. CASE p = q
      BY <2>1, <2>2, <3>1 DEF Is
    <3>2. CASE p # q
      <4>1. req'[p] = req[p] /\ Ready(p, "own") /\ req[p].ws \in Workspace
        BY <2>2, <3>2, Carries DEF Ready, SpaceInv, Owning
      <4>2. ws[req[p].ws] # Never /\ req[p].ws # w
        BY <1>1, <4>1 DEF SpaceInv, OwnersAct
      <4> QED
        BY <2>2, <4>1, <4>2 DEF SpaceInv, OwnersAct, By
    <3> QED
      BY <3>1, <3>2
  <2>5. OwnerIsMember'
    <3> SUFFICES ASSUME NEW v \in Workspace, Is(ws'[v]), v \notin torn,
                        ~(\E p \in Request : req'[p].at = "own" /\ req'[p].ws = v)
                 PROVE  ws'[v].owner \in Members(v)
      BY <1>1 DEF OwnerIsMember, Ready, Members
    <3>1. v # w
      BY <2>2
    <3>2. ~(\E p \in Request : Ready(p, "own") /\ req[p].ws = v)
      BY <1>1, <2>2 DEF Ready
    <3> QED
      BY <2>2, <3>1, <3>2 DEF SpaceInv, OwnerIsMember
  <2>6. \A v \in Workspace : ws[v] # Never => ws'[v] = ws[v]
    BY <1>1, <2>2
  <2>7. \A v \in Workspace, u \in User : Belongs(v, u) => Belongs(v, u)'
    BY <1>1, <2>6 DEF Belongs, Members
  <2>8. AskersBelong'
    BY <1>3, <2>1, <2>7, AskersStay DEF SpaceInv
  <2>9. \A v \in Workspace : Is(ws[v]) => Is(ws'[v]) /\ ws'[v] = ws[v]
    BY <2>6, RowsAre
  <2>10. OnlyOwners'
    BY <1>1, <2>9 DEF SpaceInv, OnlyOwners, Members
  <2>11. MakerIsMember'
    <3> SUFFICES ASSUME NEW b \in Base, Is(base[b])
                 PROVE  Is(ws'[base[b].ws]) /\ base[b].user \in Members(base[b].ws)
      BY <1>1 DEF MakerIsMember, Members
    <3>1. base[b].ws \in Workspace
      BY IsRow DEF SpaceInv, BaseRow
    <3> QED
      BY <2>9, <3>1 DEF SpaceInv, MakerIsMember
  <2> QED
    BY <2>3, <2>4, <2>5, <2>8, <2>10, <2>11 DEF SpaceInv
<1> QED
  BY <1>1, <1>2, <1>3 DEF CreateWorkspace

(* The owner joins, or the creation is torn. *)
LEMMA OwnStep ==
  ASSUME SpaceInv, NEW q \in Request, Own(q)
  PROVE  SpaceInv'
<1> DEFINE w == req[q].ws
<1>1. /\ Ready(q, "own") /\ Finish(q) /\ UNCHANGED <<user, ws, base, term>>
      /\ w \in Workspace /\ By(q) \in User
  BY Carries DEF Own, content, SpaceInv, By, Owning
<1>2. /\ req' \in [Request -> {Idle} \cup Working \cup Owning]
      /\ \A p \in Request : req'[p].at = "own" => p # q /\ req'[p] = req[p]
      /\ \A p \in Request \ {q} : req'[p] = req[p]
  BY <1>1 DEF Finish, Go, Idle, SpaceInv, SpaceType
<1>3. OwnersAct'
  BY <1>1, <1>2 DEF SpaceInv, OwnersAct, Ready, By
<1>4. \A v \in Workspace \ {w} :
        ~(\E p \in Request : req'[p].at = "own" /\ req'[p].ws = v)
          => ~(\E p \in Request : Ready(p, "own") /\ req[p].ws = v)
  BY <1>2 DEF Ready
<1>5. CASE Is(ws[w]) /\ Is(user[By(q)]) /\ Join(w, By(q), "WORKSPACE_MANAGE") /\ UNCHANGED torn
  <2>1. ws[w].owner = By(q)
    BY <1>1, <1>5 DEF SpaceInv, OwnersAct
  <2>2. /\ member' = [v \in Workspace |-> member'[v]]
        /\ \A v \in Workspace : Members(v)' = IF v = w THEN Members(v) \cup {By(q)} ELSE Members(v)
        /\ \A v \in Workspace : Members(v)' \subseteq User
        /\ \A v \in Workspace, x \in User : Belongs(v, x) => Belongs(v, x)'
        /\ OnlyOwners' /\ MakerIsMember'
    BY <1>1, <1>5, <2>1, Joined
  <2>3. SpaceType'
    BY <1>1, <1>2, <2>2 DEF SpaceInv, SpaceType
  <2>4. OwnerIsMember'
    BY <1>1, <1>4, <1>5, <2>1, <2>2 DEF SpaceInv, OwnerIsMember, Ready
  <2>5. AskersBelong'
    BY <1>1, <2>2, AskersStay, IdleIsVouched DEF Finish, SpaceInv
  <2> QED
    BY <1>3, <2>2, <2>3, <2>4, <2>5 DEF SpaceInv
<1>6. CASE torn' = torn \cup {w} /\ UNCHANGED member
  <2>1. SpaceType'
    BY <1>1, <1>2, <1>6 DEF SpaceInv, SpaceType, Members
  <2>2. OwnerIsMember'
    BY <1>1, <1>4, <1>6 DEF SpaceInv, OwnerIsMember, Ready, Members
  <2>3. OnlyOwners' /\ MakerIsMember'
    BY <1>1, <1>6 DEF SpaceInv, OnlyOwners, MakerIsMember, Members
  <2>4. \A v \in Workspace, x \in User : Belongs(v, x) => Belongs(v, x)'
    BY <1>1, <1>6 DEF Belongs, Members
  <2>5. AskersBelong'
    BY <1>1, <2>4, AskersStay, IdleIsVouched DEF Finish, SpaceInv
  <2> QED
    BY <1>3, <2>1, <2>2, <2>3, <2>5 DEF SpaceInv
<1> QED
  BY <1>5, <1>6 DEF Own

LEMMA PostMemberStep ==
  ASSUME SpaceInv, NEW q \in Request, NEW role \in Role, PostMember(q, role)
  PROVE  SpaceInv'
<1> DEFINE w == req[q].ws
<1>1. /\ Ready(q, "member") /\ Finish(q) /\ UNCHANGED <<user, ws, torn, base, term>>
      /\ w \in Workspace /\ By(q) \in User /\ ~Ready(q, "own")
  BY Carries DEF PostMember, content, SpaceInv, By, Ready
<1>2. CASE UNCHANGED member
  BY <1>1, <1>2, OnlyMoves, IdleIsVouched DEF Finish, spaces, content
<1>3. CASE Is(ws[w]) /\ Is(user[By(q)]) /\ Join(w, By(q), role)
  <2>1. By(q) \in Members(w)
    BY <1>1, <1>3 DEF SpaceInv, AskersBelong, Vouched, Belongs, Ready, By
  <2>2. By(q) = ws[w].owner
    BY <1>1, <2>1 DEF SpaceInv, OnlyOwners
  <2>3. /\ member' = [v \in Workspace |-> member'[v]]
        /\ \A v \in Workspace : Members(v)' = IF v = w THEN Members(v) \cup {By(q)} ELSE Members(v)
        /\ \A v \in Workspace : Members(v)' \subseteq User
        /\ \A v \in Workspace, x \in User : Belongs(v, x) => Belongs(v, x)'
        /\ OnlyOwners' /\ MakerIsMember'
    BY <1>1, <1>3, <2>2, Joined
  <2>4. /\ req' \in [Request -> {Idle} \cup Working \cup Owning]
        /\ \A p \in Request : Ready(p, "own")' <=> Ready(p, "own")
        /\ \A p \in Request : Ready(p, "own") => req'[p] = req[p]
    BY <1>1, OwnersStay DEF Finish, SpaceInv
  <2>5. SpaceType'
    BY <1>1, <2>3, <2>4 DEF SpaceInv, SpaceType
  <2>6. OwnersAct'
    BY <1>1, <2>4 DEF SpaceInv, OwnersAct, By
  <2>7. OwnerIsMember'
    BY <1>1, <2>3, <2>4 DEF SpaceInv, OwnerIsMember
  <2>8. AskersBelong'
    BY <1>1, <2>3, AskersStay, IdleIsVouched DEF Finish, SpaceInv
  <2> QED
    BY <2>3, <2>5, <2>6, <2>7, <2>8 DEF SpaceInv
<1> QED
  BY <1>1, <1>2, <1>3 DEF PostMember

-----------------------------------------------------------------------------
(* Bases and terms.                                                        *)

(* A request that writes bases or terms and is over. *)
LEMMA ContentWritten ==
  ASSUME SpaceInv, NEW q \in Request, ~Ready(q, "own"), Finish(q), UNCHANGED <<user, spaces>>,
         base' \in [Base -> BaseRow \cup {Never, Gone}],
         term' \in [Term -> TermRow \cup {Never, Gone}],
         \A b \in Base :
           Is(base'[b]) => Is(ws[base'[b].ws]) /\ base'[b].user \in Members(base'[b].ws)
  PROVE  SpaceInv'
<1>1. UNCHANGED <<ws, member, torn>>
  BY DEF spaces
<1>2. SpaceType'
  BY <1>1, OwnersStay DEF Finish, SpaceInv, SpaceType, Members
<1>3. MakerIsMember'
  BY <1>1 DEF MakerIsMember, Members
<1> QED
  BY <1>2, <1>3, SpacesStay, IdleIsVouched DEF Finish, SpaceInv

(* A base that is written for a member of its workspace. *)
LEMMA BaseWritten ==
  ASSUME SpaceInv, NEW q \in Request, ~Ready(q, "own"), Finish(q),
         UNCHANGED <<user, spaces, term>>, NEW b \in Base, NEW saved \in BaseRow,
         Is(ws[saved.ws]), saved.user \in Members(saved.ws), base' = [base EXCEPT ![b] = saved]
  PROVE  SpaceInv'
<1>1. /\ base' \in [Base -> BaseRow \cup {Never, Gone}]
      /\ term' \in [Term -> TermRow \cup {Never, Gone}]
  BY DEF SpaceInv, SpaceType
<1>2. \A c \in Base : base'[c] = IF c = b THEN saved ELSE base[c]
  BY DEF SpaceInv, SpaceType
<1>3. \A c \in Base :
        Is(base'[c]) => Is(ws[base'[c].ws]) /\ base'[c].user \in Members(base'[c].ws)
  BY <1>2 DEF SpaceInv, MakerIsMember
<1> QED
  BY <1>1, <1>3, ContentWritten

LEMMA PostBaseStep ==
  ASSUME SpaceInv, NEW q \in Request, NEW b \in Base, PostBase(q, b)
  PROVE  SpaceInv'
<1> DEFINE saved == [is |-> req[q].kind, ws |-> req[q].ws, user |-> By(q)]
<1>1. /\ Ready(q, "base") /\ ~Ready(q, "own") /\ Finish(q) /\ UNCHANGED <<user, spaces, term>>
      /\ req[q] \in [at : {"base"}, user : User, ws : Workspace, kind : {"knowledge", "termbase"}]
  BY Carries DEF PostBase, SpaceInv, Ready
<1>2. saved \in BaseRow
  BY <1>1 DEF BaseRow, By
<1>3. CASE Is(ws[req[q].ws]) /\ Is(user[By(q)])
  <2>1. base' = [base EXCEPT ![b] = saved]
    BY <1>3 DEF PostBase
  <2>2. saved.user \in Members(saved.ws)
    BY <1>1, <1>3 DEF SpaceInv, AskersBelong, Vouched, Belongs, Ready, By
  <2> QED
    BY <1>1, <1>2, <1>3, <2>1, <2>2, BaseWritten
<1>4. CASE ~(Is(ws[req[q].ws]) /\ Is(user[By(q)]))
  <2>1. base' = base
    BY <1>4 DEF PostBase
  <2> QED
    BY <1>1, <2>1, OnlyMoves, IdleIsVouched DEF Finish, spaces, content
<1> QED
  BY <1>3, <1>4

LEMMA SaveBaseStep ==
  ASSUME SpaceInv, NEW q \in Request, SaveBase(q)
  PROVE  SpaceInv'
<1> DEFINE saved == req[q].row
<1>1. /\ Ready(q, "put base") /\ ~Ready(q, "own") /\ Finish(q) /\ UNCHANGED <<user, spaces, term>>
      /\ req[q].base \in Base /\ saved \in BaseRow
  BY Carries DEF SaveBase, SpaceInv, Ready
<1>2. CASE Is(ws[saved.ws]) /\ Is(user[saved.user])
  <2>1. base' = [base EXCEPT ![req[q].base] = saved]
    BY <1>2 DEF SaveBase
  <2>2. saved.user \in Members(saved.ws)
    BY <1>1, <1>2 DEF SpaceInv, AskersBelong, Vouched, Belongs, Ready
  <2> QED
    BY <1>1, <1>2, <2>1, <2>2, BaseWritten
<1>3. CASE ~(Is(ws[saved.ws]) /\ Is(user[saved.user]))
  <2>1. base' = base
    BY <1>3 DEF SaveBase
  <2> QED
    BY <1>1, <2>1, OnlyMoves, IdleIsVouched DEF Finish, spaces, content
<1> QED
  BY <1>2, <1>3

(* A term base goes, and its terms. *)
LEMMA DeleteTermbaseStep ==
  ASSUME SpaceInv, NEW q \in Request, NEW b \in Base, DeleteTermbase(q, b)
  PROVE  SpaceInv'
<1>1. /\ ~Ready(q, "own") /\ Finish(q) /\ UNCHANGED <<user, spaces>>
      /\ base' = [base EXCEPT ![b] = Gone]
      /\ term' = [t \in Term |-> IF Is(term[t]) /\ term[t].base = b THEN Gone ELSE term[t]]
  BY DEF DeleteTermbase, Ready
<1>2. /\ base' \in [Base -> BaseRow \cup {Never, Gone}]
      /\ term' \in [Term -> TermRow \cup {Never, Gone}]
  BY <1>1 DEF SpaceInv, SpaceType
<1>3. \A c \in Base : base'[c] = IF c = b THEN Gone ELSE base[c]
  BY <1>1 DEF SpaceInv, SpaceType
<1>4. \A c \in Base :
        Is(base'[c]) => Is(ws[base'[c].ws]) /\ base'[c].user \in Members(base'[c].ws)
  BY <1>3, RowsAre DEF SpaceInv, MakerIsMember
<1> QED
  BY <1>1, <1>2, <1>4, ContentWritten

(* A request that writes terms and is over. *)
LEMMA TermWritten ==
  ASSUME SpaceInv, NEW q \in Request, ~Ready(q, "own"), Finish(q),
         UNCHANGED <<user, spaces, base>>, term' \in [Term -> TermRow \cup {Never, Gone}]
  PROVE  SpaceInv'
<1>1. base' \in [Base -> BaseRow \cup {Never, Gone}]
  BY DEF SpaceInv, SpaceType
<1>2. \A b \in Base :
        Is(base'[b]) => Is(ws[base'[b].ws]) /\ base'[b].user \in Members(base'[b].ws)
  BY DEF SpaceInv, MakerIsMember
<1> QED
  BY <1>1, <1>2, ContentWritten

LEMMA PostTermStep ==
  ASSUME SpaceInv, NEW q \in Request, NEW t \in Term, PostTerm(q, t)
  PROVE  SpaceInv'
<1> DEFINE saved == [is |-> "term", base |-> req[q].base]
<1>1. /\ ~Ready(q, "own") /\ Finish(q) /\ UNCHANGED <<user, spaces, base>>
      /\ req[q].base \in Base
  BY Carries DEF PostTerm, SpaceInv, Ready
<1>2. term' = [term EXCEPT ![t] = saved] \/ term' = term
  BY DEF PostTerm
<1>3. saved \in TermRow
  BY <1>1 DEF TermRow
<1>4. term' \in [Term -> TermRow \cup {Never, Gone}]
  BY <1>2, <1>3 DEF SpaceInv, SpaceType
<1> QED
  BY <1>1, <1>4, TermWritten

LEMMA DeleteTermStep ==
  ASSUME SpaceInv, NEW q \in Request, NEW t \in Term, DeleteTerm(q, t)
  PROVE  SpaceInv'
<1>1. /\ ~Ready(q, "own") /\ Finish(q) /\ UNCHANGED <<user, spaces, base>>
      /\ term' = [term EXCEPT ![t] = Gone]
  BY DEF DeleteTerm, Ready
<1>2. term' \in [Term -> TermRow \cup {Never, Gone}]
  BY <1>1 DEF SpaceInv, SpaceType
<1> QED
  BY <1>1, <1>2, TermWritten

-----------------------------------------------------------------------------
(* All requests.                                                           *)

LEMMA UsersStep ==
  ASSUME SpaceInv, ManageUsers
  PROVE  SpaceInv'
<1>1. ASSUME NEW u \in User, Register(u) PROVE SpaceInv'
  BY <1>1, RegisterStep
<1>2. ASSUME NEW u \in User, NEW q \in Request, Enter(q, u) PROVE SpaceInv'
  <2> DEFINE r == [at |-> "in", user |-> u, role |-> user[u].role]
  <2>1. user[u] \in UserRow /\ Go(q, r) /\ req[q] = Idle
    BY <1>2, IsRow DEF Enter, Active, SpaceInv
  <2>2. user[u].role \in Role /\ ~Ready(q, "own")
    BY <2>1 DEF UserRow, Idle, Ready
  <2>3. r \in Working
    BY <2>2 DEF Working
  <2>4. Vouched(r)
    BY DEF Vouched
  <2> QED
    BY <1>2, <2>1, <2>2, <2>3, <2>4, OnlyMoves DEF Enter
<1>3. ASSUME NEW q \in Request, SaveUser(q) PROVE SpaceInv'
  <2>1. /\ ~Ready(q, "own") /\ Finish(q) /\ UNCHANGED <<spaces, content>>
        /\ req[q].of \in User /\ req[q].row \in UserRow
    BY <1>3, Carries DEF SaveUser, SpaceInv, Ready
  <2>2. PICK role \in Role, active \in BOOLEAN :
          user' = [user EXCEPT ![req[q].of] = [req[q].row EXCEPT !.role = role, !.active = active]]
    BY <1>3 DEF SaveUser
  <2>3. [req[q].row EXCEPT !.role = role, !.active = active] \in UserRow
    BY <2>1 DEF UserRow
  <2> QED
    BY <2>1, <2>2, <2>3, UserSaved
<1>4. ASSUME NEW q \in Request, NEW u \in User, ReadUser(q, u) PROVE SpaceInv'
  <2> DEFINE r == [at |-> "put user", of |-> u, row |-> user[u]]
  <2>1. r \in Working /\ Go(q, r) /\ ~Ready(q, "own")
    BY <1>4, IsRow DEF ReadUser, SpaceInv, Working, Ready
  <2>2. Vouched(r)
    BY DEF Vouched
  <2> QED
    BY <1>4, <2>1, <2>2, OnlyMoves DEF ReadUser
<1>5. ASSUME NEW q \in Request, NEW u \in User, NEW role \in Role, PostUser(q, u, role)
      PROVE  SpaceInv'
  <2>1. Account(role) \in UserRow
    BY DEF Account, UserRow
  <2> QED
    BY <1>5, <2>1, UserSaved DEF PostUser, Ready
<1>6. ASSUME NEW q \in Request, NEW us \in SUBSET User, BatchDelete(q, us) PROVE SpaceInv'
  BY <1>6, BatchDeleteStep
<1> QED
  BY <1>1, <1>2, <1>3, <1>4, <1>5, <1>6 DEF ManageUsers

LEMMA SpacesStep ==
  ASSUME SpaceInv, ManageSpaces
  PROVE  SpaceInv'
<1>1. ASSUME NEW q \in Request, NEW w \in Workspace, CheckManager(q, w) PROVE SpaceInv'
  <2> DEFINE r == [at |-> "member", user |-> By(q), ws |-> w]
  <2>1. r \in Working /\ Go(q, r) /\ ~Ready(q, "own")
    BY <1>1, Carries DEF CheckManager, SpaceInv, Working, Ready, By
  <2>2. Vouched(r)
    BY <1>1, RowsAre DEF CheckManager, EnsureMember, Vouched, Belongs
  <2> QED
    BY <1>1, <2>1, <2>2, OnlyMoves DEF CheckManager
<1> QED
  BY <1>1, CreateWorkspaceStep, OwnStep, PostMemberStep DEF ManageSpaces

LEMMA ContentStep ==
  ASSUME SpaceInv, ManageContent
  PROVE  SpaceInv'
<1>1. ASSUME NEW q \in Request, NEW w \in Workspace, NEW kind \in {"knowledge", "termbase"},
             CheckSpace(q, w, kind)
      PROVE  SpaceInv'
  <2> DEFINE r == [at |-> "base", user |-> By(q), ws |-> w, kind |-> kind]
  <2>1. r \in Working /\ Go(q, r) /\ ~Ready(q, "own")
    BY <1>1, Carries DEF CheckSpace, SpaceInv, Working, Ready, By
  <2>2. Vouched(r)
    BY <1>1, RowsAre DEF CheckSpace, EnsureMember, Vouched, Belongs
  <2> QED
    BY <1>1, <2>1, <2>2, OnlyMoves DEF CheckSpace
<1>2. ASSUME NEW q \in Request, NEW b \in Base, NEW next \in {"term", "put base"},
             CheckBase(q, b, next)
      PROVE  SpaceInv'
  <2> DEFINE r == [at |-> next, user |-> By(q), base |-> b, row |-> base[b]]
  <2>1. base[b] \in BaseRow /\ By(q) \in User /\ Go(q, r) /\ ~Ready(q, "own")
    BY <1>2, Carries, IsRow DEF CheckBase, SpaceInv, Ready, By
  <2>2. r \in Working
    BY <2>1 DEF Working
  <2>3. Is(ws[base[b].ws]) /\ base[b].user \in Members(base[b].ws)
    BY <1>2 DEF CheckBase, SpaceInv, MakerIsMember
  <2>4. Vouched(r)
    BY <2>3, RowsAre DEF Vouched, Belongs
  <2> QED
    BY <1>2, <2>1, <2>2, <2>4, OnlyMoves DEF CheckBase
<1> QED
  BY <1>1, <1>2, PostBaseStep, DeleteTermbaseStep, PostTermStep, DeleteTermStep, SaveBaseStep
     DEF ManageContent

LEMMA SpaceStep ==
  ASSUME SpaceInv, Next \/ UNCHANGED vars
  PROVE  SpaceInv'
<1>1. ASSUME NEW q \in Request, Leave(q) PROVE SpaceInv'
  BY <1>1, OnlyMoves, IdleIsVouched DEF Leave, Finish
<1>2. CASE UNCHANGED vars
  BY <1>2 DEF vars, spaces, content, SpaceInv, SpaceType, OwnersAct, OwnerIsMember,
              OnlyOwners, AskersBelong, MakerIsMember, Vouched, Belongs, Members, Ready, By
<1> QED
  BY <1>1, <1>2, UsersStep, SpacesStep, ContentStep DEF Next

LEMMA SpaceInvariant == Spec => []SpaceInv
<1>1. Init => SpaceInv
  <2> SUFFICES ASSUME Init PROVE SpaceInv
    OBVIOUS
  <2>1. Account("ADMIN") \in UserRow
    BY DEF Account, UserRow, Role
  <2>2. SpaceType
    BY <2>1 DEF Init, SpaceType, Members
  <2>3. OwnersAct
    BY DEF Init, OwnersAct, Ready, Idle
  <2>4. OwnerIsMember /\ OnlyOwners /\ MakerIsMember
    BY RowsAre DEF Init, OwnerIsMember, OnlyOwners, MakerIsMember, Members
  <2>5. AskersBelong
    BY IdleIsVouched DEF Init, AskersBelong
  <2> QED
    BY <2>2, <2>3, <2>4, <2>5 DEF SpaceInv
<1>2. SpaceInv /\ [Next]_vars => SpaceInv'
  BY SpaceStep
<1> QED
  BY <1>1, <1>2, PTL DEF Spec

(***************************************************************************)
(* A workspace whose creation was completed has its owner as a member, for *)
(* every number of users, workspaces and requests at once.                 *)
(***************************************************************************)
THEOREM OwnersBelong == Spec => []OwnerIsMember
<1>1. SpaceInv => OwnerIsMember
  BY DEF SpaceInv
<1> QED
  BY <1>1, SpaceInvariant, PTL

(***************************************************************************)
(* Who made a base is a member of its workspace, whatever the requests in  *)
(* flight have looked up before users and workspaces went and users came   *)
(* back.                                                                   *)
(***************************************************************************)
THEOREM MakersBelong == Spec => []MakerIsMember
<1>1. SpaceInv => MakerIsMember
  BY DEF SpaceInv
<1> QED
  BY <1>1, SpaceInvariant, PTL
================================================================================
