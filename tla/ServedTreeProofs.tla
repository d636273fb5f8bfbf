--------------------------- MODULE ServedTreeProofs ---------------------------
(***************************************************************************)
(* Proofs about the served tree, for any locations, requests and reads.    *)
(*                                                                         *)
(* The composition implements TreeCache: each of its steps is one of       *)
(* TreeCache's or leaves TreeCache's variables alone. So what is proved of *)
(* TreeCache holds here, and the rest is about the contents: a tree that   *)
(* is up to date by the count of mutations shows the table.                *)
(***************************************************************************)
EXTENDS ServedTree, TLAPS

CacheProofs == INSTANCE TreeCacheProofs WITH tree <- version, Writers <- Requests, pc <- rpc

\* The composition starts as TreeCache does, and steps as it may.
THEOREM ServedTreeImplementsCache ==
    ServedSpec => Cache!Spec
<1>1. ServedInit => Cache!Init
    BY DEF ServedInit
<1>2. ASSUME [ServedNext]_servedVars PROVE [Cache!Next]_(Cache!vars)
    <2>1. ASSUME NEW q \in Requests, Mutate(q) PROVE [Cache!Next]_(Cache!vars)
        BY <2>1 DEF Mutate, serving, Cache!Next, Cache!WriterStep, Cache!vars, Cache!redis,
            Cache!reader, Cache!writer, Cache!history
    <2>2. ASSUME NEW q \in Requests, Invalidate(q) PROVE Cache!Next
        BY <2>2 DEF Invalidate, Cache!Next
    <2>3. ASSUME NEW r \in Readers, Read(r) PROVE Cache!Next
        BY <2>3 DEF Read, Get, Build, Cache!Next, Cache!ReaderStep
    <2>4. ASSUME NEW p \in Params, Expire(p) PROVE Cache!Next
        BY <2>4 DEF Expire, Cache!Next, Cache!Expiry
    <2>5. ASSUME ExpireLocks PROVE Cache!Next
        BY <2>5 DEF ExpireLocks, Cache!Next, Cache!Expiry
    <2>6. ASSUME UNCHANGED serving PROVE UNCHANGED Cache!vars
        BY <2>6 DEF serving, Cache!vars, Cache!redis, Cache!reader, Cache!writer, Cache!history
    <2>7. QED
        BY <1>2, <2>1, <2>2, <2>3, <2>4, <2>5, <2>6
        DEF ServedNext, servedVars, ChangeType, ChangeDepartment
<1>3. QED BY <1>1, <1>2, PTL DEF ServedSpec, Cache!Spec

\* TreeCache's inductive invariant holds of the served tree.
LEMMA ServedCacheInvariant ==
    ServedSpec => []Cache!CacheInv
<1> USE ParamAssumption, FaultAssumption DEF
    Cache!vars, CacheProofs!vars, Cache!redis, CacheProofs!redis,
    Cache!reader, CacheProofs!reader, Cache!writer, CacheProofs!writer,
    Cache!history, CacheProofs!history, Cache!AllFaults,
    CacheProofs!AllFaults, Cache!TypeOK, CacheProofs!TypeOK, Cache!Cached,
    CacheProofs!Cached, Cache!Steps, CacheProofs!Steps, Cache!WriterSteps,
    CacheProofs!WriterSteps, Cache!Rebuilding, CacheProofs!Rebuilding,
    Cache!Invalidating, CacheProofs!Invalidating, Cache!Clean,
    CacheProofs!Clean, Cache!Complete, CacheProofs!Complete,
    Cache!NoWriterFailed, CacheProofs!NoWriterFailed,
    Cache!EntriesHaveAuthors, CacheProofs!EntriesHaveAuthors,
    Cache!RebuildsAreCurrent, CacheProofs!RebuildsAreCurrent,
    Cache!TagsReachTrees, CacheProofs!TagsReachTrees,
    Cache!CleanTreesAreCurrent, CacheProofs!CleanTreesAreCurrent,
    Cache!Holders, CacheProofs!Holders, Cache!LockHasOneHolder,
    CacheProofs!LockHasOneHolder, Cache!CacheInv, CacheProofs!CacheInv
<1>1. Cache!Init => Cache!CacheInv
    BY CacheProofs!CacheInit DEF Cache!Init, CacheProofs!Init
<1>2. Cache!CacheInv /\ [Cache!Next]_(Cache!vars) => Cache!CacheInv'
    BY CacheProofs!CacheStep DEF
    Cache!Get, CacheProofs!Get, Cache!Hit, CacheProofs!Hit, Cache!Goto,
    CacheProofs!Goto, Cache!SetLock, CacheProofs!SetLock, Cache!Poll,
    CacheProofs!Poll, Cache!Build, CacheProofs!Build, Cache!BuildFails,
    CacheProofs!BuildFails, Cache!Leave, CacheProofs!Leave, Cache!Entry,
    CacheProofs!Entry, Cache!SetValue, CacheProofs!SetValue, Cache!AddTag,
    CacheProofs!AddTag, Cache!ExpireTag, CacheProofs!ExpireTag, Cache!Unlock, CacheProofs!Unlock,
    Cache!ReadRedisError, CacheProofs!ReadRedisError, Cache!PipelineError,
    CacheProofs!PipelineError, Cache!ReaderCrash, CacheProofs!ReaderCrash,
    Cache!Ended, CacheProofs!Ended, Cache!WGoto, CacheProofs!WGoto,
    Cache!Save, CacheProofs!Save, Cache!ReadTag, CacheProofs!ReadTag,
    Cache!DeleteKeys, CacheProofs!DeleteKeys, Cache!DeleteTag,
    CacheProofs!DeleteTag, Cache!WriteRedisError, CacheProofs!WriteRedisError,
    Cache!WriterCrash, CacheProofs!WriterCrash, Cache!ValueExpires,
    CacheProofs!ValueExpires, Cache!TagExpires, CacheProofs!TagExpires,
    Cache!RebuildLockExpires, CacheProofs!RebuildLockExpires,
    Cache!ReaderStep, CacheProofs!ReaderStep, Cache!WriterStep,
    CacheProofs!WriterStep, Cache!ReaderFault, CacheProofs!ReaderFault,
    Cache!WriterFault, CacheProofs!WriterFault, Cache!Expiry,
    CacheProofs!Expiry, Cache!Next, CacheProofs!Next
<1>3. Cache!Spec => []Cache!CacheInv
    BY <1>1, <1>2, PTL DEF Cache!Spec
<1>4. QED BY <1>3, ServedTreeImplementsCache, PTL

\* Only a save or a removal changes the locations, and its request is answered
\* 200 or 204 for it.
LEMMA ChangesAreAccepted ==
    ASSUME NEW q \in Requests, Change(q), DOMAIN code = Requests, rows' # rows
    PROVE  Accepted(q) /\ pc[q] \in {"save", "delete"}
<1> USE DEF Fail, Pass, Goto, Keep, tables, Accepted
<1>1. ASSUME Save(q) PROVE Accepted(q) /\ pc[q] = "save"
    BY <1>1 DEF Save
<1>2. ASSUME SoftRemove(q) PROVE Accepted(q) /\ pc[q] = "delete"
    BY <1>2 DEF SoftRemove
<1>3. QED BY <1>1, <1>2 DEF Change, FindParent, FindNode, AssertNumberFree, AssertNoCycle,
    FindNewParent, AssertPlacementAllowed, ApplyBookableFields, ResolveDepartments, CountChildren

LEMMA AnswersStay ==
    ASSUME NEW q \in Requests, Change(q) PROVE DOMAIN code' = DOMAIN code
<1> USE DEF Fail, Pass, Goto, Keep
<1>1. ASSUME Save(q) PROVE DOMAIN code' = DOMAIN code
    BY <1>1 DEF Save
<1>2. QED BY <1>1 DEF Change, FindParent, FindNode, AssertNumberFree, AssertNoCycle,
    FindNewParent, AssertPlacementAllowed, ApplyBookableFields, ResolveDepartments, CountChildren,
    SoftRemove

\* What a tree shows depends on the locations alone.
LEMMA TreeOfTable ==
    ASSUME UNCHANGED rows, NEW p PROVE BuildTree(p)' = BuildTree(p)
BY DEF BuildTree, Subtree, Start, Matches, Live

LEMMA ContentStep ==
    Cache!CacheInv /\ ContentInv /\ [ServedNext]_servedVars => ContentInv'
<1> SUFFICES ASSUME Cache!CacheInv, ContentInv, [ServedNext]_servedVars PROVE ContentInv'
    OBVIOUS
<1> DEFINE Shown(r) == value[r] = version => built[r] = BuildTree(param[r])
<1>a. Cache!TypeOK /\ Cache!EntriesHaveAuthors
    BY DEF Cache!CacheInv
<1> USE DEF Cache!TypeOK, Cache!Cached, Cache!Goto, Cache!Leave
\* A step that adds no author, builds nothing and leaves the locations alone.
<1>q. ASSUME UNCHANGED <<rows, recoded, built, version, value, param>>, DOMAIN code' = DOMAIN code,
             Authors' \subseteq Authors
      PROVE  ContentInv'
    BY <1>q, TreeOfTable DEF ContentInv
\* The save of a location makes every cached tree one of an earlier version.
<1>1. ASSUME NEW q \in Requests, Mutate(q) PROVE ContentInv'
    <2>1. DOMAIN code' = Requests
        BY <1>1, AnswersStay DEF Mutate, ContentInv
    <2>2. CASE Accepted(q) /\ pc[q] \in {"save", "delete"}
        <3>1. Cache!Save(q) /\ UNCHANGED <<built, recoded>>
            BY <1>1, <2>2 DEF Mutate
        <3>2. UNCHANGED <<cache, rpc, value, param>> /\ version' = version + 1
            BY <3>1 DEF Cache!Save, Cache!redis, Cache!reader
        <3>3. Authors' = Authors
            BY <3>2 DEF Authors
        <3>4. QED BY <1>a, <2>1, <3>1, <3>2, <3>3 DEF ContentInv, Authors
    <2>3. CASE ~(Accepted(q) /\ pc[q] \in {"save", "delete"})
        <3>1. UNCHANGED <<rows, serving, built, recoded>>
            BY <1>1, <2>3, ChangesAreAccepted DEF Mutate, ContentInv
        <3>2. QED BY <1>q, <2>1, <3>1 DEF ContentInv, serving, Authors
    <2>4. QED BY <2>2, <2>3
<1>2. ASSUME NEW q \in Requests, Invalidate(q) PROVE ContentInv'
    BY <1>2, <1>q, <1>a DEF Invalidate, table, vars, tables, requests, Authors, Cache!WriterStep,
        Cache!WriterFault, Cache!Save, Cache!ReadTag, Cache!DeleteKeys, Cache!DeleteTag,
        Cache!WriteRedisError, Cache!WriterCrash, Cache!WGoto, Cache!redis, Cache!reader,
        Cache!history
\* If the locations change, that is recorded.
<1>3. ASSUME NEW t \in TypeRequests, ChangeType(t) PROVE ContentInv'
    <2>1. UNCHANGED <<serving, built, code>> /\ recoded' \in BOOLEAN
        BY <1>3 DEF ChangeType, BeginType, CheckType, WriteType, requests, ContentInv
    <2>2. Authors' = Authors
        BY <2>1 DEF Authors, serving
    <2>3. CASE recoded'
        BY <2>1, <2>2, <2>3, <1>a DEF ContentInv, serving
    <2>4. CASE ~recoded'
        BY <1>3, <2>1, <2>2, <2>4, <1>q DEF ContentInv, ChangeType, serving
    <2>5. QED BY <2>3, <2>4
<1>4. ASSUME NEW d \in Departments, ChangeDepartment(d) PROVE ContentInv'
    BY <1>4, <1>q DEF ChangeDepartment, RemoveDepartment, AddDepartment, requests, serving, Authors
\* The read becomes an author here, with the version the table has now.
<1>5. ASSUME NEW r \in Readers, Build(r) PROVE ContentInv'
    <2>1. /\ UNCHANGED <<rows, recoded, code, version, cache, param>>
          /\ value' = [value EXCEPT ![r] = version]
          /\ built' = [built EXCEPT ![r] = BuildTree(param[r])]
          /\ rpc' = [rpc EXCEPT ![r] = "set"]
        BY <1>5 DEF Build, Cache!Build, Cache!redis, table, vars, tables, requests
    <2>2. Authors' \subseteq Authors \cup {r}
        BY <2>1, <1>a DEF Authors
    <2>3. QED BY <1>a, <2>1, <2>2, TreeOfTable DEF ContentInv, Authors
<1>6. ASSUME NEW r \in Readers, Read(r), ~Build(r) PROVE ContentInv'
    <2>1. UNCHANGED <<table, built, version, value, param>>
        BY <1>6 DEF Read, Get, Cache!Get, Cache!SetLock, Cache!Poll, Cache!SetValue, Cache!AddTag,
            Cache!ExpireTag, Cache!Unlock, Cache!ReaderFault, Cache!BuildFails, Cache!ReadRedisError,
            Cache!PipelineError, Cache!ReaderCrash, Cache!reader
    <2>2. Authors' \subseteq Authors
        <3>1. CASE Cache!SetValue(r)
            BY <3>1, <1>a DEF Cache!SetValue, Cache!Entry, Authors
        <3>2. CASE ~Cache!SetValue(r)
            BY <1>6, <3>2, <1>a DEF Authors, Read, Get, Cache!Get, Cache!Hit, Cache!SetLock,
                Cache!Poll, Cache!AddTag, Cache!ExpireTag, Cache!Unlock, Cache!ReaderFault, Cache!BuildFails,
                Cache!ReadRedisError, Cache!PipelineError, Cache!ReaderCrash, Cache!Ended,
                Cache!reader, Cache!redis
        <3>3. QED BY <3>1, <3>2
    <2>3. QED BY <1>q, <2>1, <2>2 DEF table, vars, tables, requests
<1>7. ASSUME NEW p \in Params, Expire(p) PROVE ContentInv'
    BY <1>7, <1>q, <1>a DEF Expire, Cache!ValueExpires, Cache!reader, table, vars, tables, requests,
        Authors
<1>8. ASSUME ExpireLocks PROVE ContentInv'
    BY <1>8, <1>q DEF ExpireLocks, Cache!TagExpires, Cache!RebuildLockExpires, Cache!reader,
        table, vars, tables, requests, Authors
<1>9. ASSUME UNCHANGED servedVars PROVE ContentInv'
    BY <1>9, <1>q DEF servedVars, serving, table, vars, tables, requests, Authors
<1>10. QED BY <1>1, <1>2, <1>3, <1>4, <1>5, <1>6, <1>7, <1>8, <1>9 DEF ServedNext

\* A tree of the table's version is the table's tree, and TreeCache's invariant
\* says which entries are of that version.
THEOREM CleanTreesShowTableHolds ==
    ServedSpec => []CleanTreesShowTable
<1>1. ASSUME ServedInit PROVE ContentInv
    <2>1. Authors = {}
        BY <1>1 DEF ServedInit, Cache!Init, Authors
    <2>2. DOMAIN code = Requests /\ DOMAIN built = Readers /\ recoded = FALSE
        BY <1>1 DEF ServedInit, Init
    <2>3. QED BY <2>1, <2>2 DEF ContentInv
<1>2. ASSUME Cache!CacheInv, ContentInv PROVE CleanTreesShowTable
    <2> SUFFICES ASSUME NEW p \in Params, cache[p] # NoValue, Cache!Invalidating = {},
                        cache[p].by \notin met \cup failed, failed \cap Requests = {}, ~recoded
                 PROVE  Content(p) = BuildTree(p)
        BY DEF CleanTreesShowTable, ServesTable
    <2> DEFINE b == cache[p].by
    <2>1. b \in Authors /\ param[b] = p /\ cache[p].tree = value[b]
        BY <1>2 DEF Cache!CacheInv, Cache!TypeOK, Cache!Cached, Cache!EntriesHaveAuthors, Authors
    <2>2. value[b] = version
        BY <1>2, <2>1 DEF Cache!CacheInv, Cache!CleanTreesAreCurrent, Cache!NoWriterFailed,
            Cache!Clean
    <2>3. QED BY <1>2, <2>1, <2>2 DEF ContentInv, Content
<1>3. QED BY <1>1, <1>2, ServedCacheInvariant, ContentStep, PTL DEF ServedSpec
==============================================================================
