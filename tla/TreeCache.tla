------------------------------ MODULE TreeCache ------------------------------
(***************************************************************************)
(* The cached location tree: RedisCacheService.remember, setTagged and     *)
(* invalidateTag (src/src/shared/cache/redis.adapter.ts) as                *)
(* LocationService.getTree and the location mutations call them, one       *)
(* action per Redis command or statement.                                  *)
(*                                                                         *)
(* The content of the tree is the number of mutations it shows. ioredis    *)
(* sends a pipeline as separate commands: those of other clients may come  *)
(* between them, and exec() resolves although one of them has failed.      *)
(***************************************************************************)
EXTENDS Naturals

CONSTANTS
    Readers,        \* the GET /locations/tree requests
    Writers,        \* the requests that create, change or remove a location
    Params,         \* rootId and type: one cache key for each
    PollAttempts,   \* REBUILD_WAIT_ATTEMPTS
    Faults,         \* what may go wrong, a subset of AllFaults
    NoValue         \* null

AllFaults == {
    "crash",        \* an API process dies between two steps
    "dberror",      \* buildTree's query fails
    "rediserror",   \* Redis answers a command with an error
    "slowrebuild"}  \* a rebuild takes longer than REBUILD_LOCK_TTL_SEC

ASSUME CacheAssumption ==
    /\ PollAttempts \in Nat \ {0}
    /\ Faults \subseteq AllFaults
    /\ Readers \cap Writers = {}

VARIABLES
    tree,                           \* the locations table
    cache, tag, rebuildLock,        \* Redis: location:tree:*, tag:location, lock:rebuild:*
    tagTtl,                         \* the tag set has a time to live
    pc, param, locked, polls, value,    \* getTree: next step, key, lock taken, polls, tree built
    wpc, members,                   \* mutation: next step, keys SMEMBERS returned
    met, failed, late, old          \* what has happened, for the properties

redis   == <<cache, tag, rebuildLock, tagTtl>>
reader  == <<pc, param, locked, polls, value>>
writer  == <<wpc, members>>
history == <<met, failed, late, old>>
vars    == <<tree, redis, reader, writer, history>>

\* A cached tree, and the request that cached it.
Cached == [tree : Nat, by : Readers]

Steps == {"get", "lock", "poll", "build", "set", "tag", "expire", "unlock", "done", "failed",
          "crashed"}

WriterSteps == {"save", "members", "del", "deltag", "done", "crashed"}

\* From buildTree to the SADD of setTagged.
Rebuilding == {r \in Readers : pc[r] \in {"set", "tag"}}

\* From the commit to the last command of invalidateTag.
Invalidating == {w \in Writers : wpc[w] \in {"members", "del", "deltag"}}

Init ==
    /\ tree = 0
    /\ cache = [p \in Params |-> NoValue]
    /\ tag = {} /\ tagTtl = FALSE
    /\ rebuildLock = [p \in Params |-> FALSE]
    /\ pc = [r \in Readers |-> "get"]
    /\ param \in [Readers -> Params]
    /\ locked = [r \in Readers |-> FALSE]
    /\ polls = [r \in Readers |-> 0]
    /\ value = [r \in Readers |-> 0]
    /\ wpc = [w \in Writers |-> "save"]
    /\ members = [w \in Writers |-> {}]
    /\ met = {} /\ failed = {} /\ late = {}
    /\ old = [w \in Writers |-> {}]

-----------------------------------------------------------------------------
(* GET /locations/tree.                                                    *)

Ended(r) == pc[r] \in {"done", "failed", "crashed"}

\* The request leaves `from` for `to`.
Goto(r, from, to) == pc[r] = from /\ pc' = [pc EXCEPT ![r] = to]

\* remember() is left; the finally block deletes the lock if it was taken.
Leave(r, result) == IF locked[r] THEN "unlock" ELSE result

\* The cached tree, if there is one, is the answer.
Hit(r, from) ==
    /\ cache[param[r]] # NoValue
    /\ Goto(r, from, "done")

\* getTree: 404 if rootId names no location; then remember() looks for the tree.
Get(r) ==
    /\ \/ Goto(r, "get", "failed")
       \/ Hit(r, "get")
       \/ cache[param[r]] = NoValue /\ Goto(r, "get", "lock")
    /\ UNCHANGED <<tree, redis, param, locked, polls, value, writer, history>>

\* Mutant: SET without NX.
SetLock_Overwrites(r) ==
    /\ Goto(r, "lock", "build")
    /\ rebuildLock' = [rebuildLock EXCEPT ![param[r]] = TRUE]
    /\ locked' = [locked EXCEPT ![r] = TRUE]
    /\ UNCHANGED <<tree, cache, tag, tagTtl, param, polls, value, writer, history>>

\* SET lock:rebuild:<key> '1' EX 10 NX.
SetLock(r) ==
    /\ \/ /\ ~rebuildLock[param[r]]
          /\ Goto(r, "lock", "build")
          /\ rebuildLock' = [rebuildLock EXCEPT ![param[r]] = TRUE]
          /\ locked' = [locked EXCEPT ![r] = TRUE]
       \/ /\ rebuildLock[param[r]]
          /\ Goto(r, "lock", "poll")
          /\ UNCHANGED <<rebuildLock, locked>>
    /\ UNCHANGED <<tree, cache, tag, tagTtl, param, polls, value, writer, history>>

\* Mutant: the waiter polls until there is a value.
Poll_NoLimit(r) ==
    /\ Hit(r, "poll")
    /\ UNCHANGED <<tree, redis, param, locked, polls, value, writer, history>>

\* Wait and GET again; after the last attempt rebuild without the lock.
Poll(r) ==
    /\ \/ Hit(r, "poll") /\ UNCHANGED polls
       \/ /\ cache[param[r]] = NoValue
          /\ Goto(r, "poll", IF polls[r] + 1 < PollAttempts THEN "poll" ELSE "build")
          /\ polls' = [polls EXCEPT ![r] = @ + 1]
    /\ UNCHANGED <<tree, redis, param, locked, value, writer, history>>

\* callback(): buildTree is one statement, it sees one state of the table.
Build(r) ==
    /\ Goto(r, "build", "set")
    /\ value' = [value EXCEPT ![r] = tree]
    /\ met' = IF Invalidating # {} THEN met \cup {r} ELSE met
    /\ UNCHANGED <<tree, redis, param, locked, polls, writer, failed, late, old>>

BuildFails(r) ==
    /\ "dberror" \in Faults
    /\ Goto(r, "build", Leave(r, "failed"))
    /\ UNCHANGED <<tree, redis, param, locked, polls, value, writer, history>>

Entry(r) == [tree |-> value[r], by |-> r]

\* setTagged: SET <key> EX <ttl>.
SetValue(r) ==
    /\ Goto(r, "set", "tag")
    /\ cache' = [cache EXCEPT ![param[r]] = Entry(r)]
    /\ UNCHANGED <<tree, tag, rebuildLock, tagTtl, param, locked, polls, value, writer, history>>

\* Mutant: the key is not added to the tag set.
AddTag_Forgotten(r) ==
    /\ Goto(r, "tag", "expire")
    /\ UNCHANGED <<tree, redis, param, locked, polls, value, writer, history>>

\* setTagged: SADD tag:location <key>. A set it creates has no time to live yet,
\* one that is there keeps what it has.
AddTag(r) ==
    /\ Goto(r, "tag", "expire")
    /\ tag' = tag \cup {param[r]}
    /\ UNCHANGED <<tree, cache, rebuildLock, tagTtl, param, locked, polls, value, writer, history>>

\* setTagged: EXPIRE tag:location <2 * ttl>, which does nothing if there is no set.
ExpireTag(r) ==
    /\ Goto(r, "expire", Leave(r, "done"))
    /\ tagTtl' = (tagTtl \/ tag # {})
    /\ UNCHANGED <<tree, cache, tag, rebuildLock, param, locked, polls, value, writer, history>>

\* finally: DEL of the lock, whoever holds it by now.
Unlock(r) ==
    /\ Goto(r, "unlock", "done")
    /\ rebuildLock' = [rebuildLock EXCEPT ![param[r]] = FALSE]
    /\ UNCHANGED <<tree, cache, tag, tagTtl, param, locked, polls, value, writer, history>>

\* An awaited command is rejected: remember() throws.
ReadRedisError(r) ==
    /\ "rediserror" \in Faults
    /\ \E from \in {"get", "lock", "poll", "unlock"} : Goto(r, from, "failed")
    /\ UNCHANGED <<tree, redis, param, locked, polls, value, writer, history>>

\* A command of setTagged's pipeline fails, and nobody looks at the result.
PipelineError(r) ==
    /\ "rediserror" \in Faults
    /\ \/ Goto(r, "set", "tag")
       \/ Goto(r, "tag", "expire")
       \/ Goto(r, "expire", Leave(r, "done"))
    /\ failed' = failed \cup {r}
    /\ UNCHANGED <<tree, redis, param, locked, polls, value, writer, met, late, old>>

ReaderCrash(r) ==
    /\ "crash" \in Faults
    /\ ~Ended(r)
    /\ Goto(r, pc[r], "crashed")
    /\ failed' = IF pc[r] \in {"set", "tag", "expire"} THEN failed \cup {r} ELSE failed
    /\ UNCHANGED <<tree, redis, param, locked, polls, value, writer, met, late, old>>

-----------------------------------------------------------------------------
(* A mutation: locationRepo.save or softRemove, then invalidateTree.       *)

WGoto(w, from, to) == wpc[w] = from /\ wpc' = [wpc EXCEPT ![w] = to]

\* The transaction commits.
Save(w) ==
    /\ WGoto(w, "save", "members")
    /\ tree' = tree + 1
    /\ met' = met \cup Rebuilding
    /\ old' = [old EXCEPT ![w] = {r \in Readers \ Rebuilding :
                                    \E p \in Params : cache[p] # NoValue /\ cache[p].by = r}]
    /\ UNCHANGED <<redis, reader, members, failed, late>>

\* SMEMBERS tag:location.
ReadTag(w) ==
    /\ WGoto(w, "members", "del")
    /\ members' = [members EXCEPT ![w] = tag]
    /\ UNCHANGED <<tree, redis, reader, history>>

\* Mutant: DEL of the tag set only.
DeleteKeys_Forgotten(w) ==
    /\ WGoto(w, "del", "deltag")
    /\ UNCHANGED <<tree, redis, reader, members, history>>

\* DEL of the keys that SMEMBERS returned.
DeleteKeys(w) ==
    /\ WGoto(w, "del", "deltag")
    /\ cache' = [p \in Params |-> IF p \in members[w] THEN NoValue ELSE cache[p]]
    /\ UNCHANGED <<tree, tag, rebuildLock, tagTtl, reader, members, history>>

\* DEL tag:location.
DeleteTag(w) ==
    /\ WGoto(w, "deltag", "done")
    /\ tag' = {} /\ tagTtl' = FALSE
    /\ UNCHANGED <<tree, cache, rebuildLock, reader, members, history>>

\* SMEMBERS is rejected, the mutation is answered 500 although it is saved; or
\* a DEL of the pipeline fails unnoticed.
WriteRedisError(w) ==
    /\ "rediserror" \in Faults
    /\ \/ WGoto(w, "members", "done")
       \/ WGoto(w, "del", "deltag")
       \/ WGoto(w, "deltag", "done")
    /\ failed' = failed \cup {w}
    /\ UNCHANGED <<tree, redis, reader, members, met, late, old>>

WriterCrash(w) ==
    /\ "crash" \in Faults
    /\ wpc[w] # "done"
    /\ WGoto(w, wpc[w], "crashed")
    /\ failed' = IF wpc[w] = "save" THEN failed ELSE failed \cup {w}
    /\ UNCHANGED <<tree, redis, reader, members, met, late, old>>

-----------------------------------------------------------------------------
(* Times to live.                                                          *)

\* Mutant: the value is set without EX.
ValueExpires_Never(p) == FALSE /\ UNCHANGED vars

ValueExpires(p) ==
    /\ cache[p] # NoValue
    /\ cache' = [cache EXCEPT ![p] = NoValue]
    /\ UNCHANGED <<tree, tag, rebuildLock, tagTtl, reader, writer, history>>

\* Every EXPIRE lets the tag set live twice as long as a value: no value whose
\* EXPIRE has been executed is left when the set expires. One whose EXPIRE is still
\* to come or has failed may be, and a key added just before has lost its tag.
TagExpires ==
    /\ tagTtl
    /\ \A p \in Params : cache[p] # NoValue =>
            pc[cache[p].by] \in {"tag", "expire"} \/ cache[p].by \in failed
    /\ tag' = {} /\ tagTtl' = FALSE
    /\ met' = met \cup {r \in Readers : pc[r] = "expire" /\ param[r] \in tag}
    /\ UNCHANGED <<tree, cache, rebuildLock, reader, writer, failed, late, old>>

\* Requests that have the rebuild lock of p, as far as they know.
Holders(p) == {r \in Readers :
    locked[r] /\ param[r] = p /\ pc[r] \in {"build", "set", "tag", "expire", "unlock"}}

RebuildLockExpires(p) ==
    /\ rebuildLock[p]
    /\ "slowrebuild" \in Faults \/ Holders(p) = {}
    /\ rebuildLock' = [rebuildLock EXCEPT ![p] = FALSE]
    /\ late' = late \cup Holders(p)
    /\ UNCHANGED <<tree, cache, tag, tagTtl, reader, writer, met, failed, old>>

-----------------------------------------------------------------------------

ReaderStep(r) ==
    \/ Get(r) \/ SetLock(r) \/ Poll(r) \/ Build(r)
    \/ SetValue(r) \/ AddTag(r) \/ ExpireTag(r) \/ Unlock(r)

WriterStep(w) == Save(w) \/ ReadTag(w) \/ DeleteKeys(w) \/ DeleteTag(w)

ReaderFault(r) == BuildFails(r) \/ ReadRedisError(r) \/ PipelineError(r) \/ ReaderCrash(r)

WriterFault(w) == WriteRedisError(w) \/ WriterCrash(w)

Expiry == TagExpires \/ \E p \in Params : ValueExpires(p) \/ RebuildLockExpires(p)

Next ==
    \/ \E r \in Readers : ReaderStep(r) \/ ReaderFault(r)
    \/ \E w \in Writers : WriterStep(w) \/ WriterFault(w)
    \/ Expiry

Spec == Init /\ [][Next]_vars

\* Requests that were received run on, and a value's time to live ends.
FairSpec ==
    /\ Spec
    /\ \A r \in Readers : WF_vars(ReaderStep(r))
    /\ \A w \in Writers : WF_vars(WriterStep(w))
    /\ \A p \in Params : WF_vars(ValueExpires(p))

-----------------------------------------------------------------------------
(* Properties.                                                             *)

TypeOK ==
    /\ tree \in Nat
    /\ cache \in [Params -> Cached \cup {NoValue}]
    /\ tag \subseteq Params /\ tagTtl \in BOOLEAN
    /\ rebuildLock \in [Params -> BOOLEAN]
    /\ pc \in [Readers -> Steps]
    /\ param \in [Readers -> Params]
    /\ locked \in [Readers -> BOOLEAN]
    /\ polls \in [Readers -> Nat]
    /\ value \in [Readers -> Nat]
    /\ wpc \in [Writers -> WriterSteps]
    /\ members \in [Writers -> SUBSET Params]
    /\ met \subseteq Readers /\ late \subseteq Readers
    /\ failed \subseteq Readers \cup Writers
    /\ old \in [Writers -> SUBSET Readers]

Stale(p) == cache[p] # NoValue /\ cache[p].tree # tree

\* The cached tree of p was built and tagged apart from every invalidation and
\* every end of the tag set's time to live.
Clean(p) == cache[p] # NoValue /\ cache[p].by \notin met \cup failed

\* Its key has been added to the tag set as well.
Complete(p) == Clean(p) /\ pc[cache[p].by] # "tag"

NoWriterFailed == failed \cap Writers = {}

\* A cached entry comes from a request with that key that is past its SET, and
\* shows what the request built.
EntriesHaveAuthors ==
    \A p \in Params : cache[p] # NoValue =>
        LET b == cache[p].by
        IN  /\ param[b] = p
            /\ cache[p].tree = value[b]
            /\ pc[b] \in {"tag", "expire", "unlock", "done", "failed", "crashed"}

\* A rebuild no invalidation has met is up to date, and nothing invalidates.
RebuildsAreCurrent ==
    \A r \in Rebuilding \ met : value[r] = tree /\ Invalidating = {}

\* The tag set leads every mutation to each clean tree: it is deleted between
\* SMEMBERS and the DEL of the tag set.
TagsReachTrees ==
    NoWriterFailed => \A p \in Params : Complete(p) =>
        /\ p \in tag
        /\ \A w \in Writers : wpc[w] = "del" => p \in members[w]
        /\ \A w \in Writers : wpc[w] # "deltag"

\* A clean tree is up to date, or its deletion is under way.
CleanTreesAreCurrent ==
    NoWriterFailed => \A p \in Params : Clean(p) =>
        cache[p].tree = tree \/ Invalidating # {}

\* A request that has the rebuild lock, and whose lock did not expire, is alone;
\* a request knows whether it has it.
LockHasOneHolder ==
    /\ late = {} => \A p \in Params : \A r, s \in Holders(p) : rebuildLock[p] /\ r = s
    /\ \A r \in Readers : pc[r] \in {"get", "lock", "poll"} => ~locked[r]
    /\ \A r \in Readers : pc[r] = "unlock" => locked[r]

\* The strengthening of StaleOnlyAfterRace and OneRebuilder that every step
\* preserves: where an entry comes from, that the tag set reaches it, and that
\* a lock taken is a lock held.
CacheInv ==
    /\ TypeOK
    /\ EntriesHaveAuthors
    /\ RebuildsAreCurrent
    /\ TagsReachTrees
    /\ CleanTreesAreCurrent
    /\ LockHasOneHolder

\* A cached tree that a mutation has overtaken is about to be deleted, or its
\* rebuild overlapped an invalidation, or the tag set expired between its SADD and
\* its EXPIRE, or a command of Redis or a process has failed. Apart from these two
\* races no rebuild leaves a stale tree, over any number of keys, readers and
\* mutations (remember, setTagged, invalidateTag).
StaleOnlyAfterRace ==
    \A p \in Params : Stale(p) =>
        \/ Invalidating # {}
        \/ cache[p].by \in met \cup failed
        \/ failed \cap Writers # {}

\* A mutation that has finished has dropped every tree that was completely cached
\* when it was saved, whatever other mutations do at the same time: apart from
\* those whose rebuild met an invalidation or the end of the tag set, as long as
\* no command has failed.
CleanTreesDropped ==
    NoWriterFailed =>
        \A w \in Writers : wpc[w] = "done" =>
            \A p \in Params : cache[p] # NoValue => cache[p].by \notin old[w] \ (met \cup failed)

\* As long as no rebuild outlives the lock's ten seconds, at most one request
\* per key rebuilds under the lock (remember: "only 1 process holds the rebuild
\* lock").
OneRebuilder ==
    late = {} => \A p \in Params : \A r, s \in Holders(p) : r = s

\* A mutation that has finished without an error has dropped every tree that
\* was completely cached when it was saved (docs: "invalidated on any location
\* mutation").
MutationDropsTrees ==
    \A w \in Writers : wpc[w] = "done" /\ w \notin failed =>
        \A p \in Params : cache[p] # NoValue => cache[p].by \notin old[w]

\* Every read is answered, also when the request that holds the rebuild lock
\* has died or its rebuild has failed.
EveryReadEnds == \A r \in Readers : <>Ended(r)

\* Whatever races and failures there were, in the end no stale tree is cached.
EventuallyFresh == <>[](\A p \in Params : ~Stale(p))
==============================================================================
