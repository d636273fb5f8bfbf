--------------------------- MODULE TreeCacheProofs ---------------------------
(***************************************************************************)
(* Proofs of the safety properties of TreeCache, for any number of reads,  *)
(* mutations and keys, and any faults.                                     *)
(*                                                                         *)
(* Freshness is not inductive: it needs that the tag set leads every       *)
(* mutation to each complete entry, which holds because a tag set is only  *)
(* deleted after the entries it named, and an entry that is added in       *)
(* between was built during the invalidation, so that it is in met.        *)
(***************************************************************************)
EXTENDS TreeCache, TLAPS

\* Nothing is cached and every request is at its first step.
LEMMA CacheInit ==
    Init => CacheInv
<1> SUFFICES ASSUME Init PROVE CacheInv
    OBVIOUS
<1>1. TypeOK
    BY CacheAssumption DEF Init, TypeOK, Cached, Steps, WriterSteps
<1>2. \A p \in Params : cache[p] = NoValue
    BY DEF Init
<1>3. Rebuilding = {} /\ \A p \in Params : Holders(p) = {}
    BY DEF Init, Rebuilding, Holders
<1>4. LockHasOneHolder
    BY <1>3 DEF Init, LockHasOneHolder
<1> QED BY <1>1, <1>2, <1>3, <1>4 DEF CacheInv, EntriesHaveAuthors, RebuildsAreCurrent,
    TagsReachTrees, CleanTreesAreCurrent, Complete, Clean

\* Every action preserves the invariant.
LEMMA CacheStep ==
    CacheInv /\ [Next]_vars => CacheInv'
<1> SUFFICES ASSUME CacheInv, [Next]_vars PROVE CacheInv'
    OBVIOUS
<1> USE DEF CacheInv, TypeOK
<1>1. ASSUME NEW r \in Readers, Get(r) PROVE CacheInv'
    <2>1. TypeOK' BY <1>1 DEF Get, Hit, Goto, redis, writer, history, Steps,
        WriterSteps
    <2>2. EntriesHaveAuthors' /\ RebuildsAreCurrent' BY <1>1 DEF Get, Hit, Goto,
        redis, writer, history, EntriesHaveAuthors, RebuildsAreCurrent, Rebuilding,
        Invalidating, Cached
    <2>3. TagsReachTrees' /\ CleanTreesAreCurrent' BY <1>1 DEF Get, Hit, Goto, redis,
        writer, history, EntriesHaveAuthors, RebuildsAreCurrent, TagsReachTrees,
        CleanTreesAreCurrent, NoWriterFailed, Complete, Clean, Rebuilding,
        Invalidating, Cached
    <2>4. LockHasOneHolder' BY <1>1 DEF Get, Hit, Goto, redis, writer, history,
        LockHasOneHolder, Holders
    <2>5. QED BY <2>1, <2>2, <2>3, <2>4
\* The lock was free, so nobody held it.
<1>2. ASSUME NEW r \in Readers, SetLock(r) PROVE CacheInv'
    <2>1. TypeOK' BY <1>2 DEF SetLock, Goto, writer, history, Steps, WriterSteps
    <2>2. EntriesHaveAuthors' /\ RebuildsAreCurrent' BY <1>2 DEF SetLock, Goto,
        writer, history, EntriesHaveAuthors, RebuildsAreCurrent, Rebuilding,
        Invalidating, Cached
    <2>3. TagsReachTrees' /\ CleanTreesAreCurrent' BY <1>2 DEF SetLock, Goto, writer,
        history, EntriesHaveAuthors, RebuildsAreCurrent, TagsReachTrees,
        CleanTreesAreCurrent, NoWriterFailed, Complete, Clean, Rebuilding,
        Invalidating, Cached
    <2>4. LockHasOneHolder' BY <1>2 DEF SetLock, Goto, writer, history,
        LockHasOneHolder, Holders
    <2>5. QED BY <2>1, <2>2, <2>3, <2>4
<1>3. ASSUME NEW r \in Readers, Poll(r) PROVE CacheInv'
    <2>1. TypeOK' BY <1>3 DEF Poll, Hit, Goto, redis, writer, history, Steps,
        WriterSteps
    <2>2. EntriesHaveAuthors' /\ RebuildsAreCurrent' BY <1>3 DEF Poll, Hit, Goto,
        redis, writer, history, EntriesHaveAuthors, RebuildsAreCurrent, Rebuilding,
        Invalidating, Cached
    <2>3. TagsReachTrees' /\ CleanTreesAreCurrent' BY <1>3 DEF Poll, Hit, Goto, redis,
        writer, history, EntriesHaveAuthors, RebuildsAreCurrent, TagsReachTrees,
        CleanTreesAreCurrent, NoWriterFailed, Complete, Clean, Rebuilding,
        Invalidating, Cached
    <2>4. LockHasOneHolder' BY <1>3 DEF Poll, Hit, Goto, redis, writer, history,
        LockHasOneHolder, Holders
    <2>5. QED BY <2>1, <2>2, <2>3, <2>4
\* The tree is read as it is; an invalidation under way is recorded in met.
<1>4. ASSUME NEW r \in Readers, Build(r) PROVE CacheInv'
    <2>1. TypeOK' BY <1>4 DEF Build, Goto, redis, writer, Steps, WriterSteps
    <2>2. EntriesHaveAuthors' /\ RebuildsAreCurrent' BY <1>4 DEF Build, Goto, redis,
        writer, EntriesHaveAuthors, RebuildsAreCurrent, Rebuilding, Invalidating,
        Cached
    <2>3. TagsReachTrees' /\ CleanTreesAreCurrent' BY <1>4 DEF Build, Goto, redis,
        writer, EntriesHaveAuthors, RebuildsAreCurrent, TagsReachTrees,
        CleanTreesAreCurrent, NoWriterFailed, Complete, Clean, Rebuilding,
        Invalidating, Cached
    <2>4. LockHasOneHolder' BY <1>4 DEF Build, Goto, redis, writer, LockHasOneHolder,
        Holders
    <2>5. QED BY <2>1, <2>2, <2>3, <2>4
\* The new entry is current unless it is in met.
<1>5. ASSUME NEW r \in Readers, SetValue(r) PROVE CacheInv'
    <2>1. TypeOK' BY <1>5 DEF SetValue, Goto, Entry, writer, history, Steps,
        WriterSteps, Cached
    <2>2. EntriesHaveAuthors' /\ RebuildsAreCurrent' BY <1>5 DEF SetValue, Goto,
        Entry, writer, history, EntriesHaveAuthors, RebuildsAreCurrent, Rebuilding,
        Invalidating, Cached
    <2>3. TagsReachTrees' /\ CleanTreesAreCurrent' BY <1>5 DEF SetValue, Goto, Entry,
        writer, history, EntriesHaveAuthors, RebuildsAreCurrent, TagsReachTrees,
        CleanTreesAreCurrent, NoWriterFailed, Complete, Clean, Rebuilding,
        Invalidating, Cached
    <2>4. LockHasOneHolder' BY <1>5 DEF SetValue, Goto, Entry, writer, history,
        LockHasOneHolder, Holders
    <2>5. QED BY <2>1, <2>2, <2>3, <2>4
\* Only now the entry is complete, and its key is in the tag set.
<1>6. ASSUME NEW r \in Readers, AddTag(r) PROVE CacheInv'
    <2>1. TypeOK' BY <1>6 DEF AddTag, Goto, Leave, writer, history, Steps, WriterSteps
    <2>2. EntriesHaveAuthors' /\ RebuildsAreCurrent' BY <1>6 DEF AddTag, Goto, Leave,
        writer, history, EntriesHaveAuthors, RebuildsAreCurrent, Rebuilding,
        Invalidating, Cached
    <2>3. TagsReachTrees' /\ CleanTreesAreCurrent' BY <1>6 DEF AddTag, Goto, Leave,
        writer, history, EntriesHaveAuthors, RebuildsAreCurrent, TagsReachTrees,
        CleanTreesAreCurrent, NoWriterFailed, Complete, Clean, Rebuilding,
        Invalidating, Cached
    <2>4. LockHasOneHolder' BY <1>6 DEF AddTag, Goto, Leave, writer, history,
        LockHasOneHolder, Holders
    <2>5. QED BY <2>1, <2>2, <2>3, <2>4
\* Its key stays in the tag set, which now has a time to live.
<1>E. ASSUME NEW r \in Readers, ExpireTag(r) PROVE CacheInv'
    <2>1. TypeOK' BY <1>E DEF ExpireTag, Goto, Leave, writer, history, Steps, WriterSteps
    <2>2. EntriesHaveAuthors' /\ RebuildsAreCurrent' BY <1>E DEF ExpireTag, Goto, Leave,
        writer, history, EntriesHaveAuthors, RebuildsAreCurrent, Rebuilding,
        Invalidating, Cached
    <2>3. TagsReachTrees' /\ CleanTreesAreCurrent' BY <1>E DEF ExpireTag, Goto, Leave,
        writer, history, EntriesHaveAuthors, RebuildsAreCurrent, TagsReachTrees,
        CleanTreesAreCurrent, NoWriterFailed, Complete, Clean, Rebuilding,
        Invalidating, Cached
    <2>4. LockHasOneHolder' BY <1>E DEF ExpireTag, Goto, Leave, writer, history,
        LockHasOneHolder, Holders
    <2>5. QED BY <2>1, <2>2, <2>3, <2>4
\* Nobody else held the lock.
<1>7. ASSUME NEW r \in Readers, Unlock(r) PROVE CacheInv'
    <2>1. TypeOK' BY <1>7 DEF Unlock, Goto, writer, history, Steps, WriterSteps
    <2>2. EntriesHaveAuthors' /\ RebuildsAreCurrent' BY <1>7 DEF Unlock, Goto, writer,
        history, EntriesHaveAuthors, RebuildsAreCurrent, Rebuilding, Invalidating,
        Cached
    <2>3. TagsReachTrees' /\ CleanTreesAreCurrent' BY <1>7 DEF Unlock, Goto, writer,
        history, EntriesHaveAuthors, RebuildsAreCurrent, TagsReachTrees,
        CleanTreesAreCurrent, NoWriterFailed, Complete, Clean, Rebuilding,
        Invalidating, Cached
    <2>4. LockHasOneHolder' BY <1>7 DEF Unlock, Goto, writer, history,
        LockHasOneHolder, Holders
    <2>5. QED BY <2>1, <2>2, <2>3, <2>4
<1>8. ASSUME NEW r \in Readers, BuildFails(r) PROVE CacheInv'
    <2>1. TypeOK' BY <1>8 DEF BuildFails, Leave, Goto, redis, writer, history, Steps,
        WriterSteps
    <2>2. EntriesHaveAuthors' /\ RebuildsAreCurrent' BY <1>8 DEF BuildFails, Leave,
        Goto, redis, writer, history, EntriesHaveAuthors, RebuildsAreCurrent,
        Rebuilding, Invalidating, Cached
    <2>3. TagsReachTrees' /\ CleanTreesAreCurrent' BY <1>8 DEF BuildFails, Leave,
        Goto, redis, writer, history, EntriesHaveAuthors, RebuildsAreCurrent,
        TagsReachTrees, CleanTreesAreCurrent, NoWriterFailed, Complete, Clean,
        Rebuilding, Invalidating, Cached
    <2>4. LockHasOneHolder' BY <1>8 DEF BuildFails, Leave, Goto, redis, writer,
        history, LockHasOneHolder, Holders
    <2>5. QED BY <2>1, <2>2, <2>3, <2>4
<1>9. ASSUME NEW r \in Readers, ReadRedisError(r) PROVE CacheInv'
    <2>1. TypeOK' BY <1>9 DEF ReadRedisError, Goto, redis, writer, history, Steps,
        WriterSteps
    <2>2. EntriesHaveAuthors' /\ RebuildsAreCurrent' BY <1>9 DEF ReadRedisError, Goto,
        redis, writer, history, EntriesHaveAuthors, RebuildsAreCurrent, Rebuilding,
        Invalidating, Cached
    <2>3. TagsReachTrees' /\ CleanTreesAreCurrent' BY <1>9 DEF ReadRedisError, Goto,
        redis, writer, history, EntriesHaveAuthors, RebuildsAreCurrent,
        TagsReachTrees, CleanTreesAreCurrent, NoWriterFailed, Complete, Clean,
        Rebuilding, Invalidating, Cached
    <2>4. LockHasOneHolder' BY <1>9 DEF ReadRedisError, Goto, redis, writer, history,
        LockHasOneHolder, Holders
    <2>5. QED BY <2>1, <2>2, <2>3, <2>4
<1>10. ASSUME NEW r \in Readers, PipelineError(r) PROVE CacheInv'
    <2>1. TypeOK' BY <1>10 DEF PipelineError, Goto, Leave, redis, writer, Steps,
        WriterSteps
    <2>2. EntriesHaveAuthors' /\ RebuildsAreCurrent' BY <1>10 DEF PipelineError, Goto,
        Leave, redis, writer, EntriesHaveAuthors, RebuildsAreCurrent, Rebuilding,
        Invalidating, Cached
    <2>3. TagsReachTrees' /\ CleanTreesAreCurrent' BY <1>10 DEF PipelineError, Goto,
        Leave, redis, writer, EntriesHaveAuthors, RebuildsAreCurrent, TagsReachTrees,
        CleanTreesAreCurrent, NoWriterFailed, Complete, Clean, Rebuilding,
        Invalidating, Cached
    <2>4. LockHasOneHolder' BY <1>10 DEF PipelineError, Goto, Leave, redis, writer,
        LockHasOneHolder, Holders
    <2>5. QED BY <2>1, <2>2, <2>3, <2>4
<1>11. ASSUME NEW r \in Readers, ReaderCrash(r) PROVE CacheInv'
    <2>1. TypeOK' BY <1>11 DEF ReaderCrash, Goto, Ended, redis, writer, Steps,
        WriterSteps
    <2>2. EntriesHaveAuthors' /\ RebuildsAreCurrent' BY <1>11 DEF ReaderCrash, Goto,
        Ended, redis, writer, EntriesHaveAuthors, RebuildsAreCurrent, Rebuilding,
        Invalidating, Cached
    <2>3. TagsReachTrees' /\ CleanTreesAreCurrent' BY <1>11 DEF ReaderCrash, Goto,
        Ended, redis, writer, EntriesHaveAuthors, RebuildsAreCurrent, TagsReachTrees,
        CleanTreesAreCurrent, NoWriterFailed, Complete, Clean, Rebuilding,
        Invalidating, Cached
    <2>4. LockHasOneHolder' BY <1>11 DEF ReaderCrash, Goto, Ended, redis, writer,
        LockHasOneHolder, Holders
    <2>5. QED BY <2>1, <2>2, <2>3, <2>4
\* Every entry becomes stale, and this mutation is now invalidating.
<1>12. ASSUME NEW w \in Writers, Save(w) PROVE CacheInv'
    <2>1. TypeOK' BY <1>12 DEF Save, WGoto, redis, reader, Rebuilding, Steps,
        WriterSteps
    <2>2. EntriesHaveAuthors' /\ RebuildsAreCurrent' BY <1>12 DEF Save, WGoto, redis,
        reader, EntriesHaveAuthors, RebuildsAreCurrent, Rebuilding, Invalidating,
        Cached
    <2>3. TagsReachTrees' /\ CleanTreesAreCurrent' BY <1>12 DEF Save, WGoto, redis,
        reader, EntriesHaveAuthors, RebuildsAreCurrent, TagsReachTrees,
        CleanTreesAreCurrent, NoWriterFailed, Complete, Clean, Rebuilding,
        Invalidating, Cached
    <2>4. LockHasOneHolder' BY <1>12 DEF Save, WGoto, redis, reader, LockHasOneHolder,
        Holders
    <2>5. QED BY <2>1, <2>2, <2>3, <2>4
\* A complete entry's key is in the tag set, so it is among the members.
<1>13. ASSUME NEW w \in Writers, ReadTag(w) PROVE CacheInv'
    <2>1. TypeOK' BY <1>13 DEF ReadTag, WGoto, redis, reader, history, Steps,
        WriterSteps
    <2>2. EntriesHaveAuthors' /\ RebuildsAreCurrent' BY <1>13 DEF ReadTag, WGoto,
        redis, reader, history, EntriesHaveAuthors, RebuildsAreCurrent, Rebuilding,
        Invalidating, Cached
    <2>3. TagsReachTrees' /\ CleanTreesAreCurrent' BY <1>13 DEF ReadTag, WGoto, redis,
        reader, history, EntriesHaveAuthors, RebuildsAreCurrent, TagsReachTrees,
        CleanTreesAreCurrent, NoWriterFailed, Complete, Clean, Rebuilding,
        Invalidating, Cached
    <2>4. LockHasOneHolder' BY <1>13 DEF ReadTag, WGoto, redis, reader, history,
        LockHasOneHolder, Holders
    <2>5. QED BY <2>1, <2>2, <2>3, <2>4
\* That deletes every complete entry.
<1>14. ASSUME NEW w \in Writers, DeleteKeys(w) PROVE CacheInv'
    <2>1. TypeOK' BY <1>14 DEF DeleteKeys, WGoto, reader, history, Steps, WriterSteps
    <2>2. EntriesHaveAuthors' /\ RebuildsAreCurrent' BY <1>14 DEF DeleteKeys, WGoto,
        reader, history, EntriesHaveAuthors, RebuildsAreCurrent, Rebuilding,
        Invalidating, Cached
    <2>3. TagsReachTrees' /\ CleanTreesAreCurrent' BY <1>14 DEF DeleteKeys, WGoto,
        reader, history, EntriesHaveAuthors, RebuildsAreCurrent, TagsReachTrees,
        CleanTreesAreCurrent, NoWriterFailed, Complete, Clean, Rebuilding,
        Invalidating, Cached
    <2>4. LockHasOneHolder' BY <1>14 DEF DeleteKeys, WGoto, reader, history,
        LockHasOneHolder, Holders
    <2>5. QED BY <2>1, <2>2, <2>3, <2>4
\* No complete entry is left to lose its tag.
<1>15. ASSUME NEW w \in Writers, DeleteTag(w) PROVE CacheInv'
    <2>1. TypeOK' BY <1>15 DEF DeleteTag, WGoto, reader, history, Steps, WriterSteps
    <2>2. EntriesHaveAuthors' /\ RebuildsAreCurrent' BY <1>15 DEF DeleteTag, WGoto,
        reader, history, EntriesHaveAuthors, RebuildsAreCurrent, Rebuilding,
        Invalidating, Cached
    <2>3. TagsReachTrees' /\ CleanTreesAreCurrent' BY <1>15 DEF DeleteTag, WGoto,
        reader, history, EntriesHaveAuthors, RebuildsAreCurrent, TagsReachTrees,
        CleanTreesAreCurrent, NoWriterFailed, Complete, Clean, Rebuilding,
        Invalidating, Cached
    <2>4. LockHasOneHolder' BY <1>15 DEF DeleteTag, WGoto, reader, history,
        LockHasOneHolder, Holders
    <2>5. QED BY <2>1, <2>2, <2>3, <2>4
<1>16. ASSUME NEW w \in Writers, WriteRedisError(w) PROVE CacheInv'
    <2>1. TypeOK' BY <1>16 DEF WriteRedisError, WGoto, redis, reader, Steps,
        WriterSteps
    <2>2. EntriesHaveAuthors' /\ RebuildsAreCurrent' BY <1>16 DEF WriteRedisError,
        WGoto, redis, reader, EntriesHaveAuthors, RebuildsAreCurrent, Rebuilding,
        Invalidating, Cached
    <2>3. TagsReachTrees' /\ CleanTreesAreCurrent' BY <1>16 DEF WriteRedisError,
        WGoto, redis, reader, EntriesHaveAuthors, RebuildsAreCurrent, TagsReachTrees,
        CleanTreesAreCurrent, NoWriterFailed, Complete, Clean, Rebuilding,
        Invalidating, Cached
    <2>4. LockHasOneHolder' BY <1>16 DEF WriteRedisError, WGoto, redis, reader,
        LockHasOneHolder, Holders
    <2>5. QED BY <2>1, <2>2, <2>3, <2>4
<1>17. ASSUME NEW w \in Writers, WriterCrash(w) PROVE CacheInv'
    <2>1. TypeOK' BY <1>17 DEF WriterCrash, WGoto, redis, reader, Steps, WriterSteps
    <2>2. EntriesHaveAuthors' /\ RebuildsAreCurrent' BY <1>17 DEF WriterCrash, WGoto,
        redis, reader, EntriesHaveAuthors, RebuildsAreCurrent, Rebuilding,
        Invalidating, Cached
    <2>3. TagsReachTrees' /\ CleanTreesAreCurrent' BY <1>17 DEF WriterCrash, WGoto,
        redis, reader, EntriesHaveAuthors, RebuildsAreCurrent, TagsReachTrees,
        CleanTreesAreCurrent, NoWriterFailed, Complete, Clean, Rebuilding,
        Invalidating, Cached
    <2>4. LockHasOneHolder' BY <1>17 DEF WriterCrash, WGoto, redis, reader,
        LockHasOneHolder, Holders
    <2>5. QED BY <2>1, <2>2, <2>3, <2>4
<1>18. ASSUME NEW p \in Params, ValueExpires(p) PROVE CacheInv'
    <2>1. TypeOK' BY <1>18 DEF ValueExpires, reader, writer, history, Steps,
        WriterSteps
    <2>2. EntriesHaveAuthors' /\ RebuildsAreCurrent' BY <1>18 DEF ValueExpires,
        reader, writer, history, EntriesHaveAuthors, RebuildsAreCurrent, Rebuilding,
        Invalidating, Cached
    <2>3. TagsReachTrees' /\ CleanTreesAreCurrent' BY <1>18 DEF ValueExpires, reader,
        writer, history, EntriesHaveAuthors, RebuildsAreCurrent, TagsReachTrees,
        CleanTreesAreCurrent, NoWriterFailed, Complete, Clean, Rebuilding,
        Invalidating, Cached
    <2>4. LockHasOneHolder' BY <1>18 DEF ValueExpires, reader, writer, history,
        LockHasOneHolder, Holders
    <2>5. QED BY <2>1, <2>2, <2>3, <2>4
\* A complete entry that is left, by the guard, is one about to send its EXPIRE:
\* its key was in the set, so it is in met now.
<1>19. ASSUME TagExpires PROVE CacheInv'
    <2>1. TypeOK' BY <1>19 DEF TagExpires, reader, writer, history, Steps, WriterSteps
    <2>2. EntriesHaveAuthors' /\ RebuildsAreCurrent' BY <1>19 DEF TagExpires, reader,
        writer, history, EntriesHaveAuthors, RebuildsAreCurrent, Rebuilding,
        Invalidating, Cached
    <2>3. TagsReachTrees' /\ CleanTreesAreCurrent' BY <1>19 DEF TagExpires, reader,
        writer, history, EntriesHaveAuthors, RebuildsAreCurrent, TagsReachTrees,
        CleanTreesAreCurrent, NoWriterFailed, Complete, Clean, Rebuilding,
        Invalidating, Cached
    <2>4. LockHasOneHolder' BY <1>19 DEF TagExpires, reader, writer, history,
        LockHasOneHolder, Holders
    <2>5. QED BY <2>1, <2>2, <2>3, <2>4
<1>20. ASSUME NEW p \in Params, RebuildLockExpires(p) PROVE CacheInv'
    <2>1. TypeOK' BY <1>20 DEF RebuildLockExpires, reader, writer, Holders, Steps,
        WriterSteps
    <2>2. EntriesHaveAuthors' /\ RebuildsAreCurrent' BY <1>20 DEF RebuildLockExpires,
        reader, writer, EntriesHaveAuthors, RebuildsAreCurrent, Rebuilding,
        Invalidating, Cached
    <2>3. TagsReachTrees' /\ CleanTreesAreCurrent' BY <1>20 DEF RebuildLockExpires,
        reader, writer, EntriesHaveAuthors, RebuildsAreCurrent, TagsReachTrees,
        CleanTreesAreCurrent, NoWriterFailed, Complete, Clean, Rebuilding,
        Invalidating, Cached
    <2>4. LockHasOneHolder' BY <1>20 DEF RebuildLockExpires, reader, writer,
        LockHasOneHolder, Holders
    <2>5. QED BY <2>1, <2>2, <2>3, <2>4
<1>21. ASSUME UNCHANGED vars PROVE CacheInv'
    BY <1>21 DEF vars, redis, reader, writer, history, EntriesHaveAuthors,
        RebuildsAreCurrent, TagsReachTrees, CleanTreesAreCurrent, LockHasOneHolder,
        NoWriterFailed, Complete, Clean, Rebuilding, Invalidating, Holders, Cached
<1>22. QED BY <1>1, <1>2, <1>3, <1>4, <1>5, <1>6, <1>E, <1>7, <1>8, <1>9, <1>10, <1>11,
    <1>12, <1>13, <1>14, <1>15, <1>16, <1>17, <1>18, <1>19, <1>20, <1>21 DEF Next,
    ReaderStep, WriterStep, ReaderFault, WriterFault, Expiry

\* The inductive invariant of TreeCache.
THEOREM CacheInvariant ==
    Spec => []CacheInv
BY CacheInit, CacheStep, PTL DEF Spec

\* A clean entry is current or its deletion is under way: what remains are the
\* exceptions StaleOnlyAfterRace names.
THEOREM StaleOnlyAfterRaceHolds ==
    Spec => []StaleOnlyAfterRace
<1>1. CacheInv => StaleOnlyAfterRace
    BY DEF CacheInv, CleanTreesAreCurrent, NoWriterFailed, Clean, StaleOnlyAfterRace, Stale
<1>2. QED BY <1>1, CacheInvariant, PTL

-----------------------------------------------------------------------------
(* What a mutation drops.                                                  *)

\* The rebuilds whose trees a mutation found complete are over: none of them
\* caches its tree once more.
OldAreOver ==
    \A w \in Writers : \A r \in old[w] : pc[r] \in {"expire", "unlock", "done", "failed", "crashed"}

LEMMA OldAreOverStep ==
    CacheInv /\ OldAreOver /\ [Next]_vars => OldAreOver'
<1> SUFFICES ASSUME CacheInv, OldAreOver, [Next]_vars PROVE OldAreOver'
  OBVIOUS
<1>1. TypeOK
  BY DEF CacheInv
<1>2. ASSUME NEW r \in Readers, ReaderStep(r) \/ ReaderFault(r) PROVE OldAreOver'
  <2>1. old' = old
    BY <1>2 DEF ReaderStep, ReaderFault, Get, SetLock, Poll, Build, SetValue, AddTag, ExpireTag, Unlock,
        BuildFails, ReadRedisError, PipelineError, ReaderCrash, history
  <2>2. \A s \in Readers :
            \/ pc'[s] = pc[s]
            \/ pc[s] \in {"expire", "unlock"} /\ pc'[s] \in {"unlock", "done", "failed", "crashed"}
            \/ pc[s] \notin {"expire", "unlock", "done", "failed", "crashed"}
    BY <1>1, <1>2 DEF TypeOK, ReaderStep, ReaderFault, Get, SetLock, Poll, Build, SetValue, AddTag,
        ExpireTag, Unlock, BuildFails, ReadRedisError, PipelineError, ReaderCrash, Hit, Goto, Leave, Ended
  <2> QED BY <1>1, <2>1, <2>2 DEF OldAreOver, TypeOK
\* The author of an entry has sent its SET; if it is not rebuilding, all.
<1>3. ASSUME NEW w \in Writers, Save(w) PROVE OldAreOver'
  <2>1. pc' = pc /\ \A v \in Writers : v # w => old'[v] = old[v]
    BY <1>1, <1>3 DEF Save, reader, TypeOK
  <2>2. ASSUME NEW s \in old'[w] PROVE pc[s] \in {"expire", "unlock", "done", "failed", "crashed"}
    <3>1. s \in Readers \ Rebuilding /\ \E p \in Params : cache[p] # NoValue /\ cache[p].by = s
      BY <1>1, <1>3, <2>2 DEF Save, TypeOK
    <3> QED BY <3>1 DEF CacheInv, EntriesHaveAuthors, Rebuilding
  <2> QED BY <2>1, <2>2 DEF OldAreOver
<1>4. ASSUME UNCHANGED <<pc, old>> PROVE OldAreOver'
  BY <1>4 DEF OldAreOver
<1>5. ASSUME NEW w \in Writers, ReadTag(w) \/ DeleteKeys(w) \/ DeleteTag(w) \/ WriterFault(w)
      PROVE  OldAreOver'
  BY <1>4, <1>5 DEF ReadTag, DeleteKeys, DeleteTag, WriterFault, WriteRedisError, WriterCrash,
      reader, history
<1>6. CASE Expiry
  BY <1>4, <1>6 DEF Expiry, TagExpires, ValueExpires, RebuildLockExpires, reader, history
<1>7. CASE UNCHANGED vars
  BY <1>4, <1>7 DEF vars, reader, history
<1> QED BY <1>2, <1>3, <1>5, <1>6, <1>7 DEF Next, WriterStep

\* An entry of a finished mutation's list is gone when the tag set is deleted, and
\* its author does not write it again.
LEMMA CleanTreesDroppedStep ==
    CacheInv /\ OldAreOver /\ CleanTreesDropped /\ [Next]_vars => CleanTreesDropped'
<1> SUFFICES ASSUME CacheInv, OldAreOver, CleanTreesDropped, [Next]_vars,
                    NoWriterFailed', NEW w \in Writers, wpc'[w] = "done",
                    NEW p \in Params, cache'[p] # NoValue,
                    cache'[p].by \in old'[w], cache'[p].by \notin met', cache'[p].by \notin failed'
             PROVE  FALSE
  BY DEF CleanTreesDropped
<1> DEFINE b == cache'[p].by
<1>1. TypeOK
  BY DEF CacheInv
<1>2. met \subseteq met' /\ failed \subseteq failed'
  BY DEF Next, ReaderStep, ReaderFault, Get, SetLock, Poll, Build, SetValue, AddTag, ExpireTag, Unlock,
      BuildFails, ReadRedisError, PipelineError, ReaderCrash, WriterStep, WriterFault, Save,
      ReadTag, DeleteKeys, DeleteTag, WriteRedisError, WriterCrash, Expiry, TagExpires,
      ValueExpires, RebuildLockExpires, vars, history
<1>3. NoWriterFailed
  BY <1>2 DEF NoWriterFailed
\* Only an unfinished rebuild adds an entry.
<1>4. ASSUME NEW r \in Readers, SetValue(r) PROVE old' = old /\ wpc' = wpc /\ cache'[p] = cache[p]
  <2>1. old' = old /\ wpc' = wpc /\ pc[r] = "set"
    BY <1>4 DEF SetValue, Goto, writer, history
  <2>2. b # r
    BY <2>1 DEF OldAreOver
  <2>3. p # param[r]
    BY <1>1, <1>4, <2>2 DEF SetValue, Entry, TypeOK
  <2> QED BY <1>1, <1>4, <2>1, <2>3 DEF SetValue, TypeOK
<1>5. ASSUME NEW v \in Writers, Save(v) PROVE v # w /\ old'[w] = old[w]
  BY <1>1, <1>5 DEF Save, WGoto, TypeOK
<1>6. cache'[p] = cache[p]
  BY <1>1, <1>4 DEF Next, ReaderStep, ReaderFault, Get, SetLock, Poll, Build, AddTag, ExpireTag, Unlock,
      BuildFails, ReadRedisError, PipelineError, ReaderCrash, WriterStep, WriterFault, Save,
      ReadTag, DeleteKeys, DeleteTag, WriteRedisError, WriterCrash, Expiry, TagExpires,
      ValueExpires, RebuildLockExpires, vars, redis, TypeOK
<1>7. old'[w] = old[w]
  BY <1>4, <1>5 DEF Next, ReaderStep, ReaderFault, Get, SetLock, Poll, Build, AddTag, ExpireTag, Unlock,
      BuildFails, ReadRedisError, PipelineError, ReaderCrash, WriterStep, WriterFault,
      ReadTag, DeleteKeys, DeleteTag, WriteRedisError, WriterCrash, Expiry, TagExpires,
      ValueExpires, RebuildLockExpires, vars, history
<1>8. Complete(p)
  <2>1. Clean(p)
    BY <1>2, <1>6 DEF Clean
  <2>2. pc[cache[p].by] # "tag"
    BY <1>6, <1>7 DEF OldAreOver
  <2> QED BY <2>1, <2>2 DEF Complete
\* So the step is not the last one of w either.
<1>9. wpc[w] # "deltag" /\ wpc[w] # "done"
  <2>1. wpc[w] # "deltag"
    BY <1>3, <1>8 DEF CacheInv, TagsReachTrees
  <2>2. wpc[w] # "done"
    BY <1>2, <1>3, <1>6, <1>7, <1>8 DEF CleanTreesDropped, Complete, Clean
  <2> QED BY <2>1, <2>2
<1>10. w \in failed'
  <2>1. PICK v \in Writers : WriterStep(v) \/ WriterFault(v)
    BY <1>9 DEF Next, ReaderStep, ReaderFault, Get, SetLock, Poll, Build, SetValue, AddTag, ExpireTag, Unlock,
        BuildFails, ReadRedisError, PipelineError, ReaderCrash, Expiry, TagExpires, ValueExpires,
        RebuildLockExpires, vars, writer
  <2> QED BY <1>1, <1>9, <2>1 DEF WriterStep, WriterFault, Save, ReadTag, DeleteKeys, DeleteTag,
        WriteRedisError, WriterCrash, WGoto, TypeOK
<1> QED BY <1>10 DEF NoWriterFailed

\* A finished mutation has dropped what was completely cached when it was saved,
\* for any number of mutations at the same time.
THEOREM CleanTreesDroppedHolds ==
    Spec => []CleanTreesDropped
<1>1. Init => OldAreOver /\ CleanTreesDropped
  BY DEF Init, OldAreOver, CleanTreesDropped
<1>2. QED BY <1>1, CacheInvariant, OldAreOverStep, CleanTreesDroppedStep, PTL DEF Spec

-----------------------------------------------------------------------------

\* At most one request rebuilds under the lock, while no lock expires early.
THEOREM OneRebuilderHolds ==
    Spec => []OneRebuilder
<1>1. CacheInv => OneRebuilder
    BY DEF CacheInv, LockHasOneHolder, OneRebuilder
<1>2. QED BY <1>1, CacheInvariant, PTL
==============================================================================
