------------------------------ MODULE ServedTree -----------------------------
(***************************************************************************)
(* GET /locations/tree over the locations themselves: LocationTree writes  *)
(* the table, and TreeCache serves what buildTree reads from it. The two   *)
(* meet where create, update and remove call invalidateTree after their    *)
(* save, and where a rebuild runs buildTree.                               *)
(*                                                                         *)
(* TreeCache counts mutations; here a cached tree has a content as well,   *)
(* the one its author built.                                               *)
(***************************************************************************)
EXTENDS LocationTree

CONSTANTS
    Readers,        \* the GET /locations/tree requests
    Params,         \* rootId and type
    PollAttempts, Faults, NoValue   \* as in TreeCache

\* NoNode: all roots; Absent: nodes of every type.
ParamType == [root : Nodes \cup {NoNode}, type : Codes \cup {Absent}]

ASSUME ParamAssumption ==
    /\ Params \subseteq ParamType
    /\ Readers \cap Requests = {}
    /\ PollAttempts \in Nat \ {0}

VARIABLES
    version,                                    \* committed location mutations
    cache, tag, rebuildLock, tagTtl,            \* Redis
    rpc, param, locked, polls, value,           \* getTree, as in TreeCache
    wpc, members,                               \* invalidateTree
    met, failed, late, old,                     \* history of TreeCache
    built,                                      \* what buildTree has returned
    recoded                                     \* a rename of a type has changed locations

table   == <<vars, recoded>>
serving == <<version, cache, tag, rebuildLock, tagTtl, rpc, param, locked, polls, value,
             wpc, members, met, failed, late, old>>
servedVars == <<table, serving, built>>

Cache == INSTANCE TreeCache WITH tree <- version, Writers <- Requests, pc <- rpc

ASSUME FaultAssumption == Faults \subseteq Cache!AllFaults

-----------------------------------------------------------------------------
(* buildTree(rootId, type).                                                *)

Matches(n, p) == p.type = Absent \/ rows[n].type = p.type

\* The first part of the query: the roots, or the node asked for.
Start(p) ==
    {n \in Live : /\ Matches(n, p)
                  /\ IF p.root = NoNode THEN rows[n].parent = NoNode ELSE n = p.root}

\* The recursive part: the filter applies to every level.
Subtree(p) ==
    {n \in Nodes : \A S \in SUBSET Nodes :
        /\ Start(p) \subseteq S
        /\ \A c \in Live : rows[c].parent \in S /\ Matches(c, p) => c \in S
        => n \in S}

\* The nodes with what is shown of them; departments come from the join rows,
\* soft-deleted ones included.
BuildTree(p) == [n \in Subtree(p) |-> rows[n]]

\* UNION ALL never ends once the query has come upon nodes that are each other's
\* ancestors: a cycle it follows, all of which the filter lets through.
BuildEnds(p) ==
    ~ \E S \in SUBSET Subtree(p) : S # {} /\ \A n \in S : rows[n].parent \in S

NoTree == [n \in {} |-> NoRow]

ServedInit ==
    /\ Init
    /\ Cache!Init
    /\ built = [r \in Readers |-> NoTree]
    /\ recoded = FALSE

-----------------------------------------------------------------------------
(* Requests that change the table.                                         *)

Accepted(q) == code'[q] \in {200, 204}

\* Mutant: remove() does not call invalidateTree.
Mutate_NotOnRemove(q) ==
    /\ Change(q)
    /\ IF Accepted(q) /\ pc[q] = "save" THEN Cache!Save(q) ELSE UNCHANGED serving
    /\ UNCHANGED <<built, recoded>>

\* A step of POST, PATCH or DELETE /locations; its save commits a mutation, and
\* invalidateTree comes next.
Mutate(q) ==
    /\ Change(q)
    /\ IF Accepted(q) /\ pc[q] \in {"save", "delete"} THEN Cache!Save(q) ELSE UNCHANGED serving
    /\ UNCHANGED <<built, recoded>>

\* invalidateTree, and what may go wrong in it.
Invalidate(q) ==
    /\ wpc[q] # "save"
    /\ Cache!WriterStep(q) \/ Cache!WriterFault(q)
    /\ UNCHANGED <<table, built>>

\* /location-types and /departments change the table and invalidate nothing.
ChangeType(t) ==
    /\ BeginType(t) \/ CheckType(t) \/ WriteType(t)
    /\ recoded' = (recoded \/ rows' # rows)
    /\ UNCHANGED <<serving, built>>

ChangeDepartment(d) ==
    /\ RemoveDepartment(d) \/ AddDepartment(d)
    /\ UNCHANGED <<serving, built, recoded>>

-----------------------------------------------------------------------------
(* GET /locations/tree.                                                    *)

\* getTree: 404 for a rootId that names no live location.
Get(r) ==
    /\ Cache!Get(r)
    /\ rpc'[r] = "failed" <=> param[r].root \notin Live \cup {NoNode}
    /\ UNCHANGED <<table, built>>

Build(r) ==
    /\ Cache!Build(r)
    /\ BuildEnds(param[r])
    /\ built' = [built EXCEPT ![r] = BuildTree(param[r])]
    /\ UNCHANGED table

Read(r) ==
    \/ Get(r) \/ Build(r)
    \/ /\ \/ Cache!SetLock(r) \/ Cache!Poll(r) \/ Cache!SetValue(r) \/ Cache!AddTag(r)
          \/ Cache!ExpireTag(r) \/ Cache!Unlock(r) \/ Cache!ReaderFault(r)
       /\ UNCHANGED <<table, built>>

Expire(p) == Cache!ValueExpires(p) /\ UNCHANGED <<table, built>>

ExpireLocks ==
    /\ Cache!TagExpires \/ \E p \in Params : Cache!RebuildLockExpires(p)
    /\ UNCHANGED <<table, built>>

ServedNext ==
    \/ \E q \in Requests : Mutate(q) \/ Invalidate(q)
    \/ \E t \in TypeRequests : ChangeType(t)
    \/ \E d \in Departments : ChangeDepartment(d)
    \/ \E r \in Readers : Read(r)
    \/ \E p \in Params : Expire(p)
    \/ ExpireLocks

ServedSpec == ServedInit /\ [][ServedNext]_servedVars

\* Requests for locations and reads run on. No rename of a type has to come, and no
\* time to live has to end: what the cache promises it has to keep by invalidation.
FairServedSpec ==
    /\ ServedSpec
    /\ \A q \in Requests : WF_servedVars(Mutate(q)) /\ WF_servedVars(Invalidate(q))
    /\ \A r \in Readers : WF_servedVars(Read(r))

-----------------------------------------------------------------------------
(* Properties.                                                             *)

Content(p) == built[cache[p].by]

ServesTable(p) == cache[p] # NoValue => Content(p) = BuildTree(p)

\* The tree in the cache is the one in the table, whatever rootId and type it
\* was asked for, unless a mutation is just being invalidated, the rebuild met
\* one, something failed, or a type was renamed: nothing else that changes what
\* a tree shows forgets to invalidate it (create, update, remove).
CleanTreesShowTable ==
    \A p \in Params :
        \/ cache[p] = NoValue
        \/ Cache!Invalidating # {} \/ cache[p].by \in met \cup failed
        \/ failed \cap Requests # {}
        \/ recoded
        \/ ServesTable(p)

\* The reads whose tree is cached or about to be.
Authors == {r \in Readers :
    \/ rpc[r] \in {"set", "tag"}
    \/ \E p \in Params : cache[p] # NoValue /\ cache[p].by = r}

\* With TreeCache's invariant, what CleanTreesShowTable rests on: a tree of the
\* version the table has is the tree the table has, so that every save that
\* changes a location counts as a mutation.
ContentInv ==
    /\ DOMAIN code = Requests /\ DOMAIN built = Readers
    /\ \A r \in Authors : value[r] <= version
    /\ recoded \in BOOLEAN
    /\ recoded \/ \A r \in Authors : value[r] = version => built[r] = BuildTree(param[r])

\* Every mutation reaches the cache without the help of a time to live: in the end
\* each cached tree shows the table and goes on to, unless its rebuild ran into a
\* race, a process or a command has failed, or a type was renamed (invalidateTree
\* at the end of create, update and remove, for every rootId and type at once).
MutationsReachCache ==
    \A p \in Params :
        <>[](\/ cache[p] = NoValue \/ cache[p].by \in met \cup failed
             \/ failed \cap Requests # {}
             \/ recoded
             \/ ServesTable(p))
==============================================================================
