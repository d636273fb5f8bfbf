# Location & Booking API: a TLA+ model

These modules model the service in `src/` (NestJS, TypeORM on PostgreSQL, ioredis):
a tree of locations, rooms that departments book for time slots, a Redis lock and an
exclusion constraint that keep the slots apart, and a Redis cache of the tree. TLC
checks the modules on small instances; TLAPS proves the safety properties that matter
most for every value of the constants. Line numbers refer to `src/src/...` unless a
path starts with `src/`.

## 1. The system

| Component | State | Operations | Interacts with |
|---|---|---|---|
| Booking service (`modules/booking/booking.service.ts`) | table `bookings` with the constraint `no_overlap_booking` (migration 3) | `create`, `cancel`, `findOne`, `findMany` | reads rooms (`getEntityOrFail`) and departments; takes and releases the lock |
| Distributed lock (`RedisLockService`, `shared/cache/redis.adapter.ts:137-163`) | keys `lock:booking:<room>:<date>` with a token and a time to live | `acquireLock` (SET NX PX), `releaseLock` (Lua) | called by `create` only |
| Tree cache (`RedisCacheService`, `redis.adapter.ts:18-135`) | `location:tree:*`, `tag:location`, `lock:rebuild:*` | `remember`, `setTagged`, `invalidateTag` | read by `getTree`; invalidated by every location mutation |
| Location service (`modules/location/services/location.service.ts`) | `locations`, `location_departments` | `create`, `update`, `remove`, `getTree`, views | reads types and departments, invalidates the cache |
| Location types (`location-type.service.ts`) | `location_types`, referred to by code from `locations` | `create`, `update`, `remove` | foreign key ON UPDATE CASCADE, ON DELETE RESTRICT |
| Departments (`modules/department`) | `departments`, unique indexes on the exact code and name of active rows | `create`, `update`, `remove` (soft) | rooms list them; bookings name one |
| Seeds (`database/seeds`) | the maps of one run | `seedDatabase`, one transaction | writes departments and locations beside the API and other runs |
| Paged lists (`findMany`, `findAll`, `listParents`, `common/dto`) | none on the server; the reader's page | three statements per page | read tables that other requests change |
| Open-time rules (`common/open-time/open-time.ts`) | none | `parseOpenTimeRule`, `formatOpenTimeRule`, `checkOpenHours`, `dayRangeInTz` | used by booking and location |
| HTTP layer, health, configuration, demo page, containers | none of interest | | not modelled, see section 8 |

Any number of API processes run against one Postgres and one Redis. A handler gives up
the event loop at every `await`, so between any two statements or commands of a request
every other request may run. Only `BookingService.create` opens a transaction (and the seed script, which is no handler); all other
handlers are sequences of separate statements. This is where the behaviour is hard:

* the check and the write of every uniqueness, placement and overlap rule are two
  statements; what really holds is what the constraints of the tables hold;
* `save()` of an entity writes the row as the request read it, some statements ago;
* the lock has a time to live, its holder may die, its answers may be lost;
* an `INSERT` waits at the exclusion constraint for the end of a rival transaction, and
  two of them may wait for each other;
* invalidation of the cache is several commands which rebuilds and other invalidations
  come between.

What makes each component correct:

* **Booking**: no two confirmed bookings of a room overlap; an answer tells the truth about
  the booking; a booking met the rules for the room as it was read; a confirmed
  cancellation is final; every request is answered.
* **Lock**: only its owner or its time to live ends a lock; only the dead leave theirs behind.
* **Cache**: a tree that a mutation has overtaken does not stay, but for races that can be
  named, and the mutation drops it by itself; one request rebuilds at a time; every read is answered.
* **Locations and types**: live numbers and type codes are unique, every location has a
  type; the tree has no cycle and no live node below a removed one; nodes are placed as
  their types allow; a room that can be booked says which departments may book it.
* **Departments**: a code and a name belong to one active department; a removed one stays removed.
* **Seeds**: all of the seed or none, each row once, every parent before its children.
* **Lists**: a row that stays is shown, and shown once.
* **Open time**: a rule means the days and hours it says, and the two ends of a booking are
  enough to decide; the day filter holds exactly the day.

`PROJECT.json` lists the hazards, each at its line with the properties that look at it.

## 2. The modules

| Module | Models | Extends |
|---|---|---|
| `RoomCalendar` | what booking promises: a calendar per room that a request changes in one step | |
| `RedisLock` | the keys of the lock in Redis | |
| `OpenHours` | wall clocks, `checkOpenHours`, `dayRangeInTz` | |
| `OpenTimeRule` | `parseOpenTimeRule`, `formatOpenTimeRule` | `OpenHours` |
| `Booking` | `create` and `cancel`; rooms and departments changing; Redis and Postgres failing | `OpenHours`, instance of `RedisLock`, implements `RoomCalendar` |
| `TreeCache` | `getTree`, `remember`, `setTagged`, `invalidateTag` | |
| `LocationTypes` | `create`, `update`, `remove` of types | |
| `LocationTree` | `create`, `update`, `remove` of locations; with the types and departments that come and go | `LocationTypes`, implements `LocationDirectory` |
| `LocationDirectory` | what locations and types promise: one step per request, a forest of well-placed nodes | |
| `ServedTree` | `getTree` over the table: `buildTree` with root and type, mutations that invalidate and changes that do not | `LocationTree`, instance of `TreeCache` |
| `Departments` | `create`, `update`, `remove` of departments, ILIKE and the indexes | implements `DepartmentCatalog` |
| `DepartmentCatalog` | what departments promise: unique whatever the case, one step per request | |
| `SeedData`, `Seeding` | the seed and the seeded types; runs of `seedDatabase` among users | |
| `Listing` | a reader of the paged lists while rows come and go | |
| `BookingProofs`, `TreeCacheProofs`, `LocationProofs`, `ServedTreeProofs`, `DepartmentProofs`, `SeedingProofs`, `ListingProofs` | theorems | the module, TLAPS |
| `OpenTimeProofs` | theorems about open hours, days and rules | `MCOpenTime`, TLAPS |
| `MC...` | small instances for TLC | the module |

### Booking

One action per round trip. `pc[r]` names the statement a request is about to execute:

| `pc` | Code | Actions |
|---|---|---|
| `load` | `:60` `getEntityOrFail` | `LoadRoom` |
| `rules` | `:61`, `assertBusinessRules` | `AssertBusinessRules` |
| `lock` | `:76` `acquireLock` | `AcquireLock`, `LockUnavailable`, `AcquireReplyLost` |
| `overlap` | `:92` `findOverlap` | `FindOverlap` |
| `insert` | `:109` the row is added | `InsertRow` |
| `check` | `:109` the constraint is checked, the INSERT may wait | `PassConstraint`, `ExclusionViolation`, `DeadlockDetected` |
| `commit` | `:91` end of the transaction | `Commit` |
| `release` | `:126` `releaseLock` | `ReleaseLock`, `ReleaseReplyLost` |

`row[r]` is the row request `r` has added: `inserted` while it is uncommitted, then
CONFIRMED or CANCELLED. `seen[r]` is the room as it was read, `outcome[r]` the status code.
Postgres adds the row before it checks the constraint; hence `insert` and `check` are two
steps, and two requests at `check` that overlap wait for each other until Postgres ends one
(`DeadlockDetected`, 40P01). A lost answer to COMMIT and the death of the process leave
open whether the booking exists. While `redisUp` is false, commands wait in the client
(`maxRetriesPerRequest: null`) and are sent again on reconnection. `cancel` is `CancelFind`
and `CancelSave`; relations that were soft-deleted are read as null and may make the save
fail. The lock, the time of day and the room's rules are those of `RedisLock` and `OpenHours`.

### Open hours

An instant is a number of seconds, a zone a function from instants to offsets (so clock
changes are a step of the function), a time of day a number of minutes. `OpenTimeRule`
takes texts apart into ranges of days and two times; every malformed text is one refused
value.

### TreeCache

The tree's content is the number of committed mutations it shows. `remember` is `Get`,
`SetLock`, `Poll`, `Build`, `SetValue`, `AddTag` and `ExpireTag` (the pipeline of `setTagged`),
`Unlock`. `tagTtl` says that the tag set has a time to live: a set that SADD creates has none before
the EXPIRE, and one that is there keeps the old one until then.
A mutation is `Save`, then `ReadTag`, `DeleteKeys`, `DeleteTag` (`invalidateTag`). A pipeline
is not a transaction: its commands are separate actions, and each may fail unnoticed.
`met`, `failed`, `late` and `old` record what has happened and guard nothing: rebuilds that
overlapped an invalidation or lost their tag to the end of the set between SADD and EXPIRE, requests of which a command failed, holders whose rebuild lock
expired, and entries that were complete when a mutation was saved.

### LocationTypes, LocationTree

One action per statement again: `FindParent` or `FindNode`, `AssertNumberFree`,
`AssertNoCycle`, `FindNewParent`, `AssertPlacementAllowed`, `ApplyBookableFields`,
`ResolveDepartments`, `Save`, or `CountChildren` and `SoftRemove`. `entity[q]` is the entity
in the request's memory; `Save` writes it as it is, which also brings back a row that was
soft-deleted meanwhile. Changes of the entity that need no statement belong to the next
action that executes one. `Below(n)` is the result of the recursive query, as the least set
closed under children; below a cycle `UNION ALL` never ends, and `AssertNoCycle` has no step.
A row of the database is never
deleted. `raced` becomes true
for good when a request begins while another is on its way, and guards nothing. Until then
`Directory`, an instance of `LocationDirectory` over the same two tables, is what the requests
implement: all reads of a request change nothing there, its save is one step. Capacity and open hours are one Boolean, `open`: `applyBookableFields` sets or clears them
together.

### ServedTree

`LocationTree` and `TreeCache` run together. They meet in two places: a save that is accepted is
`TreeCache`'s `Save`, so the version there counts the mutations of this table; and `Build` runs
`BuildTree` on the rows as they are. `built[r]` is what reader `r` has built, so a cached entry,
which names its author, has a content. `Subtree(p)` is the recursive query for a root and a type,
as the least set closed under both of its parts; `Build` has no step when the query runs into a cycle
that its filter lets through (`BuildEnds`). Types and departments change without a step of
the cache, as in the code; `recoded` remembers that a rename of a type has reached locations.

### Departments

`FindNode`-like reads, a check per field (`code`, then `name`) and a save or a soft-delete, one
action per statement. `ILike` is a relation of pattern and text, so that `E_M` matches `EFM`;
`Fold` forgets case, and the indexes compare texts. Until two requests overlap (`raced`, as
above) the module implements `DepartmentCatalog`, which shows removed departments as `Removed`
for ever.

### Seeding

A run finds and saves department after department, then location after location; `at[r]` is its
place in the seed. Rows it has written carry it in `by` until it commits: other runs and users do
not see them, but an INSERT with an equal key has no step until they are committed or gone.
`deptByCode` and `locByNumber` are the two maps. Users remove locations, add buildings under
numbers of the seed, remove and re-code departments, one edit being one step: what happens
between the statements of their requests is in `LocationTree` and `Departments`. `SeedData` is
the real seed with the types of migrations 4 and 6.

### Listing

Rows are named by their place in the order of the list, of which no two are equal: codes and
numbers are unique among live rows, and TypeORM adds the id to the order of a list that joins.
A page is up to three statements, `SelectIds`, `SelectRows`, `Count`, with changes of the table
between any two. The reader starts at page 1 and goes on while `totalPages` says so. `came` and
`left` remember whether a row has come or gone, `always` the rows that never left.

## 3. The runs

| Run | Asks | Instance |
|---|---|---|
| `booking_faults` | do calendar, answers and locks stay right under every fault, does `Booking` implement `RoomCalendar`, does every request end? | 2 requests, 1 cancellation, two slots that overlap under different lock keys, or one slot twice; all faults |
| `booking_rules` | does every row meet the rules for the room as read; does the lock alone suffice while Redis works, is every overlap answered 409, and every lock released? | 2 requests, 2 rooms in three states each, bodies that some state of a room refuses, slots that touch, room and department removed, crashes |
| `open_time` | do rules and bookings mean what they say? | every rule over 3 times of day, every booking up to 9 half-hours within 64 half-hours (of 48 to a day) on either side of a clock change |
| `tree_cache` | when can a tree be stale; does a mutation drop what was cached; who rebuilds? | 2 reads, 2 mutations, 2 keys, slow rebuilds |
| `tree_cache_live` | is every read answered and every stale tree dropped? | 2 reads, 1 mutation, 1 key, crashes and errors |
| `location_tree` | do the constraints hold through every race; do requests implement `LocationDirectory` until two overlap? | 3 requests of 9 bodies, a request for types of 4, a department that comes and goes, 3 ids |
| `served_tree` | is a cached tree the one of the table, whatever its parameters; does every mutation reach it without the help of a time to live? | 1 mutation, 1 rename of a type, 1 reader, 2 parameter sets, crashes and Redis errors |
| `departments` | do the indexes hold through every race and stale save; do requests implement `DepartmentCatalog` until two overlap? | 3 requests of 11 bodies over 5 texts, 3 ids |
| `seeding` | is the database seeded wholly or not at all, once, as the types allow; what does a run make of users' edits; may runs wait for each other in a circle, and do all end? | 2 runs, 2 departments, 4 locations (building, floor, lobby, room), 2 edits, crashes |
| `listing` | which rows does a reader of pages see? | 5 places, limits 1 to 3, all three lists, rows coming and leaving at any time |
| `redis_outage`, `tree_tag` | each refutes one sentence of the docs, section 5 | the smallest that shows it |

Why the bounds are enough. In *booking*, conflicts at the constraint are pairwise (the
wait, the violation, the lost lock), so two requests with overlapping, touching and equal
slots meet every guard (equal and overlapping ones in both runs, touching ones in
*booking_rules*, whose seven bodies have them, and with them every rule: too many attendees, another department, an end after
closing time, a slot over midnight, none at all); a day of eight minutes has room for slots inside, outside and across
the open hours and over midnight of either zone. In *tree_cache* a stale tree needs a
rebuild and an invalidation, losing a tag a second invalidation, and the lock a second
reader; two keys tell a tag's members from the tag. `PollAttempts` is 1: more polls repeat
the same step. In *location_tree* the smallest cycle has two nodes, a node may lose its
parent, a number or code can be taken between check and save, and the third id lets a node
be added. In *open_time* a day has 24 units of two instants, enough to tell a dropped
second from a minute and to give zones offsets of hours. In *departments* three requests are two
that race and one that saves what it read before, and the five texts have one pair that differs
in case, one in blanks and one pattern. In *seeding* collisions are pairwise;
the four locations are a chain of three, the depth of the seed, since an edit matters where a
parent is looked up, and a room with departments; an assumption of `MCSeeding` looks at all rows
of the real seed. In *served_tree* one mutation is enough: the cache under several is what
*tree_cache* is about, and here it is what a tree holds that matters. In
*listing* five rows make five, three or two pages, the last full or not. What goes beyond the
bounds is left to the proofs.

`CHECK_DEADLOCK FALSE` is set where the requests of the instance are all done in the end
and nothing is left to happen (cache, locations, departments, seeds, lists, open time). `Booking` has a step `Finished`
for that, so its deadlock check means something: no request ever waits with nobody to
end the wait.

Symmetry is used only in runs without liveness properties, over requests that only their
bodies tell apart; `ImplementsDirectory` under it is an action property.

## 4. The properties

* `NoDoubleBooking`, `AnswersAreTrue`, `CancelledStays`, `RulesRespected`: section 1.
* `ImplementsCalendar`: with `row` read as committed rows, every step of `Booking` is a step
  of `RoomCalendar` or changes nothing there. The commit is the step that books, the answer
  being decided with it.
* `LockTakenByOwnerOnly` (an action property), `HolderKeepsLock`: the lock. The second
  assumes that no time to live ends early.
* `LockKeepsSlotsApart`: with clients that agree on the date of an instant (`DatesAgree`) and a
  Redis that neither fails nor expires a lock early (`LockIsThere`), two requests whose slots
  overlap never come to the constraint together. Both conditions are about constants and
  hold of the instance of *booking_rules*. `OverlapAnswered409`: then nobody is answered 500 either,
  since no two INSERTs wait for each other.
* `ConflictHasRival` (an action property): while no answer of Redis is lost, each step that answers 409
  meets another request for the room that has passed the rules, as holder of the key or with a confirmed
  booking that overlaps. The exception is real: a SET that is sent again finds the key it has set itself.
* `LocksAreReleased`: while Redis does not fail, a key belongs to a request that still runs or comes to
  release it, or that died: no way out of the `try` of `create` forgets it.
* `EveryRequestEnds`: liveness.
* `StaleOnlyAfterRace`, `OneRebuilder`, `EveryReadEnds`, `EventuallyFresh`: the cache.
  `CleanTreesDropped`: a mutation that has finished has dropped every tree that was cached and
  tagged when it was saved, apart from rebuilds that met an invalidation (`tree_tag`) or the end of the tag set, and from failing commands,
  with other mutations and rebuilds on their way.
* `NumbersUnique`, `EveryNodeHasAType`: constraints, in every interleaving.
  `ImplementsDirectory`: the checks of the service, until two requests overlap. The first
  step of a request reads a whole, well-placed forest with unique numbers and types, and its
  save leaves one. After an overlap the model reaches cycles and orphans, since the checks and the
  save are separate statements and no constraint stands behind them (section 5).
* `CleanTreesShowTable`, `MutationsReachCache`: what a cached tree shows against the table,
  where `StaleOnlyAfterRace` counts versions. The first says that each of `create`, `update` and
  `remove` invalidates, and that departments need not, a tree listing them removed or not. The second
  is liveness without any time to live: the invalidations alone bring every cached tree to the table.
* `TextsUnique`, `ImplementsCatalog`: departments, racing and until they race. What is promised
  of both services only holds of requests that do not overlap, so the refinement says when it ends.
* `SeedIsWhole`, `LoneRunsCommit`, `SeedObeysTypes`, `NoDuplicates`, `ParentsResolve`,
  `RunRestores`, `EveryRunEnds`: the seed script, which passes by the checks of the services:
  that its rows obey the placement rules is a fact about its data. `RunRestores` compares a
  database that users have changed with what the next run makes of it; edits during the run are
  excepted, since they may remove a parent that the run has found. `SomeRunGoesOn`: an INSERT waits
  at a unique index for the run that holds an equal key, and some running run waits for none; it
  depends on all runs taking the keys in one order.
* `StayingRowsShown`, `ShownOnce`: the lists. Both except what offsets cannot give: a row that
  leaves moves later rows to pages that were read, a row that comes shows one twice.
* `ParsedDaysAreTheRange`, `ShownRuleReadsBack`, `OpenThroughout`, `DayRangeIsTheDay`.

Each is paired in `PROJECT.json` with a mutant, a plausible bug written beside the definition
it changes (`..._Forgotten`, `..._NoWrap`, ...); the property fails on it.

## 5. Where code and documentation disagree

Two runs refute a sentence of the docs or of a comment:

* **`redis_outage`**: `booking.service.ts:70-71` promises that an outage of Redis never blocks
  bookings. The client never gives up a command (`cache.module.ts:26`), so `acquireLock`
  neither returns nor throws while Redis is down. TLC shows a request that stays at `lock`.
* **`tree_tag`**: `src/docs/api.md:53` says the tree is invalidated on any location mutation. A key
  added to the tag set between SMEMBERS and the DEL of the set is not in the set any more,
  and later mutations leave it cached until its ten minutes end. Without such a race:
  `CleanTreesDropped`.

Four sentences hold under a condition the docs do not state. A formula states each with its condition,
and a theorem says that the condition is enough; without it the model behaves as the code does.
`WalksEndUntilRaced` and `NoDuplicateUntilRaced` have no run of their own, since `ImplementsDirectory`
and `ImplementsCatalog`, which the runs check, promise more:

* `src/docs/api.md:275` says that overlap is answered 409. Two INSERTs that wait for each other end
  with 40P01 for one of them, which is answered 500 (`DeadlockDetected`). The two pass the lock
  because they write the slot in different offsets. With dates that agree and a working
  lock: `OverlapAnswered409`.
* `update-location.dto.ts:6-8` says a move makes no cycle. Two moves that run together both pass
  `assertNoCycle`; every walk that meets the cycle then never ends. Until two requests overlap:
  `WalksEndUntilRaced`.
* `department.service.ts:21` says codes and names are unique whatever the case. Two requests that look
  before either saves pass, and the indexes compare exact texts (`IndexAllows`). Until two requests
  overlap: `NoDuplicateUntilRaced`.
* `open-time.ts:182` says that the filter bounds a calendar date. `zonedMidnight` takes the offset
  of midnight UTC, which east of UTC comes after the local midnight, so in Auckland (whose offsets
  `MCOpenTime` defines) the filter is an hour off on the day the clocks change. West of UTC, and
  wherever `MidnightSettled`: `DayRangeIsTheDay`.

In these cases the models also behave as the code does, against the docs; no property asserts the
contrary:

* `booking.service.ts:222-223` says every bookable room has a department. A PATCH that gives a
  node a bookable type without naming departments is accepted (`ResolveDepartments`).
* `src/README.md:18-19` says a booking whose department is not in the room's set is rejected.
  Soft-deleted departments leave the set as read, and the empty set means no restriction
  (`RoomRules`).
* `src/README.md:21` says a booking falls within the room's hours. `wallClockInTz` drops the seconds
  (`open-time.ts:175`), so a booking may end up to a minute after closing time (`CheckOpenHours`);
  `OpenThroughout` takes the room to be open through the whole of its closing minute.
* `src/docs/api.md:222` says a node with children is not deleted. A child may be created between the
  count and the soft-delete.
* `src/docs/api.md:438` says that PATCH renames a type only if it is unused, and updates `allowRoot`
  and `allowedParentTypes`. It does neither (`FindType`, `AssertCodeFree`, `SaveType`).
* `src/docs/api.md:63` says `type` filters nodes. The query filters roots and every level by it, so
  that a type that is never a root shows nothing (`Subtree`).
* `src/docs/api.md:93` says the tree lists departments allowed to book. It lists soft-deleted ones
  too (`BuildTree`).
* `src/docs/api.md:365` says 409 means a duplicate. The code goes to ILIKE as a pattern, where `_`
  and `%` match what is no duplicate (`CheckCode`).
* `department.entity.ts:5` says `code` is immutable. PATCH changes it (`CheckCode`).

Seen while reading, outside the models: `LOCATION_TREE_CACHE_TTL` is documented and not read; a
seed that was run drops no cached tree; ids and page numbers that Postgres does not take, and
dates that are no days, are answered 500.

## 6. Fairness

* `Booking`: weak fairness of each request's database steps (the event loop and Postgres go
  on) and, in `FairSpec`, of the reconnection. The expiry of a key is not fair: no request waits for one. Strong fairness
  of `AcquireLock` and `ReleaseLock`: a command waits in the client's queue and is sent when
  the connection is up; connections that come and go for ever but are up again and again
  serve it in the end. `OutageSpec` leaves the reconnection out: Redis may stay down.
* `TreeCache`: weak fairness of the steps of each request and of the expiry of values. A
  crashed request has no step, so fairness asks nothing of it. Faults are never fair.

* `ServedTree`: the same of the requests for locations and the readers of the composition. Renames of
  types need not come (`MutationsReachCache` excepts behaviours that have one), and values need not
  expire, so that what comes to the cache comes by invalidation.
* `Seeding`: weak fairness of each run: Postgres answers every statement. A run that waits for an
  uncommitted row has no step; the owner of that row has one, or crashes and is rolled back.

The waits at the constraint are resolved by `DeadlockDetected`, part of the database's
fair steps: Postgres looks for deadlocks after `deadlock_timeout`.

## 7. The proofs

`tlapm` proves all obligations of the eight proof modules. They assume the named assumptions of
the constants, which TLC evaluates for the instances: sets are of the right type and null is
no value (`BookingAssumption`, `ClockAssumption`, `CacheAssumption`, `ParamAssumption`,
`FaultAssumption`, `TreeAssumption`, `DepartmentAssumption`, `ListingAssumption`,
`RangeAssumption`); the seeded tables satisfy the constraints and are a forest
(`SeedAssumption` of locations and departments, `ForestAssumption`); `ILikeAssumption`; the seed lists parents first, obeys
the types and has no key twice (`SeedAssumption`, `SeedRulesAssumption`, `SeedKeysAssumption` of
`Seeding`; the last two are also checked on the whole real seed by `MCSeeding`). Nothing is assumed finite but the rows of a list.

Every invariant and every action property of section 4 is a theorem; what is left to TLC is at the end.

**`BookingProofs`.** `BookingInv` is inductive. `NoDoubleBooking` alone is not: two requests could
both stand before COMMIT. `ClaimsDisjoint` says of requests that have passed the constraint
what is to be shown of committed bookings, and `RowMatchesStep` that exactly the requests
between INSERT and COMMIT have an uncommitted row, so that a request that passes the constraint
has seen all of them. `AnswerMatchesRow` and `CancelFoundRow` do the same for answers. From it:
`NoDoubleBookingHolds`, `AnswersAreTrueHolds`, `CancelledStaysHolds`. `HolderKeepsLockHolds` and
`RulesRespectedHolds` have invariants of their own (`LockInv`, `RulesInv`);
`LockTakenByOwnerOnlyHolds` is an action property; `ImplementsCalendarHolds` is the refinement:
the initial states are the calendar's, and one lemma per kind of step shows a step of the
calendar or a stutter.

`ConflictHasRivalHolds` and `LocksAreReleasedHolds` add `KeyInv`: a key is that of a request which has passed the
rules, has been told that it has the key (`HasSet`), and has not come past its release unless Redis failed. `LockKeepsSlotsApartHolds` puts three things together. Bodies that passed the rules stay within a
date, so two that overlap have one lock key (`OverlapSharesKey`). Holders keep their key
(`LockInv`), so two such requests are never both between lock and release (`SectionsApart`). And
so whatever row is there when a request runs `findOverlap` is still all there is when it inserts.
`DatesAgreeWithoutSetback` says when dates agree: clients write the zone's offset, and no change of
the clocks shows a later instant as an earlier local time. `OverlapAnswered409Holds` follows: a
500 without a failing database can only come from `DeadlockDetected`, which needs two overlapping
requests at the constraint.

**`TreeCacheProofs`.** `CacheInv`: an entry is what its author built (`EntriesHaveAuthors`); a
rebuild that no invalidation met is current (`RebuildsAreCurrent`); the tag set, or the
members an invalidation holds, lead to every clean entry (`TagsReachTrees`); and a lock taken
is held (`LockHasOneHolder`). `TagsReachTrees` is needed because an entry is dropped through the
tag set. From it: `StaleOnlyAfterRaceHolds`, `OneRebuilderHolds`. `CleanTreesDroppedHolds` adds
`OldAreOver`: an entry that was complete at a save is one of a rebuild that is over, so nobody
writes it again, and by `TagsReachTrees` the mutation's members lead to it.

**`ServedTreeProofs`.** `ServedTreeImplementsCache`: each step of the composition is one of
`TreeCache`'s or leaves its variables alone, so `CacheInv` holds without being proved again.
`CleanTreesShowTableHolds` is about contents. `ContentInv` says that what a reader has built by the present
count of mutations is the tree of the present table: a save moves the count on, a
rename of a type sets `recoded`, and a department that goes is not in what is compared.

**`LocationProofs`.** `TreeInv` joins the constraints with what requests hold on their way: `Save`
writes an entity to the table, and `Save` of a type sends a code through all locations, so
both have to be of the right type when they are written. One lemma per kind of step; the
hardest is `CascadeKeepsTypes`, the foreign key: unique codes make the cascade a function,
and a type is deleted only when nothing refers to it. From it: `NumbersUniqueHolds`,
`EveryNodeHasATypeHolds`.

`ImplementsDirectoryHolds` needs more: `SerialInv`, of the states before the first overlap. The
locations are a forest of well-placed nodes, and `HoldsNew`, `HoldsNode` and `HoldsType` say of the one request
that is under way what each of its statements has established, against tables that are still the
same. A checked move makes no cycle (`MovedForest`): a set of nodes without a way out, less a set
closed under children that holds the moved node's subtree and not its new parent, would have had
none before. `WalksEndUntilRacedHolds` reads the same invariant for the recursive queries: in a forest no
node is below itself (`ForestHasNoCycle`), so every walk ends.

**`DepartmentProofs`.** `DepartmentInv` is types and the two indexes: `TextsUniqueHolds`. The
refinement `ImplementsCatalogHolds` is about every behaviour of `Spec`, up to the first overlap: its
invariant `CatalogInv` adds `SerialInv` to states with `raced` false. `SerialInv` says what the
one request that is on its way has read and checked: its entity is the row in the table, and no
other active row has its code or name whatever the case. That follows from `ILikeAssumption`: a
text matches itself in every case. So a save is a `Create` or `Change` of the catalog.
`NoDuplicateUntilRacedHolds` reads the same invariant for the table.

**`SeedingProofs`.** `ParentsResolveHolds` rests on `MapsHoldPassed`: the maps hold every key the run
has passed, whether the row was found or inserted; with a seed that lists parents first
(`SeedAssumption`) both lookups succeed. `NoDuplicatesHolds` needs no strengthening but types:
a row enters a table only when no live row, committed or not, has its key, and a commit
changes no key.

The others stand on three invariants. `HistoryInv`, always: a row is committed or its run is under way
(`Owned`), ids are bounded numbers, and a run in `alone` is the only one running. `QuietInv`, while no
edit has disturbed a run: what a run has passed is in the tables as that run sees them (`FoundBy`), through
the steps of all others, and no live location stands under a removed one (`LiveParents`); a run that
commits has passed the whole seed, hence `RunRestoresHolds`. `SeededInv`, before any edit: every location is
one of the seed under the row of its seeded parent (`FromSeed`), one committed row means all
(`AllOrNothing`), and a lone run saves only what no row has (`LoneSaves`): `SeedIsWholeHolds`,
`SeedObeysTypesHolds`, `LoneRunsCommitHolds`.

`SomeRunGoesOnHolds` orders the runs by their place in the seed. What a run has inserted it has passed
(`WrittenPassed`, with `SavesKeys` for the entity it is about to save), and no key occurs twice in the
seed, so a run waits only for runs that are further on; the furthest of all waits for none.

**`ListingProofs`.** `SeenBefore` says where the rows already seen are: before the page, unless a row
has come. It is kept because a row that leaves lowers the ranks of later rows only
(`RankFalls`), and because a page ends where the next begins (`Ends`): `ShownOnceHolds`.
`StayingRowsShownHolds` has the counterpart, `UnseenAhead`: unless rows leave, a row that was not seen
is being read or lies after what was read, and then the page under way is full. That a page
holds `limit` rows when a row lies behind it is a count of sets, so `totalPages` says there is more to read.

**`OpenTimeProofs`.** For every zone. `OpenThroughoutHolds` is about the states in which no clock goes back during
the booking (`ClocksForward`): there dates, and times within a date, follow instants
(`WallClockMonotone`). `DayRangeIsTheDayHolds` asks the same between the instant and the midnights, and
`MidnightSettled`: the offset that `zonedMidnight` finds at midnight UTC is of whole minutes and still
the offset at the local midnight, which is exactly what fails east of UTC on the day of a change
(section 5). `NewYorkIsExact`: in the zone of the run both hold without conditions.
`ParsedDaysAreTheRangeHolds` unfolds the walk of `expandDays`, seven steps at most.
`ShownRuleReadsBackHolds` does the same with `formatOpenTimeRule`: its loop over the sorted days is
`DayRanges`, a recursive function over sets of days. The days of a parsed rule are a run within the week,
which comes out as one range that parses to the same days, or wrap around Sunday, which comes
out as two and is refused.

Only model-checked: liveness (`EveryRequestEnds`, `EveryReadEnds`, `EventuallyFresh`,
`MutationsReachCache`, `EveryRunEnds`), which the provers cannot do. The library's induction
theorems, which take an operator, cannot be used either; what the proofs need of that kind they have
by unfolding as far as the data goes, or from a least number with a property (`LeastNat`), which is how
`SeedingProofs` knows the greatest id.

## 8. What is not modelled

* `findOne` of each service: one or two statements that decide nothing. The filters of the lists,
  but for the day of `findMany`, are plain conditions of a query.
* Controllers, validation, pipes, the exception filter, the health check, configuration,
  the throttler, the demo page, the containers: no state of their own, or a library's. The
  models take bodies that have passed validation.
* `name`, `label` and timestamps of locations and types; names, capacities and hours of the seed.
* Failing statements of the location and department services: each of their statements commits
  by itself, so a failure is a request that stops, as the models' requests may at any step.
* In `Seeding`, renamed types: the foreign key would make a run fail as a whole, as a duplicate
  does. That a seed drops no cached tree: the script runs outside the API.
* A composition of `LocationTree` and `Booking`: a booking reads a room once, and `Booking` lets the
  room's record change in every way at any time, which includes what `LocationTree` does.

## 9. Plan

Done: all modules of section 2 with their runs, and the proofs of section 7.

Left: a reader of `Listing` that goes back to pages it has seen. Rows that move in the order of a list
need no more than is there: a row that moves leaves one place and comes to another.
