------------------------------ MODULE RedisLock ------------------------------
(***************************************************************************)
(* The keys of RedisLockService (src/src/shared/cache/redis.adapter.ts) as *)
(* Redis holds them: a key maps to the token of the acquire that set it.   *)
(* acquireLock is SET key token PX ttl NX, releaseLock a Lua script that   *)
(* deletes the key only if it still holds the caller's token, and Redis    *)
(* drops a key when its time to live is over.                              *)
(***************************************************************************)
CONSTANTS
    LockKeys,   \* lock:booking:<locationId>:<date>
    Tokens,     \* randomUUID(), one per acquire
    NoToken     \* the key does not exist

VARIABLE lock

Init == lock = [k \in LockKeys |-> NoToken]

TypeOK == lock \in [LockKeys -> Tokens \cup {NoToken}]

Free(k) == lock[k] = NoToken

\* Mutant: SET without NX.
Set_Overwrites(k, token) == lock' = [lock EXCEPT ![k] = token]

\* SET NX answers OK.
Set(k, token) ==
    /\ Free(k)
    /\ lock' = [lock EXCEPT ![k] = token]

\* SET NX answers nil: the key exists.
SetRefused(k) ==
    /\ ~Free(k)
    /\ UNCHANGED lock

\* Mutant: DEL without comparing the token.
Release_AnyToken(k, token) ==
    lock' = [lock EXCEPT ![k] = NoToken]

\* UNLOCK_SCRIPT, atomic in Redis.
Release(k, token) ==
    lock' = IF lock[k] = token THEN [lock EXCEPT ![k] = NoToken] ELSE lock

\* The time to live of the key is over.
Expire(k) ==
    /\ ~Free(k)
    /\ lock' = [lock EXCEPT ![k] = NoToken]
==============================================================================
