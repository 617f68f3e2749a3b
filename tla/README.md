# Verification of distributed-lock-go

TLA+ models of the lock library, the TLC runs that check them on small
instances, and TLAPS proofs of their main properties for every value of the
constants.

    tlc -workers 2 -config redis_exclusive_lease.cfg MCRedisExclusiveLock
    tlapm RedisExclusiveLockProofs.tla

## The system

| Component | State | Operations | Interaction |
|---|---|---|---|
| `interface.go` | `LockOptions`: TTL, retries, lock type | `TryLock`, `Lock`, `Unlock`, `Renew`, `IsLocked`, `Close` | implemented by every lock below |
| `redis_exclusive_lock.go` | in the process: `lockValues`, a `sync.Map` from key to random lock value; in Redis: one key with an expiry | the operations, each as one Lua script | its script looks at the counter of the shared lock |
| `redis_shared_lock.go` | `lockValues`; in Redis: a counter, a set of lock values, their expiry | the same, and `GetLockCount`, `GetLockHolders` | its script looks for the key of the exclusive lock |
| `redis_combined_lock.go` | one of each | `TryLock`/`Lock` dispatch on the lock type; `Unlock`/`Renew` try the exclusive lock, then the shared one | what the factory returns |
| `etcd_exclusive_lock.go` | `lockValues`, `leaseIDs`; in etcd: one key with a lease | grant, transaction, then a separate `Put` | reads the counter of the shared lock |
| `etcd_shared_lock.go` | `lockValues`, `leaseIDs`; in etcd: a mark, a counter, a key per holder | transaction, then a separate `Put` of the counter | looks for the exclusive key |
| `etcd_combined_lock.go` | one of each | as the Redis one | |
| `etcd_mutex_lock.go` | tables of `concurrency.Mutex` and `Session` | `TryLock`, `Lock`, `Unlock`, `Close`; `Renew` does nothing | the etcd client's recipe |
| `service.go` | `LockService`: a lock and options; `LockManager`: a map of services under a mutex | `WithLock`, `TryWithLock`, `AutoRenew` | calls a lock, runs the caller's function, unlocks |
| `factory.go` | none | construction, defaults (`MaxRetries` 3, `Prefix`) | |

What is hard in this code: many goroutines share one lock object and with it one
lock value per key; a call is several steps (look up the value, send a script,
change the table) with others in between; the client library repeats a script
whose reply was lost; processes crash and leave their locks to the expiry;
holders overrun their lease and come back with calls on a lock that belongs to
someone else; the two halves of a combined lock must find each other's keys.
`PROJECT.json` lists the hazards line by line with the properties that cover
them.

What makes each component correct:

- exclusive lock: two clients are never within a lease at once; a holder can
  release what it holds; every call returns; a lock that nobody knows expires;
- shared lock: the counter covers the members, and a reader within its lease is
  counted, since the counter is all that keeps a writer out;
- combined lock: asking both locks in turn disturbs no other client; readers and
  writers exclude each other;
- etcd locks: the same, with leases in the place of expiry;
- mutex lock: whoever has the mutex can unlock it; a session that nobody can
  close does not stay alive;
- service: a function runs only with the lock, and the lock is released after it.

## The modules

| Module | Models |
|---|---|
| `RedisClient` | the calls of the goroutines, the `lockValues` table, requests and replies, timeouts, crashes, time |
| `RedisExclusiveLock` | extends it with the lock key and its three scripts |
| `RedisSharedLock` | extends it with the counter, the set and their three scripts |
| `RedisCombinedLock` | an instance of each, with separate variables, and the calls that use both |
| `ReadWriteLease` | abstract specification: exclusive and shared leases on a key |
| `EtcdMutexLock` | the tables of mutexes and sessions, the calls on them, and of etcd the keys in the order of their creation and the leases |
| `EtcdClient` | what the two etcd locks share: their tables of values and leases, the calls on them, the leases in etcd, faults |
| `EtcdExclusiveLock` | extends it with the lock key: the check, the `Put` that follows, the deleting transaction |
| `EtcdSharedLock` | extends it with the counter and the keys of the readers |
| `EtcdCombinedLock` | both side by side, the names of their keys, and the calls that use both |
| `MC...` | the small instances for TLC |
| `RedisClientProofs`, `RedisExclusiveLockProofs`, `RedisSharedLockProofs`, `RedisCombinedLockProofs` | theorems about the Redis locks |
| `EtcdMutexLockProofs`, `EtcdCombinedLockTypes`, `EtcdCombinedLockProofs` | theorems about the etcd locks |

### State and actions

One user key is modelled; locks on different keys share nothing. `lockValues[i]`
is the entry of lock object `i`, `call[g]` the call that goroutine `g` is in, with
its place in the code:

| `pc` | where the goroutine is |
|---|---|
| `ready` | outside a call |
| `load`, `store` | in `getLockValue`, before `Load`, before `Store`: two steps, as in the code |
| `eval` | in `client.Eval`, the script has not run |
| `reply` | the script ran, its reply `ok` is under way |
| `wait` | in the `select` of `Lock` |

A script is one atomic step of the server (`Eval`). `TryLock` is `Lock` in its last
round (`attempt = RetryCount`). After the reply the call returns (`Acquired`,
`Refused`, `NotHeld`, `RenewReturns`), deletes its entry (`Released`, a step after
the server's) or waits for another round (`Backoff`, `Wake`, `Cancel`). `Renew` may
be called by any goroutine at any time, as `AutoRenew` does in a goroutine of its
own; also by one that has no lock, in which case `getLockValue` leaves a value in
the table. `TryLock` and `Lock` may be called by a goroutine that has the lock
already, as in `examples/shared_lock_demo.go:271`. A lock value is a pair of its object and a token: 128 random bits do
not repeat, so `Store` takes a token that is in use nowhere, and as nothing but
equality matters it takes any.

Faults, each switched on by a member of `Faults`:

- `timeout`: the request or the reply is lost, or the request is delayed and
  reaches the server later (`late`); go-redis sends it again up to `MaxRetries`
  times, then the call fails;
- `straggle`: a delayed request may also take effect after its call returned;
- `crash`: a process stops and starts with an empty table; its delayed requests
  are still in the network;
- `overrun`: a holder may be at work when its lock expires.

Two history variables serve the properties. `held[g]`: `g` was told that it has
the lock and has not called `Unlock` (or crashed). `lease[g]`: what is left of the
time that the server granted to `g`; it starts when the script runs, before `g`
knows, and ends when `g` calls `Unlock`, when it runs out, when `g`'s request is
given up or when its process crashes.

Time passes in ticks, `Second` of them in a second. `Seconds(d)` is the truncation
of `int(ttl.Seconds())`; an `EXPIRE` of 0 deletes the key, as in Redis.

`RedisCombinedLock` writes key names as sequences of their parts, so that the name
that one script looks for and the name that the other object writes are compared
rather than assumed equal. A call of `Unlock` or `Renew` that fails in the exclusive
lock object begins in the shared one in the same step (`FallsThrough`). `Nested` names
the goroutines that may ask for a lock while they have one, a bound.

`EtcdMutexLock` has the same form: `call[g].pc` is the place in `TryLock`, `Lock` or
`Unlock`, and each access to one of the two tables is a step. `concurrency.Mutex` and
`concurrency.Session` are external. A session has one mutex and one key; `keys` are
the keys that exist, `ahead[s]` those created before the key of `s` that still do:
`TryLock` succeeds if there are none, `Lock` waits for that. `lease[s]` is `kept` by
the keep-alives of a session, `left` to expire once they stop (the process crashes,
is cut off, or closes the client), or `none`; a lease that ends takes its key with
it. `unlocked` are the mutexes whose `Unlock` succeeded once: a second one fails. Its
faults are requests that fail with or without an effect (`timeout`), `crash`, and
`partition`, after which a session is no longer kept alive. What `TryLock` of the etcd
client does on failure, deleting its key, is one with closing the session, the
caller's next step. A `Lock` that is cancelled deletes its key in a step of its own,
which may fail and leave the key to the session (`Cancel`). A session that could not be created leaves at most a lease
without a key, which nobody sees.

The other etcd locks have two lock objects in each process, and `lockValues` and
`leaseIDs` have an entry for each kind of lock. `call[g].pc` is the request or the
table access that comes next:

| Call | Steps |
|---|---|
| `TryLock`, `Lock`, exclusive | (`store`) `check` `put` `set lease`; `wait` between two rounds |
| `TryLock`, `Lock`, shared | the same; `check` is the transaction that writes the reader's key and reads the counter, `put` writes the counter |
| `Unlock`, exclusive | (`store`) `release` `delete value` `delete lease` |
| `Unlock`, shared | (`store`) `find holder` `read count` `release` `delete value` `delete lease` |
| `Renew`, exclusive | `load lease` `keep alive` |
| `Renew`, shared | (`store`) `find holder` `load lease` `keep alive` |

A call begins with the `Load` of `getLockValue`, in the same step, and `store` follows
if there is no entry. A lease is granted in the step before `check`: nobody sees it
before its first key. How many rounds `Lock` has is left open: after a refusal it
returns or waits (`Refuse`). When the exclusive half of `Unlock` or `Renew` fails for
whatever reason, the call goes on in the shared lock object (`Fail`). A goroutine of
`Renewer` calls `Renew` with the lock or without it, as `AutoRenew` does.

A lease is a number. It exists as long as it is one of `Lease`; when it ends, every
mention of it becomes `Ended`, and its keys go (`EndLease`, `ExpireKey`,
`ExpireShared`). The code tells ended leases apart nowhere, so the numbers can be used
again (`Unused`). Leases have no clock: one that a holder or a call uses ends only
under the fault `overrun`, at any time, and any other one whenever it likes. The key
`prefix/key` that marks the lock as shared is left out, since the library never reads
it, and so are `IsLocked` and `GetLockInfo`, which change nothing.

Two history variables say when the protocol can be relied on. `contested` are the
goroutines that were between `check` and `put` together with another one: the `Put`
looks at nothing, so both take the lock. `sound` is false after an event that may
lose a count (`Spoils`: two goroutines between reading and writing the counter; a
reader whose key was written and whose count was not; the end of the lease that the
counter hangs on while other readers have theirs), until no reader is left.

## The runs

| Run | Instance | Result |
|---|---|---|
| `redis_exclusive_lease` | 2 processes, 1 caller each; timeouts with one resend and one delayed request, crashes, overruns | `TypeOK`, `LeaseExclusion`, `HolderCanRelease` hold; the leases implement `ReadWriteLease` |
| `redis_exclusive_process` | 1 process, 2 goroutines, `RetryCount` 1, timeouts without resends, crashes, fairness | `HeldExclusion`, `CallsReturn`, `OrphanExpires` hold |
| `redis_release_race` | the same without faults | `HolderCanRelease` is violated |
| `redis_shared_lease` | 2 processes, 1 reader each, faults as in the first run | `TypeOK`, `HoldersCounted`, `ReaderCounted` hold |
| `redis_shared_orphan` | 2 processes, crashes and overruns, fairness | `OrphanExpires` is violated |
| `redis_combined` | 2 processes, no prefix, all faults but `straggle` | `TypeOK`, `WritersExclude`, `ReadersCounted`, `WriterWaitsForReaders` hold |
| `redis_reader_writer` | the same without timeouts and crashes | `ReaderWaitsForWriter` is violated |
| `redis_prefix` | the same with the prefix `lock:` | `WriterWaitsForReaders` is violated |
| `etcd_mutex` | 2 processes, 1 caller each, all faults, fairness | `TypeOK`, `MutualExclusion`, `HolderCanUnlock`, `WaitersServed` hold |
| `etcd_mutex_race` | 1 process, 2 goroutines, no faults | `HolderCanUnlock` is violated |
| `etcd_combined` | 2 processes, 1 caller each, no prefix, all faults | `TypeOK`, `WritersExclude`, `HolderCanUnlock`, `ReadersCounted`, `ReadersAndWritersExclude` hold |
| `etcd_exclusive_race` | the same without faults | `OneWriter` is violated |

`etcd_combined` shows what the protocol guarantees outside its races, and that
`contested` and `Spoils` name all of them: between a check and its `Put`, between a
read of the counter and its write, a count that fails, and a counter that ends before
its readers. Outside them an `Unlock` of a holder that overran its lease,
or that falls through to the other lock, ends nobody else's lock
(`WritersExclude`, `ReadersCounted`); a key that is left by a call that failed does not
keep its own process from unlocking what it takes later (`HolderCanUnlock`); and
readers and writers see each other, with no prefix (`ReadersAndWritersExclude`). With a
prefix both look under names that nobody writes: the model has the names
(`LockNameOfShared`, `CounterNameOfExclusive`), and the property fails as it does
for `redis_prefix`.

`OrphanExpires` speaks of every lock that nobody has, in `redis_exclusive_process`: of a
process that crashed, of a `TryLock` or an `Unlock` that failed although its value is
still in the table, or of a holder whose value was replaced there (finding 1). It
expires, unless a `Renew` of its own process finds its value.

`HolderCanUnlock` of the etcd combined lock promises no renewal. After an `Unlock` of the exclusive lock that
failed, its lease number stays in the table, and a `Renew` of the same process, now a
reader, finds that lease alive and stops there: it succeeds and renews nothing of the
reader's.

Where the code and its documentation differ (`findings` in `PROJECT.json`):

1. `getLockValue` is not atomic: two goroutines of one process that miss the entry
   draw two values, and the second `Store` takes the first one's value, under which
   the lock may be held, out of the table (SUMMARY.md:57).
2. All readers share one expiry: the count of a crashed reader lives as long as
   other readers come (SUMMARY.md:254).
3. The shared lock never finds the exclusive lock's key (README.md:203).
4. With a prefix the exclusive lock does not find the counter (README.md:204).
5. `Unlock` of the mutex lock releases the mutex and then deletes the table entries,
   which by then may be those of another goroutine of the process (SUMMARY.md:281).
6. `TryLock` of the etcd exclusive lock checks in a transaction and takes the key in
   a `Put` of its own: two clients get the lock (SUMMARY.md:272).

### Bounds

Two clients are enough for every conflict here: a property relates two
goroutines, or one and the server. Tokens are the lock values that can be alive at
once: two processes with one value in a table, one in a delayed request and one
left in the server by a crash need up to four, and `Store` waits if none is free, so
the bound only delays (in `redis_combined` there is one: a process that crashed waits
for the lock it left behind to expire before it draws a value again). `TTLs` of two ticks let a lease age while another begins;
the combined run has one tick (six more variables), its component runs have two.
`Nested` is empty in the runs of the combined lock: without this bound `redis_combined`
has almost three times the states, and its properties hold as well; the theorems are for
every `Nested`, and the component runs have no such bound.
`MaxRetries` and `MaxLate` of 1 give a request that runs twice and one that comes
late; the combined run counts the late requests of both objects together
(`FewLate`). `MaxCount` bounds the counter, which resends could push up for ever: with 3
it exceeds the two members. `RetryCount` of 1 has a first and a last round. Durations
are whole seconds in the runs (`WholeSeconds`), see below. In the three large safety
runs a process has the name of its only caller, and the symmetry `Alike` swaps the
two.

`etcd_mutex` has two sessions for one process and one for the other: the first may
call again while the session of its failed `Unlock` is still alive, and wait behind
itself. In `etcd_mutex_race` there are three, enough for one that is being unlocked,
one that is stored and one that waits.

`etcd_combined` has two leases for one process and one for the other, so that a
process meets the key of its own earlier call while it takes the lock again. One token
per process is enough, because a call that fails leaves its value in the table and the
next one uses it again; a process that crashed waits for its key to end, as in
`redis_combined`. `MaxCount` is 2, the number of readers; only a reader of an
uncounted key would go beyond. One process renews. `Alike` swaps the two leases of the
first process.

### Fairness

`FairSpec` asks for weak fairness of a goroutine's steps inside a call (the Go
scheduler, and a server that answers), of the delivery of delayed requests and of
time. No goroutine has to begin a call, and nothing is assumed of crashes and lost
messages. In `redis_exclusive_process` requests and replies may be lost, and a call
then fails; in `redis_shared_orphan` crashes and overruns suffice.

In `EtcdMutexLock` weak fairness is asked of the steps inside a call, of the expiry
of leases that nobody keeps alive, and of `BeginUnlock`: whoever has the lock calls
`Unlock` in the end, as `WithLockOptions` does. `Unlock` may fail, for ever:
`WaitersServed` says that a call of `Lock` then waits for nothing but the session that
this `Unlock` left in the table.

### Assumptions that a property needs

- `OneWorkerPerInstance` (one goroutine of a process locks a key): all goroutines of
  a lock object have one lock value, so a goroutine that overran its lease unlocks
  the lock of the next one of its process.
- No overruns and `RequestsRunOnce` (`HeldExclusion`, which says so itself): then
  goroutines of one object do exclude each other. With resends they do not. The script
  of an `Unlock` ran and its reply is lost; the value is still in the table, and a
  second goroutine of the process takes the lock under it; go-redis sends the `Unlock`
  again, which deletes this lock, and the first goroutine takes it once more: two
  holders, of which none overran. `NewRedisDistributedLock` turns 0 resends into 3
  (`factory.go:84`), so the condition needs a `MaxRetries` of -1, or a client made
  otherwise. No run shows this counterexample; it is one more reason why SUMMARY.md:57
  and 281 promise too much (see finding 1).
- `WholeSeconds`: a TTL below a second makes `TryLock` report a lock that `EXPIRE 0`
  has deleted.
- `UniformTTL` (readers): a shorter TTL shortens everybody's.
- No `straggle`: an `Unlock` that arrives after its call failed, and after the same
  process has locked again under the same value, removes the new lock. The value
  stays in the table when `Unlock` fails, so the second lock has the first one's
  value. `LeaseExclusion` does not hold then.
- `sound` and `contested` (etcd combined lock): see above. The run also has one caller
  per process: two of them race in `getLockValue`, which is the code of the Redis
  locks (finding 1).
- No request of the etcd locks takes effect after its call returned with an error: a
  `Put` that does would take the lock for a caller that gave up.
- `OneCallerPerInstance` (mutex lock; etcd combined lock; `HolderCanRelease`): one
  goroutine of a process calls the lock at all, so that the entries of the tables are
  those of its own call; see findings 1 and 5 for what happens otherwise.
- `FullSeconds` (`HeldExclusion`): no duration is below a second. It is weaker than
  `WholeSeconds`, since nothing is said of the time within which holders exclude each
  other but that they are done before the lock expires.
- No prefix (`WriterWaitsForReaders`, `ReadersAndWritersExclude`): findings 3 and 4.
- `Renew` with a duration of 0 is refused by the exclusive lock and deletes the keys
  of all readers in the shared one; `RenewTTLs` leaves it out where readers are
  checked.

## The proofs

All for any number of goroutines, processes, tokens, durations and retries. Every
invariant and action property that a passing run checks is a theorem, and so is the
refinement.

| Theorem | States |
|---|---|
| `RedisExclusiveLockProofs!TypeCorrect` | `Spec => []TypeOK` |
| `RedisExclusiveLockProofs!LeasesExclude` | `Spec => []LeaseExclusion`, given `OneWorkerPerInstance`, `WholeSeconds` and no `straggle` |
| `RedisExclusiveLockProofs!LeasesRefine` | `Spec => ImplementsLease`, given the same |
| `RedisExclusiveLockProofs!HoldersRelease` | `Spec => []HolderCanRelease`, given `OneCallerPerInstance`, `WholeSeconds` and no `straggle` |
| `RedisExclusiveLockProofs!HoldersExclude` | `Spec => []HeldExclusion`, given `FullSeconds`; the property itself asks for `RequestsRunOnce` and no overruns |
| `RedisSharedLockProofs!TypeCorrect` | `Spec => []TypeOK` |
| `RedisSharedLockProofs!CounterCoversHolders` | `Spec => []HoldersCounted`, with no assumption |
| `RedisSharedLockProofs!ReadersAreCounted` | `Spec => []ReaderCounted`, given `OneWorkerPerInstance`, `WholeSeconds`, `UniformTTL` and no `straggle` |
| `RedisCombinedLockProofs!TypeCorrect` | `Spec => []TypeOK` |
| `RedisCombinedLockProofs!WritersAlone` | `Spec => []WritersExclude`, given what `LeasesExclude` is given |
| `RedisCombinedLockProofs!ReadersStayCounted` | `Spec => []ReadersCounted`, given what `ReadersAreCounted` is given |
| `RedisCombinedLockProofs!WritersWait` | `Spec => WriterWaitsForReaders`, given also `Prefix = <<>>` |
| `EtcdMutexLockProofs!TypeCorrect` | `Spec => []TypeOK` |
| `EtcdMutexLockProofs!MutexesExclude` | `Spec => []MutualExclusion`, given `OneCallerPerInstance` |
| `EtcdMutexLockProofs!HoldersCanUnlock` | `Spec => []HolderCanUnlock`, given `OneCallerPerInstance` |
| `EtcdCombinedLockTypes!TypeCorrect` | `Spec => []TypeOK` |
| `EtcdCombinedLockProofs!WritersAlone` | `Spec => []WritersExclude`, given `OneCallerPerInstance` |
| `EtcdCombinedLockProofs!ReadersAreCovered` | `Spec => []ReadersCounted`, given `OneCallerPerInstance` |
| `EtcdCombinedLockProofs!HoldersUnlock` | `Spec => []HolderCanUnlock`, given `OneCallerPerInstance` |
| `EtcdCombinedLockProofs!ReadersExcludeWriters` | `Spec => []ReadersAndWritersExclude`, given also `Prefix = <<>>` |

### Redis

`RedisClientProofs` shows that every client step preserves `ClientInv`, whichever
server it talks to: types; a call works with a value of its own object; a late
request has a value of its sender, and once its sender has crashed nobody uses that
value again (`LateOK`, which needs `Fresh`); without `straggle` a late request belongs
to a call still running (`LateInCall`). The lemmas `...EndsLeases` say that a client
step only ends leases.

`LeaseExclusion` is not inductive: it says nothing about the key. `LeaseBacked` does:
a lease is backed by the key, whose value belongs to the lease's object and which
lives at least as long; the owner is not in `Unlock`; and no request of a crashed
process has that value. The step to watch is a script that deletes or replaces the
key, now or late: it carries a value of its sender, so with one worker per process
it is the lease's owner, which is not unlocking, by `LateInCall` and `LeaseBacked`.
Two leases are then backed by one value, that is by one process and one worker.

The refinement follows from the same invariant: `TryLock` makes a lease only where
there is no key, hence no lease; `Renew` sets the only lease there is; every other
step ends leases (`LeasesEndOnly`), which is the abstract `End`, or lets time pass.

`HolderCanRelease` needs `TableNamesKey`: within a lease the value in the table is the
one under the key, and the request of every call carries the value in the table. Only
the caller's own `Store`, `Released` and `Crash` write the entry, and with one caller
per process none of them runs during a lease.
`HeldExclusion` has its own invariant, `SectionGuarded`, which mentions no lease: from
the grant to its unlock script a goroutine is the only one (`Inside`) and the key is
there. When requests run once there are no late ones, and a request that fails ends its
call, so nothing that it did is done again (`GuardedInterrupt`); with no overruns the
clock stops before the key expires; and a goroutine that does not hold the lock does
not unlock.

For readers the counter stands between: `HoldersCounted` is proved first (a script
removes a member whenever it decrements, and increments whenever it adds one), so
that an `Unlock` that leaves the count at 0 removes the last member, and `LeaseBacked`
gives every lease a member of its own object.

`RedisCombinedLockProofs` uses the lemmas of the two locks through instances of their
proof modules. A step of the combined lock is, for each object, a step of its own, or
one of two that only the combined lock makes (`ExclusiveView`, `SharedView`): `Unlock`
begins in the exclusive object also for a reader, and ends the reader's lease; a call
that failed there begins in the shared one. The first one needs that only workers hold
locks (`HoldersWork`), the second one `Apart`: a goroutine is in a call of one object at
a time, and who unlocks has no shared lease any more while the exclusive object is
asked. `WritersWait` then combines both halves: an exclusive lease begins only if the
script finds no reader, without a prefix what it looks at is the counter, and the
counter is above 0 while a reader is within its lease.

### Etcd

`EtcdMutexLockProofs`: mutual exclusion says nothing of keys, `LockInv` does. Of two
keys one is ahead of the other (`Ordered`); a goroutine that was let through by etcd,
even before it knows, has a key with nothing ahead while its lease lasts (`Backed`);
it knows only sessions that its own object made (`OwnOK`), so with one caller per
process no other call deletes that key; and its tables have its session
(`TablesHave`). Two owners then have one key, that is one session, one process, one
caller.

`EtcdCombinedLockTypes` goes through the calls place by place: which step a call comes to
next, and what it has with it there (`CallFits`). `TypeInv` adds that a table has values
of its own object. No assumption is needed, two goroutines of a process included.

`EtcdCombinedLockProofs` builds on it with one invariant after the other, each of which
uses those before it:

- `OwnInv`: with one caller per process, the entries of the tables belong to the call,
  and who holds a lock has a value and, once `Lock` has returned, its lease there;
- `ContestInv`: of goroutines that are between check and `Put` together each one is
  `contested`;
- `WriterInv`: a writer that is not contested has its value and its lease under the
  key, and nobody else is about to put another one there. The steps to watch are an
  `Unlock` that overran or fell through, which deletes only its own value, and a lease
  that ends, which takes only the key that hangs on it;
- `FiniteInv`, `CountInv`: while `sound`, one goroutine at most is between reading and
  writing the counter, what it read is still true, the counter covers the keys of the
  readers but for that of one about to write it, and a reader has its key, under the
  value of its table and with its lease. Cardinalities change by one key at a time;
- `ClearInv`: while a writer that is not contested has the lock, nobody is between
  check and `Put`;
- `ReaderInv`: while `sound` and a reader that is not contested has the lock, nobody
  puts the exclusive key and no uncontested writer has it.

`ReadersExcludeWriters` adds the names: with an empty prefix each side looks for the key
that the other one writes (`NamesMatch`), so a writer's check saw no reader, and a
reader's transaction no writer. With a prefix this lemma fails, and the theorem with it.

## Only model-checked, and not modelled

Only model-checked: liveness (`CallsReturn`, `OrphanExpires`, `WaitersServed`), which is
beyond the proof system, as is `ENABLED`. The runs that expect a violation have no
theorem.

Not modelled: replication and failover of Redis (one server that does not lose its
data), several keys, durations as real time, `IsLocked`, `GetLockInfo` and the other
operations that only read, the connection pool, `LockManager`, and a `Close` of the
mutex lock while other goroutines use its tables. A caller that
calls `Unlock` again after it failed, or without the lock, is not modelled either:
`LockService` never does. Several holds of one goroutine count as one: its `Unlock` gives
them all up. A goroutine that asks for an etcd lock while it has one is not modelled, nor
is the duration of `Renew` of the etcd locks, which the code ignores. In the run of the
etcd combined lock a process has one goroutine, so no `AutoRenew` overlaps its calls; the
model allows it, and the theorems that need `OneCallerPerInstance` do not cover it.

## Plan

1. `RedisClient`, `RedisExclusiveLock`, `ReadWriteLease`, `RedisSharedLock`,
   `RedisCombinedLock` with their runs and the theorems above: done.
2. `EtcdClient`, `EtcdExclusiveLock`, `EtcdSharedLock`, `EtcdCombinedLock` with one
   passing and one refuting run: done.
3. `EtcdMutexLock`: the tables of mutexes and sessions against an external model of
   the etcd recipe; the deletes that follow the release: done, with its theorems.
4. Proofs of the remaining safety properties of these modules, the combined locks
   included, and of the refinement of `ReadWriteLease`: done.
5. Open: a refinement for the combined Redis lock, in which both kinds of leases of
   `ReadWriteLease` occur; it has to leave out that readers wait for writers, which the
   code does not do (finding 3).

`LockService` has no module of its own: its state is the position of its caller in
`Lock`, the function and the deferred `Unlock`, which `held` and `call` of the client
modules are.
