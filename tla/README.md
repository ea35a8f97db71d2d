# LegacyCoin suite: models and proofs

TLA+ models of the LegacyCoin suite (a CPU miner with its yespower hash in C, an
HTTP panel, an admin login, a wallet front end, and a P2P package), TLC configurations that check
them on small instances, and TLAPS proofs for every instance.

## 1. The system

One Go process (`main.go`, `manager.go`, `admin.go`) runs an HTTP server. The
server's goroutines share a `Manager`, which owns the current `Miner`, and an
`AdminAuth`. The miner talks Stratum to a pool and hashes with yespower, C code
called through cgo. Two more packages, `net/` (P2P) and `mining/` (solo miner),
are in the repository and not imported by `main.go`.

| component | state | operations | interacts through |
|---|---|---|---|
| Manager (`manager.go` 162-258) | `mu`, `miner`, `cfg`, `running` | Start, Stop, Restart, UpdateConfig, Config, Status | `close(miner.quit)`, `miner.sendMu`, `miner.conn`, the settings file |
| Miner, connection (`main.go` 575-664) | `conn`, `encoder`, `decoder`, `sendMu`, `quit` | Run, connect, subscribe, authorize, send, handleMessages | TCP with the pool; Stop closes `conn` |
| Miner, session and workers (`main.go` 668-957) | `currentJob`, `extranonce1`, `shareDifficulty`, `stats` | worker, mineJob, submitShare, handleMessages | the fields, read without a lock |
| Settings file (`manager.go` 101-160) | `config/miner.json`, environment | loadConfig, saveConfig | UpdateConfig, process restarts |
| AdminAuth (`admin.go` 23-172) | `config/admin.json` (login, hash, session token) | Setup, Login, Logout, VerifySession, UpdatePassword | reads and writes of the file, locked one by one |
| Wallet RPC and fees (`admin.go` 174-621, `main.go` 293-376, 518-533) | none (the node keeps it) | estimateSendFee, send, validateDestinationAddress | JSON-RPC with a 10 s timeout |
| yespower (`crypto/yespower-opt.c`, `crypto/yesc/yespower-platform.c`, `crypto/sha256.c`, `crypto/yespower_cgo.go`) | one memory region per thread | yespower, yespower_tls, the Go and C wrappers; SHA256, HMAC, PBKDF2 | called by mineJob; mmap, munmap |
| P2P server and peers (`net/server.go`, `net/peer.go`) | peer map, queues, heights | accept, connect, register, remove, relay, stop; version, inv, getblocks, block | TCP, the chain (not in this repository) |
| Solo miner (`mining/miner.go`) | `quit`, hash counter | Start, Stop, buildTemplate, searchNonce | the chain |
| poolNode (`main.go` 963-1003) | a map of addresses | status, peers, addPeer | - |
| Pure functions (`main.go` 757-844) | - | targets, compact bits, Merkle root, base58, varints, `flexWorkers` | called by mineJob |

What is hard in each, and what makes it correct:

* **Manager and Miner.** Requests interleave; Restart is not atomic; Stop keeps
  `mu` while it waits for `sendMu`, which is kept for a whole dial or write; a
  stop may meet Run anywhere. Correct means: never two active miners, never one
  that Stop cannot reach, no channel closed twice, the running miner has the
  current configuration, no connection left behind, every request returns, a
  stopped miner ends.
* **Session and workers.** Workers read job, extranonce and difficulty without a
  lock while the connection is being replaced. Correct means: what is hashed
  belongs together, few shares are late, new jobs are taken up.
* **Settings file.** Concurrent updates, failures, stops of process or machine in
  the middle of a save. Correct means: the file always parses, answered
  settings do not give way to older ones, memory and file agree.
* **AdminAuth.** Every operation is a locked read followed by a locked write, not
  one locked read-modify-write; the write is not atomic on disk. Correct means:
  an answered password change or setup is not undone, a crash does not lose the
  account.
* **Fees.** The fee and the set of inputs depend on each other; the loop is cut
  after 12 rounds. Correct means: the fee pays for the transaction it was
  computed for, and the loop ends with a consistent pair.
* **yespower.** A region of memory outlives its calls, which differ in size and
  layout; loops are unrolled and counted in ways that hold at their bounds only;
  the preprocessor chooses between builds; four functions of SHA256 take short
  cuts. Correct means: no access outside, nothing old is read, nothing is lost
  when the kernel refuses, a failed call never looks like a hash, every build
  and every short cut computes what its definition says.
* **Targets.** Floats, 64-bit units and compact numbers are converted into one
  another, each time with a rounding. Correct means: no share is dropped that
  the pool would take, no block is counted that the network would not.
* **P2P.** Peers register late, are overwritten and removed by address; limits
  are tested before they are used up; chunks of blocks are requested one by
  one. Correct means: a connected peer is registered, limits hold, Stop ends
  every peer, two nodes converge.

`PROJECT.json` lists the hazards with their lines.

## 2. The modules

| module | models |
|---|---|
| `MinerSwitch` | abstract: what the Manager promises, a switch that runs at most one miner with the configuration current when it was switched on |
| `Manager` | the Manager, the requests, and for every miner it creates: Run, a worker, the pool's end of the connection |
| `ManagerProofs` | proofs about `Manager` |
| `ConfigStore` | `loadConfig`, `saveConfig` and `UpdateConfig`'s order of memory and file, with process kills and power failures |
| `Stratum` | one miner's sessions: Run, handleMessages, the workers, the pool |
| `AdminAuth` | the admin file: requests that read it and write it back under a lock taken twice, with failures and kills |
| `FeeEstimate` | the rounds of `estimateSendFee` and what the send handler makes of the result |
| `AdminBackend` | `AdminAuth` and `FeeEstimate` together, for one run |
| `AdminBackendProofs` | proofs about `AdminAuth`, `FeeEstimate` and the two together |
| `ConfigStoreProofs`, `StratumProofs` | proofs about `ConfigStore` and `Stratum` |
| `Region` | the memory region of a thread, mmap and munmap |
| `Smix` | on top of it: `smix1` and `smix2` as traffic on the region |
| `Yespower` | on top of it: one call after another, with the two wrappers |
| `RoMix` | abstract: the loop that `smix1` unrolls |
| `HashStream` | SHA256, HMAC and PBKDF2 over streams |
| `Words` | arithmetic on machine words |
| `Sha256Rounds`, `Salsa20`, `Pwxform`, `BlockMix` | the primitives, each beside its definition or in all its builds |
| `Work` | what `mineJob` computes before it hashes and how it judges a hash |
| `Hasher` | `Yespower`, `Work` and the functions under them together, for one run |
| `YespowerProofs`, `WorkProofs`, `HasherProofs` | proofs about `Yespower`, about `Work`, and about the functions in `Hasher` |
| `Peers` | the P2P server: connections, loops, channels, the locked map |
| `PeersProofs` | proofs about `Peers` |
| `BlockSync` | what two nodes tell each other about their chains |
| `MC*` | instances for TLC, with their `.cfg` files |

Operators marked *Variant* in a comment (and `CloseQuit`, `LaunchMiner`, `Hash`
as guards left out) are not part of the specifications. Each is a plausible bug
of the operator that follows it; substituted for it, it makes one property
fail, which shows that the property depends on the code.

### Manager

State corresponds one to one: `mu`, `cfg`, `running`, `miner` are the fields of
`Manager` (`miner` is the number of the latest miner, and miners are numbered as
they are created); `quit[g]`, `sendMu[g]`, `conn[g]`, `job[g]` (currentJob is
set) are those of miner `g`; `pc`/`op` say where a request is, `run[g]` where
Run is, `worker[g]` where a worker is.

Critical sections of `mu` other than the one in Stop contain no wait and touch
nothing that is accessible without `mu`, so each is one step. Stop is two:
`StopQuit` (lock, test, `close(quit)`) and `StopClose` (everything after
`sendMu.Lock()`), between which it keeps `mu`. `sendMu` is kept between steps by
a dial and by a write. `conn[g]` tells a connection closed here (`closed`) from
one the other side ended (`reset`). One worker per miner is modelled: workers
differ in nonces only. `stale` is a history variable. The requests that
`Validate()` refuses, JSON errors and the start without a wallet (`log.Fatal`)
change no state and are left out, as is `reportStats`, which polls `quit` every
8 s and writes only figures.

### ConfigStore

Settings are named by the update that brought them, so no two are alike. The
temporary file is private to its save until the rename, so only whether it was
synced matters. `file` is what the process sees under the name, `onDisk` what a
power failure would leave: the directory is written back at any time (`Flush`);
a file that was not synced may come back torn. A kill keeps `file`.

### Stratum

Sessions are numbered; the pool gives each its own extranonce and difficulty,
named by the session's number, before its first job, and answers in order:
this is the Stratum convention the code relies on. `sendMu` is held between
steps only by a dial (`run = "dialing"`); writes are one step here, since
`Manager` treats how they wait. Go leaves a read of a string that races with its
assignment undefined; the worker then gets the old value, the new one or
`Garbage`. The network-target test adds a nondeterministic block to `blocks`.
The end of a connection by `Manager.Stop` is one of the causes of `Drop`.

### AdminAuth

`pc` follows a request through the two critical sections of `mu`: RLock, read,
RUnlock (`RLock`, `Read`), then Lock, truncate, write, Unlock (`Lock`, `Enter`,
`Truncate`, `Write`). `pending` is the writer that has mu or waits for the
readers to leave; as in `sync.RWMutex` it keeps new readers out. os.WriteFile
truncates before it writes, so a kill or a full disk in between leaves a file
that does not parse. `Write` also answers: an answer given later only makes
fewer requests begin after it. The file is one record; a password or a token is
named by the request that brought it (tokens are random in the code), a login is
empty or not. Requests may carry any password or token that exists, or none.

### FeeEstimate

The state is that of the loop: `round`, `fee`, `inputs`, `size`. The code adds up
coins until they pay; the model says which coins those are: a coin is taken if
those before it do not pay. The node's coins and rates are what the send starts
from, and calls to the node may fail (`Refuse`). Amounts are base units: the
floats of the interface only carry them. That the node picks coins as the
estimate does is what the code's comment says of it.

`AdminBackend` runs either the account or a send, by `turn`: they share no state.

### Yespower and what it rests on

The same C code is in the repository three times (`crypto/`, `crypto/yespower/`,
`yespower/`); the copies of the modelled files differ in nothing that is modelled
(in the two other copies of `yespower-platform.c` lines are one further down from
line 23 on). `map` names the lines of the copy that cgo builds.

`Region` has the thread's `region` and `maps`, the mappings the kernel keeps for
it; `alloc_huge`, `alloc_plain`, `alloc_fails`, `free_region`, `free_fails` are the
ways through `alloc_region` and `free_region`, with the kernel's refusals. Sizes
are counted in blocks of 64 bytes; rounding to small pages is left out. The
region is thread-local, so one thread is modelled; what a thread that ends
leaves mapped is not. `Smix` adds the loops: a step is one blockmix call, with
the blocks it reads and writes (`faults` collects what it must not do, `written`
what this call has filled). What a block holds is open, and `integerify` returns
any of `Vals`. `Yespower` adds the call: `Call`, the checks, allocation, `derive`,
the passes, `final`, `Fail`, and what a wrapper hands out. Both versions, 0.5 and
1.0, are there. `RoMix` is what `smix1` must do, whatever its unrolling.

In `HashStream` the compression function is free: a state is the sequence of
blocks compressed, so digests are equal only if they are for every compression
function. `Sha256Rounds` then is that function on real words, beside FIPS 180-4.
`Salsa20` runs the vector build and the plain one side by side. `Pwxform` runs
five builds and the definition, with words scaled down to `Bits` and
2 * `Bits`. In `BlockMix` a block is the set of terms xored into it, and
PWXFORM and SALSA20 are free functions.

`Hasher` composes them by `turn`: a whole hash is not computed, since who calls
whom is in `Yespower` and what is computed is in the others.

### Work

`difficulty` and `netTarget` are what pool and network ask for; `mineJob` turns
them into `shareTarget` and `compactTarget` and the branch into `root`; `Judge` is
the test of one hash. Digits are in base `Base` where the code has bytes, `Unit`
stands for 1e9 and `WordLimit` for 2^64. A difficulty is a fraction and its
product with 1e9 is exact before it is cut, where a float rounds; a float too
large for uint64 converts to anything (`Conversions`), as Go leaves that open.
`Compact` (how a network writes its target), `Leaves` and `Branches` (what a pool
sends) are external.

### Peers

`starter` is the goroutine that registers and starts a peer, `sending` and
`receiving` are its two loops, `once` follows `Stop`, `queue` counts what is in
`sendCh` and in the write under way. `pending` is the writer that holds or waits
for `s.mu`; the readers are the relays. Messages are abstracted to the answers
and relays that handling them causes; a connection may fail at any time.
Peers of the same address overwrite each other's entry. A stopped peer's
messages are lost.

### BlockSync

A block is the sequence of the miners of its chain, so its parent is its `Front`
and its height its length. `wire[n]` holds, in order, what is on its way to node
`n`; `height[n]` is `p.height`, the height `n` keeps for its peer; `found[n]` is a
block that `mineWorker` announced and did not submit yet. One handler is one
step: between a handler's reads of the chain only a longer tip can appear, and
the handler then acts on either. The chain is external: it keeps a block whose
parent it has, prefers what is longer, and may or may not tell the height of a
block on a side branch. How announcements wait in channels is in `Peers`.

## 3. What the runs check

| run | bounds | shows |
|---|---|---|
| `manager_safety` | 2 handlers, 2 requests of any kind, 2 configurations, up to 3 miners | the safety invariants and the refinement of `MinerSwitch` |
| `manager_live` | 2 handlers, 2 requests (start, stop, status), 2 miners | the liveness properties |
| `manager_stop` | 1 stop, 1 miner, the strongest fairness | **violated**: `StopEndsRun` |
| `config_store` | 2 handlers, 3 updates, 2 stops | torn files and lost answers do not happen |
| `config_rebuild` | 2 handlers, 2 updates, no stop | **violated**: `SettingsLiveInFile` |
| `stratum` | 1 worker, 2 sessions, 2 jobs, 2 shares | session properties, liveness of the workers |
| `admin` | 2 handlers, 3 requests, 1 kill; wallets of up to 3 coins of 5 kinds and two of 40, 4 amounts, 3 pairs of rates, 3 fees asked for | setup once, only overlapping saves undo, every request is answered; the estimate and the send |
| `admin_race` | 2 handlers, 3 requests, 1 kill | **violated**: `PasswordChangeHolds` |
| `fee_match` | the wallets of `admin` without the large ones | **violated**: `EstimateMatchesSend` |
| `hasher` | 13 sets of parameters with N of 16 or 32 and r of 1 or 2 or refused; 4 digits in base 4 | region, loops, results, functions, targets |
| `peers` | an inbound and an outbound peer with addresses of their own, channels of 1, one answer per message | the map, the lock, the end of peers |
| `block_sync` | 2 nodes, 3 blocks (a fourth while one is on its way), chunks of 2, 2 connections | the node behind catches up |

Why the bounds are enough: with main()'s start, two requests in flight already
meet in every pair of steps, and a third miner exists beside a stopped and a
running one; the proofs then cover every number of requests and miners. A
miner's life needs at most one stop. For the settings, three updates are needed
to have one answered before another begins while a third overlaps both, and two
stops to have one during recovery. A session property needs an old and a new
session, an old and a new job, and two shares for the second one to be late;
workers write nothing another worker reads, so one stands for all. Three admin
requests are a setup, a change, and one that overlaps with it or comes after its
answer. The fee depends on sums only: kinds of coins are one
below its own cost, one that pays its cost, one larger, a hybrid one, and one
that does not count, and forty small coins are what it takes to use up the
twelve rounds.

A hash is small enough to be run whole: with 16 and 32 rows the masks of smix1 go
through all their lengths, S has 8 or 12 rows, and region sizes differ enough
for a larger one after a smaller one, on both sides of the huge page threshold.
`MCVals` has 0, the largest value, and values every mask cuts. Streams go beyond
two blocks in chunks that end around every boundary, keys around 64 bytes, salts
around the short cut's 51. All 256 hashes of four digits are judged for each
difficulty: half a unit, one, whole and broken ones, and one beyond the word. In
`peers` a channel of one is full after one message, which is when a relay waits
inside the lock. In `block_sync` three blocks are one more than a chunk, and two
against one is the smallest fork; the ticker waits until what was sent was
handled, which 30 s are for.

Deadlock is checked, except in `hasher`, `peers` and `block_sync`, whose
functions, servers and bounded miners end; elsewhere `Ended` is the only step left
when the bounds are used up and nobody waits.

Properties beyond types:

* `QuitMatchesRunning`: every miner but the running one had its channel closed,
  exactly once. A second close would be a panic.
* `RunningConfigCurrent`: only an update under way, or one that failed to save,
  separates the running miner's configuration from `m.cfg`.
* `NoConnLeak`: Run does not pause, dial or return with a connection left; so
  the close in `connect` (`main.go:642`) never finds one.
* `SwitchSpec`: the refinement of `MinerSwitch`; closing `quit` is the moment of
  switching off.
* `RequestsReturn`, `StopEndsSession`, `StopEndsWorkers`, `Reconnects`: liveness.
* `NeverTorn`, `NoOldSettings`: the settings file under crashes and concurrency.
* `HashesOwnWork`: data of two sessions are mixed in a coinbase at times, but
  never hashed, because `currentJob` is cleared before the next session and read
  again before each hash.
* `AtMostOneLateShare`: per worker and job. That share may even precede
  `mining.subscribe` on a new connection.
* `CountersBacked`, `WorkersFollow`.
* `SetupOnlyFirst`: needs that nobody reads the file while a save has it empty.
  It excepts a save cut in the middle and a setup with an empty login, after
  which `isConfigured` says no.
* `OnlyRacesUndo`: without overlapping saves no old password or token returns.
* `RequestsAnswered`: `mu` is not taken for reading twice by one request.
* `EstimateSound`, `FeePaysRelay`: the fee against the size it comes with.
* `RefusedIfShort`: "insufficient balance" is said only if no prefix of the
  coins pays amount and fee with change, for fees from the starting one up.
  Below it the code does refuse payable sends: the first round assumes
  the minimum fee of 1000 bytes.
* `InBounds`, `NoStaleReads`: no access of a call leaves the region or the area it
  belongs to, none reads what this call did not write, although the region still
  holds an earlier hash, of other sizes.
* `RegionSound`: what is mapped is what the region says; nothing is lost when
  munmap refuses; a call computes in a region at least as large as it needs.
* `ResultSound`: a caller gets a hash only from a call that ran to its end, and
  0xff throughout otherwise, though the Go wrapper ignores the return code.
* `RoMixSpec`: the unrolled smix1 implements the plain loop, row by row.
* `CallReturns`: no loop runs past its count (unsigned, by twos, down to 0).
* `DigestsMatch`, `RoundsMatch`, `SalsaMatches`, `BuildsAgree`, `MixMatches`: streams,
  compression, Salsa20, PWXFORM and blockmix against definitions and one another.
* `SharesJudged`: every hash the pool would count is submitted, and no other when
  the difficulty is a whole number of units, but hashes of 0 and 1, which the
  smallest target takes in.
* `BlocksJudged`: a block is counted only if the network takes it, and always if
  its target fits three digits.
* `MerkleMatches`: the fold over one branch gives the root of the whole tree, also
  where a level is odd.
* `MapMatches`: a stopped peer is not in the map, a running one is, unless another
  connection used its address.
* `LockFreed`: relays that wait for room with the map's lock held, and Stops that
  wait for that lock, get out of each other's way.
* `PeersEnd`: a peer whose connection was closed ends, wherever its loops are.
* `CatchesUp`: the shorter chain becomes as long as the longer one while the
  connection lasts. Only the ticker makes that so: after the first block a node
  takes its own height for its peer's, and the request for the next chunk in
  `handleBlock` (line 405) is never made. Excepted is a node whose own branch the
  peer knows or which is longer than a chunk; its locator, a single hash, never
  leads back to the fork.

The type invariants of `ConfigStore`, `Stratum`, `AdminAuth`, `FeeEstimate` and
`Peers` are not among the properties of the runs: they are proved (section 4).

### Fairness

Weak fairness for each goroutine's next step. Strong fairness where a mutex may
be taken by others again and again (`StopClose`, `Cleanup`, `SubmitLock`): a Go
mutex is handed to a waiter after 1 ms. A dial ends (10 s timeout). Assumptions
on the environment, stated as such: a write to the pool ends (the code sets no
deadline, so a pool that never reads would block Stop and the Manager for ever),
and for `Reconnects` a dial tried for ever succeeds once. `manager_stop` adds
strong fairness of `select`, so that the counterexample is not one of an unfair
draw. Nothing forces requests, resets, jobs or shares.
`admin`: weak fairness for each request's next step, strong fairness for the two
sides of the RWMutex, which starves neither.
`hasher`: weak fairness of the thread that computes. `peers`: weak fairness of
goroutines that start, stop, or write (a write has a deadline of 30 s), strong
fairness of those that wait for room in a channel, which Go serves in their
order. Reads of an open connection need not end. `block_sync`: weak fairness of
handlers and of the miner between announcing and submitting, strong fairness of
each ticker, since one waits for the other in the model only. Nobody need mine or
connect, and the connection may be lost at any time.

### Findings

* **A stop can leave Run alive** (`manager_stop`). Stop closes `quit` and the
  connection it finds. If Run is dialing or about to, there is none; Run then
  connects, never looks at `quit` again, and blocks in Decode. "Manager: miner
  stopped" is logged, and a Restart leaves the old session beside the new one.
  `StopEndsSession` and `StopEndsWorkers` delimit it: stops that find a
  connection are complete, and no worker goes on.
* **Concurrent updates separate memory and file** (`config_rebuild`). Both are
  answered "ok", and a rebuild comes back with settings that were not in use,
  although `__rebuild.sh` says that the settings survive. `NoOldSettings` is
  what remains true: only overlapping updates are affected.
* **A login undoes a password change** (`admin_race`). A login or logout that
  read the account before a change was saved writes the old password back,
  although the change was answered "ok". `OnlyRacesUndo` is what remains true.
* **The estimate may not match the send** (`fee_match`). One hybrid coin worth the
  amount plus 5528 units makes the rounds alternate until they are used up; the
  fee returned is for 5494 bytes, the transaction it leads to has 5528.
  `EstimateSound` is what remains true.

## 4. What is proved

`ManagerProofs`, from `ManagerAssumption` (the bounds are naturals, `Nobody`,
`Main` and `Off` are not handlers or configurations), for any sets of handlers
and configurations:

* `TypeCorrect`, `QuitCorrect`: `TypeOK` and `QuitMatchesRunning`. Neither is
  inductive alone. The invariant `IInv` adds that `mu` is kept between steps
  exactly by the request in the middle of Stop and that a miner is then running
  (`LockInv`), that the first steps of an update are an update's (`OpInv`), and
  that nothing runs for miners not created yet (`FreshInv`). Without `LockInv` a
  second Stop could be between the two steps of the first.
* `ConfigCorrect`: `RunningConfigCurrent`, inductive relative to `IInv`: whoever
  changes `m.cfg` is `Updating` until its own Stop has ended the miner.
* `ConnCorrect`: `NoConnLeak`, inductive relative to `IInv`.
* `SwitchRefined`: `Spec => SwitchSpec`, step by step under `IInv`.

`AdminBackendProofs`, from `AdminAssumption`, for any handlers and any number of
requests and kills: `AdminTypeCorrect` (`TypeOK`), `SetupCorrect` (`SetupOnlyFirst`)
and `UndoCorrect` (`OnlyRacesUndo`). The invariant says who holds `mu` (`LockInv`:
reading and saving exclude each other), that as long as no setup came without a
login every account in the file or on its way to it has one (`NamedInv`), and
that after the first setup there is an account unless a save is at work, so that
a later setup stops at reading (`SetupInv`). What may be undone is a matter of
the requests' numbers: those under way are different and answered by nobody, and
only answered ones make a password or token old (`NumberInv`), so what a save
brings is its own or was not old when read, and stays so until somebody else
saves (`FreshInv`).

There too, from `FeeAssumption` (coins, amounts and rates are naturals, the
minimum rate is not 0), for any wallet: `FeeTypeCorrect` (`FeeTypeOK`),
`EstimateCorrect`, `FeeCorrect` and `RefusalCorrect` (`RefusedIfShort`).
The invariant adds that a fee found is not 0 and pays for its size (`FoundInv`),
and that a round is left when one may begin (`RoundInv`). A size is shown to be a
number of at least 76 by counting coins. For the refusal, more coins are worth
more, take more bytes, and more bytes more fee; so no round's fee exceeds what
some number of coins could pay, if any could (`BelowInv`).
`BackendCorrect` puts the two together: neither part disturbs the other.

`ConfigStoreProofs`, from `StoreAssumption`, for any handlers, updates and stops:
`StoreTypeCorrect`, `FileCorrect` (`NeverTorn`) and `AnswersHold` (`NoOldSettings`).
`SyncInv`: nothing gets the file's name before it was synced, so that a power
failure finds a whole file. `NumberInv`: an update under way has a number of its
own that was not answered. `OldInv`: what an update found answered when it began
is not in memory afterwards, nor in the file once it has renamed its own; this is
what makes an answer final.

`StratumProofs`, from the module's assumptions, for any workers, sessions, jobs
and shares: `StratumTypeCorrect`, `WorkCorrect` (`HashesOwnWork`), `LateCorrect`
(`AtMostOneLateShare`) and `CountersCorrect` (`CountersBacked`). The argument is about the order of messages: extranonce
and difficulty of a session come before its first job (`FieldInv`), a job on its
way is newer than any a worker has (`JobInv`), so a worker whose job is still
the current one has read that session's fields (`WorkInv`), and one that was
late has nothing more to hash (`LateInv`). For the counters (`CountInv`): the
shares accepted, those whose good answer is on its way and those of this session
not answered yet are together no more than were sent in their job's session.

`YespowerProofs`, from the assumptions of `Region`, `Smix` and `Yespower`, for any
parameters and page sizes and any sequence of calls and refusals: `RegionCorrect`
(`RegionSound`), because whoever maps has nothing mapped and the region is always
mapped exactly (`RegionInv`), and `ResultCorrect` (`ResultSound`), because nothing is
handed out before the end of a call (`ResultInv`). `TypeCorrect` (`TypeOK`),
`AccessInBounds` (`InBounds`) and `NoReadOfOldData` (`NoStaleReads`) rest on how far
each loop is (`LoopInv`: the doubling of smix1 and its last, shorter turn), on S0,
S1 and S2 staying thirds of S and w inside one (`CtxInv`), and on what is written
by then (`WrittenInv`). `FillsAsRoMix` is the refinement `RoMixSpec`: the unrolled
loop takes its rows from the window that Wrap of the plain one names, since n is
the largest power of two below the row that is made (`PowerInv`).

`WorkProofs`, from `WorkAssumption` (the base of the digits is even, as 256 is),
for any difficulty, targets and number of transactions: `SharesCorrect`
(`SharesJudged`), from `NoShareDropped` and `NoShareRefused`, which rest on what two
divisions that round down do to a product; `BlocksCorrect` (`BlocksJudged`), since
CompactToBig takes back what writing a target left, at most the digits below the
third; and `MerkleCorrect` (`MerkleMatches`): at every level the miner's hash so far
is the first of its level, and the branch's hash the second.

`HasherProofs`, from `HasherAssumption`, about the functions under a hash:

* `MixCorrect` (`MixMatches`), for any r and contents: what the unrolled blockmix
  functions keep in registers, in the row and in the result is, call by call,
  BlockMix of the whole row (`MixInv`).
* `RoundsCorrect` (`RoundsMatch`), for any bytes and any number of blocks. Words are
  looked at by their bits, a nibble at a time, for which the table of xor is
  finite: so the two ways to write Ch and Maj agree, and so do "or", "xor" and
  "+" of words with no bit in common, of which rotations are made. The invariant
  (`ShaInv`) has the next sixteen words of the schedule equal to those of
  FIPS 180-4, and the registers rotating through the roles a .. h.
* `SalsaCorrect` (`SalsaMatches`), for any blocks and both numbers of rounds: a lane
  of the vectors is a column and, once turned, a row (`SalsaInv`); the quarter
  rounds of a double round touch different words; storing undoes loading.
* `DigestsCorrect` (`DigestsMatch`), for streams cut into any updates and for keys,
  salts, rounds and outputs of any length. A context holds a text if its blocks and
  its buffer are those of the text (`Holds`): updates keep that, padding ends it
  with what FIPS 180-4 adds, and HMAC and PBKDF2 are followed by what their
  contexts hold (`StreamInv`). On its short cut PBKDF2 has both last blocks padded
  beforehand, with a counter of 0: only the counter's bytes differ from the text of
  a block's HMAC. Assumed is what FIPS 180-4 asks for, that no text has more bits
  than the count holds (2^64 in the code). How a length becomes bytes is the same
  function on both sides (below 2^32 in the model), so that is not what is shown.
* `BuildsCorrect` (`BuildsAgree`), for a block and S-boxes made from any seed (all
  that is used is that they hold words), both versions and all five builds. And splits at every bit, so masking the joined halves of a word
  masks both, and what is left is the place of an entry. A build's memory stands for
  the definition's tables (`PwxInv`) if its three parts are theirs, in one of the
  three orders in which they are passed on, and w is where the next entry goes;
  rounds with four writes, with two and with none keep that. `Swidth` is at least 2
  (8 and 11 in the code): w is masked only after four writes, which a table of two
  entries would not hold. Words are scaled down (`Bits` is 8 to 12, half of a word),
  as in the module: for the 32 of the code the steps are the same, the numbers not.

Recursive functions (powers, sums of coins, Merkle levels, the schedule) are
shown to exist and to compute what is claimed by induction over the set of the
numbers for which the claim holds (lemmas `Least`, `Induction`).

`PeersProofs`, from `PeersAssumption`, for any peers, shared addresses too, and any
capacities: `PeersTypeCorrect` and `MapCorrect` (`MapMatches`). The invariant says
that a lock's holder is where it asked for it (`LockInv`), that whatever runs was
started after it was registered (`StartInv`), and that a peer alone with its
address is in the map from registration to the end of Stop (`MapInv`).

Only model-checked: liveness (the prover has no rules for fairness here). Every
invariant of a run that passes is stated by a theorem; none speaks of the runs that
find a violation.

## 5. Not modelled

* The numbers of a whole yespower hash: its parts are checked apart. The CPU
  dispatch reads CPUID and is called by nothing; the builds are chosen by the
  preprocessor. The Go hashes and the build without cgo are one call each.
* P2P: transactions and the mempool, lists of addresses, and the wire format,
  whose functions keep no state. The rest of the solo miner (template, nonce
  search, threads, hash rate): all it does is ask and change a chain that is not
  in this repository. `net/` and `mining/` are imported by nothing.
* base58 and key pairs: used by their own package only, and calls into
  libraries. `flexWorkers` and the field-wise parsing of the settings: what one
  set of settings says, while `ConfigStore` is about which set is in use.
* The rest of the wallet front end (address checks, balances, the RPC client):
  calls to the node, without state here; what the node does with a call whose
  client gave up is its own matter.
* poolNode (a map nothing else reads), the pages, the block-content database, the
  scripts (their stops are the kills of `ConfigStore`), logging.

What could follow: the settings' parsing against a reference, three nodes in
`BlockSync`, and a chain module if the one that `net/` needs is added to the
repository.
