# REALITY-Hydra: a TLA+ model

REALITY-Hydra is a proxy whose client shows a passive observer a different,
plausible TLS server name per destination, drawn from a pool that both ends
derive from a shared secret and the clock. These modules model the parts of the
Rust workspace (`src/crates/*`) in which ordering, clocks, failures and restarts
decide whether that works. TLC checks small instances; TLAPS proves the theorems
listed below for every value of the constants.

## 1. Inventory

    application --SOCKS5--> hydra-client --TLS, CONNECT header--> hydra-server --TCP--> destination
                              |   |   |                               |
                     pool-engine  |  dns-warmer               cert.der, key.der
                       (epoch pool, sticky selector)
    systemd timer --> hydra server-names --(pool-engine)--> serverNames of the front end

| Component | State it keeps | Operations | What is hard about it | What makes it correct |
|---|---|---|---|---|
| pool-engine: epochs and pools (`epoch.rs`, `lib.rs`, `sampler.rs`, `kdf.rs`) | none (pure) | `epoch_at`, `epoch_window`, `keyed_epoch_subset`, `accepted_pool_window` | saturation at both ends of `u64`, a zero epoch length; lists in different file orders, equal keys, `active_k` beyond the list | windows of nearby epochs overlap as far as the +-1 tolerance says; both ends derive the same pool |
| pool-engine: sticky selector (`select.rs`) | map destination -> (SNI, expiry) | `select`, `evict_expired` | the cached choice outlives pool and time | an SNI does not flip before it is due, and is never one that left the pool |
| dns-warmer | map host -> (resolution, expiry) | `is_warm`, `warm`, `evict_expired` | the lock is not held across the lookup; answers arrive in any order | a warm name has been looked up recently enough |
| hydra-client: pipeline (`pipeline.rs`) | `RwLock` pool, watch channel of the epoch, mutex of the selector | `serve`, `handle_connection`, `maybe_refresh_epoch`, `select_sni`/warm/open | many tasks, two locks, a check and a write separated by awaits | the pool is that of the current epoch; no task waits for ever |
| hydra-client: SOCKS5 and tunnel (`socks5.rs`, `tunnel.rs`) | per connection | handshake, connect, TLS, header, reply, relay | the application is told success first; partial reads; half-close | the client acts on a true verdict; bytes arrive in order |
| hydra-server: exit node (`lib.rs`) | per connection: header buffer | accept, header loop, dial, reply, relay | header cut up by the network; bytes read past it; clock freshness | only authenticated, fresh headers open a tunnel |
| hydra-server: certificate (`tls.rs`) | `cert.der`, `key.der` | load or generate, persist, config | two files written in place; restarts | the pin handed out stays the one served |
| tunnel-proto | none (pure) | encode, parse, MAC, freshness | length byte, two byte orders, truncation, order of the checks | a header parses to what was encoded, however it is cut up, or is refused for its cause |
| hydra-cli: `server-names` and its timer | none | print names | the printed names lag behind the clock | a client within the tolerance is accepted |
| hydra-cli: `service` (systemd units) | unit files; systemd's definitions, enabled and running units | `install`, `uninstall` | steps that fail, are killed, or whose failure is ignored; reboots in between | what success reports is there, whatever was half done before |
| hydra-cli: `init`; xtask | `hydra.toml`, built and installed binaries | `init`, `build`, `install`, `config`, `uninstall`, `all` | check and write in two steps; half-written files; two shells | no configuration is lost, an installation is of one build |
| hydra-cli: `keygen`, `render`, `serve` | none | format arguments, start the pipeline | -- | -- |
| health-checker | a report per sweep | probe, inspect, `check_all`, `prune` | one failing probe ends the sweep; wildcards, empty answers, edges of the band | a pool that was pruned holds the good entries and only those |
| hardening: metrics | atomic counters | `inc`, `add`, `Snapshot::take`, `delta` | a snapshot is not atomic; a counter wraps | each increment is reported once |
| hardening: distribution bundle, checklist | none | compute a report | -- | -- |
| reality-tls | per handshake: the proof in the ClientHello's session id | `with_version`, `connect`, injector, `seal`, `open` | the clock is read before the connection is made; short ids are cut and padded | a proof opens for the server, the ClientHello and the time it was made for |

Components interact through shared memory inside the client (tasks, two locks,
one channel, one mutex), through TCP between client, exit node and destination,
through the file system between runs of the server and between the commands that
install it, and through nothing but the clock between the client's pool and the
server's names.

The hazards this code is exposed to are listed in `PROJECT.json`, each at its
line with the properties that would catch it.

## 2. The modules

| Module | Models | Correspondence |
|---|---|---|
| `EpochPool` | `pool-engine` epochs and pools | `EpochAt`, `EpochWindow`, `AcceptedPoolWindow` as in `epoch.rs` and `lib.rs`; the subset is a constant function of the epoch: both ends compute the same one (`PoolDerivation` shows why), and nothing depends on which |
| `PoolDerivation` | `into_config`, `MasterList::new`, `keyed_epoch_subset` at two or more ends | see 2.4; what it proves of a subset's size is what `EpochPool` assumes |
| `Selector` | one call of `Selector::select` | the set of entries the call may leave; the random draw is any member of the pool |
| `DnsWarmer` | the cache decisions of `warmer.rs` | TTL clamp, freshness, expiry |
| `Pipeline` | connection tasks of `hydra-client` | see 2.1; extends `EpochPool`, instances `Selector` and `DnsWarmer` |
| `Rotation` | the client's pool and the server's names | the timer, the operator's reload and the two clocks; extends `EpochPool` |
| `Pipe` | what one proxied connection promises | abstract specification, five actions |
| `Tunnel` | one connection, end to end | see 2.2; implements `Pipe` |
| `TlsMaterial` | `tls.rs` over starts, crashes and restarts | see 2.3 |
| `ServiceUnits` | `service.rs` on Linux, with what it relies on of systemd | see 2.5 |
| `Installer` | the commands of `xtask/src/main.rs` and `init.rs` | see 2.6 |
| `Bytes` | integers as bytes of a small base, both orders | `to_be_bytes`, `to_le_bytes` and their inverses |
| `HeaderCodec` | `tunnel-proto`, and the exit node's buffer loop | see 2.7 |
| `RealityAuth` | `reality-tls`: `client.rs`, `config.rs`, `auth.rs` | see 2.8 |
| `HealthSweep` | `health-checker` | see 2.9 |
| `Metrics` | `hardening/src/metrics.rs` | see 2.10 |
| `EpochPoolProofs`, `PipelineProofs`, `RotationProofs`, `TunnelProofs`, `TunnelRefinement`, `OnDiskProofs`, `LibraryProofs`, `WireProofs` | | proofs only: the parts of `MCOnDisk` in `OnDiskProofs`; `PoolDerivation`, `Metrics` and `HealthSweep` in `LibraryProofs`; `Bytes`, `RealityAuth` and `HeaderCodec` in `WireProofs` |
| `MCPipeline`, `MCRotation`, `MCTunnel` | | model values and small instances for TLC |
| `MCLibraries` | | the five parts that are libraries: `PoolDerivation`, `HeaderCodec`, `Metrics`, `HealthSweep`, `RealityAuth` |
| `MCOnDisk` | | the three parts whose state is files: `TlsMaterial`, `ServiceUnits`, `Installer` |

The last two modules are sums: the variable `part` is chosen in the initial state, and a
behaviour is one of that part alone, while the others stay where they start. The parts share no
state in the code either, so the product of their states would show nothing more.

Definitions whose comment begins with "Faulty" are not part of the model. Each is
a plausible mistake in the definition that follows it, and `PROJECT.json` says
which property it breaks: a property that no mistake in the code could break
would say nothing about the code.

### 2.1 Pipeline

`pc[t]` is where a task stands in `handle_connection`; `dest`, `epoch`, `now` and
`sni` are its locals. An action is a stretch of code with one access to shared
state or to the clock, so the awaits, and the threads between them, interleave
freely. `maybe_refresh_epoch` is `ReadEpoch`, `EpochUnchanged`/`EpochChanged`,
`LockPoolForWrite`, `AssignPool` and `SendEpoch`. The choice of the SNI is
`ReadNow` (before the lock is asked for, as in the code), `LockSelector`,
`LockPoolForRead` and `Pick`; the warm is `WarmHit`, `WarmMiss`, `Resolved` and
`ResolveFails`. The tunnel is opaque here: it opens or it does not.

`evict_expired` of both caches is not an action, because nothing in the program
calls it. The clock is one counter, which stands for the seconds of `epoch_at`
and the milliseconds of `now_ms`.

`warmed`, `lastLookup` and `raced` are history variables. `raced` is set while
refreshes for different epochs overlap.

### 2.2 Tunnel

Three links, each with two FIFO halves, between application, client, exit node
and destination. Dropping a socket appends an end of stream; `Cut` loses what is in
flight and fails both ends; `Kill` drops a process before its relay (to the other
ends, a death in the relay is a cut of its two links). The CONNECT header is three
segments (fixed part, address, MAC), which is the grain at which `parse_request`
can tell its results apart, and `ReadHeader` takes any number of those that have
arrived, as a read does. The client's handshake, header and relay are
`ReadGreeting` ... `AwaitReply` and `Copy`; the exit node's are `AcceptTls`,
`ReadHeader`, `Dial`, `SendOk` and `ForwardEarly`, then `Copy`. Both relays are
tokio's `copy_bidirectional`, which the repository does not contain and which is
modelled from what the code relies on: an end of input shuts its output down, the
second one or the first error ends it. The comments at the two call sites, "until one side
closes" (`pipeline.rs:230`) and "until either side closes" (`hydra-server/src/lib.rs:142`),
are about copying in both directions; after one half-close the other direction goes on.

`Pipe` says what that is for: a connection opens at most once, never before the
destination was reached, and then delivers prefixes in order. `ImplementsPipe` is the
refinement, with the phase read off the client's `pc` and what the ends received
as it is, less the two replies of SOCKS5 that come before the payload.

### 2.3 TlsMaterial

`fs::write` truncates and then writes, so each file has a step in which it is empty
and, if the process dies or the disk fills up, a state in which it holds a part.
`load_or_generate` looks whether both files exist, and either loads them or
generates and persists a pair; `server_config` refuses material that is not a pair.

### 2.4 PoolDerivation

An end loads a file (`Load`: `into_config`, which also sorts the list, or a refusal) and
derives pools (`Derive`). Names are ranks in the order of strings. `stream` is HMAC and
ChaCha20 as a random function: what a seed yields is arbitrary but the same every time.
The sampler's key `ln(u) / weight` is compared by cross multiplication, exactly; the code
rounds to `f64`, which may turn unequal keys into equal ones, and equal keys are in the
model. A sort is any enumeration that follows the order: that there is only one is a
lemma, not an assumption.

### 2.5 ServiceUnits

`install` and `uninstall` are programs, sequences of steps (`Install`, `Uninstall`), of which
`todo` is what is left. A step succeeds (`WriteUnit`, `RemoveUnit`, `Reload`, `Enable`, `Disable`), finds
nothing to do (`NothingThere`), fails and is ignored where the code writes `let _ =` (`FailureIgnored`), or
ends the command, as a kill does (`Stop`). Writing is in place, so `Stop` and `Reboot` may leave
half a file. Between the steps and after them units end, are restarted, are started by the
timer, and the machine reboots. systemd is not in the repository: `loaded`, `enabled` and
`active` are what the code relies on, that `enable --now` and restarts use the definitions of
the last reload, and that a unit that runs is not started again.

### 2.6 Installer

Two shells, one for xtask and one for `hydra init`, each with the steps its command has left.
`Config` is the step of `xtask config` that looks for `hydra.toml` and else calls the
installed `hydra`, or the built one. `init` is `InitChecks`, `OpenConfig` and `WriteConfig`: `fs::write`
empties the file and then fills it, and `--force` skips the check. `opened` says who fills the file
that is there: after `RemoveConfig` a writer goes on with one that is gone, and where two fill the same one,
either's text or a mixture of both remains. A file is the version it was built from, or the number of the
configuration in the order of writing (their keys are fresh, so no two are the same). Of the flags of `all`
only `--skip-build` matters: `--skip-tests` leaves out a step without an effect. cargo is
external: a build that fails may have made any of the binaries anew.

### 2.7 HeaderCodec

The lengths of the fields, the base of a byte and the limits are constants. `EncodeRequest` and
`ParseRequest` follow `encode_request` and `parse_request` field by field, the order of the
refusals included; a byte of a MAC names the key and the bytes it was computed over. `ReadBytes` is one turn
of the exit node's loop, which takes any number of the bytes that are there and parses the
buffer from its beginning. `Tunnel` works with three segments instead: `AsksForWhatIsMissing`
and `AcceptsWhatWasSent` are why that is enough.

### 2.8 RealityAuth

`BuildClient` (the short ids are checked, the TLS library takes the fingerprint or fails),
`BeginConnect` (the clock is read), `TcpConnect`, `Handshake` (the library's configuration,
which may fail, then the injector, which by default refuses), and on the other side `Answer`, what the
server configured by `hydra render` does with a proof. `Rewrite` rebuilds the ClientHello on the way.
Key agreement, HKDF and AES-GCM are what they promise.

### 2.9 HealthSweep

One entry after the other, `Resolve` then `Inspect`, with the world free to change between them;
`ProbeFails` is the `?` at both awaits. The four axes are translated as the code has them, a
name being its labels; `seen` records, by definitions of their own (`InRange`, `Covers`,
`Good`), whether what was observed was good. A lone `*` covers no other name: it is a name of one
label, and is compared as one.

### 2.10 Metrics

An add is one step, a snapshot one step per counter, and the monitor's delta is taken
against the snapshot before. `Width` is the number of values of a counter, so that wrapping shows.
No crate of the workspace uses the counters yet: the tasks that add and the monitor that takes
deltas are the use their API is made for, so what is checked is a promise to a future caller, and no
hazard of today's program.

## 3. What TLC checks

Bounds are in the `.cfg` files. A time unit is one epoch or less in each.

| Run | Question | Bounds, and why they are enough |
|---|---|---|
| `pipeline_safety` | In every interleaving: is the pool the window of the published epoch unless refreshes for different epochs overlap, do picks come from the live pool, do sticky choices hold until due, is a warm name backed by a lookup? | Two tasks, one destination they share, three epochs with one name each. Two tasks are enough for every overlap of two refreshes, two picks or two lookups; sharing the destination is the case in which they disturb each other. The clock advances at any step. TTLs of 0 and 3 lie outside the clamp 1..2 on both sides. Tasks are symmetric. |
| `pipeline_liveness` | Does every accepted connection get to its tunnel? | Two tasks, two epochs (a writer, a reader and the mutex's owner at once). No symmetry. |
| `refresh_race` | "The pool is refreshed whenever the epoch advances" -- violated | as `pipeline_safety` |
| `unresolved_sni` | "before the client may present an SNI, it must have been resolved" -- violated | as `pipeline_safety` |
| `rotation` | Which combinations of skew, timer lag and reload lag does the +-1 window tolerate? | Five epochs of two ticks with one name each, so that windows two epochs apart share one name and windows three apart none; skew up to 3 ticks, timer period 3. |
| `one_epoch_off` | "a client whose clock is up to one epoch off still presents an SNI the server accepts" -- violated | as `rotation` |
| `tunnel` | Is the verdict true, is no header taken for payload, is a client outside the skew refused, does the whole implement `Pipe`, does each attempt end with a verdict, and does a half-closed connection deliver? | Two chunks up, one down (loss, repetition, swapping and crossing show); skews of -2, 0 and 2 against a tolerance of 1 and one tick on the way; both secrets right and wrong; any link cut at any step, either process killed at any step before its relay. |
| `auth_fail` | "AUTH_FAIL: the header failed authentication or freshness checks" -- violated | as `tunnel`, no skew |
| `libraries` | Pools: do two ends given the same entries, in whatever order, derive the same pools, of the right size, and does more weight help a name? | Three names in each of the six orders, one weight light or heavy, `active_k` 0, 1, 2 and 4 (more than the list), and files that must be refused for each reason; draws 0..2, which include ties. One epoch and one key: other seeds have draws of their own, so nothing is shared between them. |
| | Header: is what is accepted what was sent, does each refusal have its cause, and does the parser never ask for a byte too many? | A byte has six values; fields of two and three bytes, names from none to one byte more than allowed, bytes that are no UTF-8, both versions, a payload behind the header; every way to cut it. |
| | Metrics: is each value of a snapshot one its counter had, and is each increment reported once? | Two counters of four values, five added to each: a snapshot is overtaken, and a counter wraps. |
| | Sweep: is a pruned pool exactly the entries seen to be good? | A name of three labels and its parent, written with capitals and a trailing dot; every pattern of up to four labels out of five; every axis good, bad and at its edge; failures at each await. |
| | REALITY: whose connections are accepted, and what gets one relayed away? | Short ids around the field's length and the limit, with trailing zeros; clocks around `maxTimeDiff` and the last date of the field; two keys; each part of the ClientHello rewritten. |
| `on_disk` | Certificate: one pin for the life of the directory, and the server that serves presents it? | One process, any number of starts, deaths and failed writes, up to four generated pairs. |
| | Units: do success messages of `install` and `uninstall` mean what they say, and is nothing but what was installed started? | One name, both roles, two sets of options; any number of commands, failures, kills and reboots. |
| | Installer: are the binaries of one build, and is no configuration lost? | Two binaries, two versions, three configurations, two shells. |
| `torn_key` | "Later runs load those files" -- violated | two pairs |
| `uninstall` | "Stop and remove the service" -- violated | one set of options, both roles |

Deadlock is checked but in the runs of `Tunnel`, which ends when its connection has.

### Fairness

`Pipeline`: weak fairness for each step of a spawned task, since tokio polls a task
that was woken until it is done; strong fairness for the three that wait for a lock,
since tokio's `Mutex` and `RwLock` serve their waiters in order; weak fairness for
the resolver to answer or fail. None for arriving connections, the clock or the tunnel.

`Tunnel`: weak fairness for the client's and the exit node's steps and each copying
direction, and both ends read what arrives. A dial or a handshake ends with success or
failure, as the operating system's timeouts make it; a cut is reported to its ends.
Nobody has to send, to close, to cut, to die, and no time has to pass. The code has no
timeouts of its own on the header, the reply or the dial: `VerdictComes` rests on a broken
connection being reported.

## 4. What is proved

For every value of the constants that satisfies the `ASSUME`s (which TLC evaluates in
the runs):

* `EpochPoolProofs`: `EpochAt` is monotonic, and instants at most an epoch length apart
  are at most one epoch apart (`EpochAtGap`, for a zero length too). Division is handled
  by two lemmas, `DivMonotonic` and `DivGap`.
* `PipelineProofs`, for any number of tasks, destinations, names, epochs and TTLs.
  `TypeCorrect` carries the locals: none is read before it is set. On it rest four
  inductive strengthenings:
  - `RefreshInv`: if no refreshes for different epochs overlapped, all tasks under way
    have the same epoch, and the pool is either that of the channel or already theirs.
    `PoolFollowsEpochUnlessRaced` alone is not inductive: between the write and the send
    it says nothing. It gives `RefreshCoherent`.
  - `NowInv`: no task's time is ahead of the clock. With it `StickyHolds`: an entry that
    looks expired to a task that waited for the selector is expired by the clock.
  - `PoolInv`: the pool is never empty, so the fallback name is never presented
    (`NeverFallsBack`). `PickIsLive` follows step by step.
  - `DnsInv`: an entry expires at most `MaxTtl` after a lookup really made, whatever the
    order in which answers came; `WarmIsGenuine`.
* `RotationProofs`: `SkewBudget`, `CommonName` and `AcceptedInEpoch`, from
  `RotationTypeCorrect` and two facts about windows: a neighbour's subset is covered
  (`NeighbourCovered`), and windows two apart meet (`WindowsMeet`).
* `OnDiskProofs`, the certificate, for a directory that one process at a time uses: `StableInvariant`
  says what the files hold at each place of the process, and above all that a pair whose
  pin was printed is never replaced. `OnePin` and `ServesThatPin` follow.
* `TunnelProofs`, for payloads of any length, any skews and any tolerance. The invariant follows the
  two halves of the tunnel. Towards the exit node, until it has its header, there is what is left of
  one fixed stream, the handshake's end and the header (`ReadInv`, `SendInv`), so the buffer is
  a prefix of the header (`BufInv`, `HeaderOnly`). Back, there is nothing before the reply, and the reply at the
  head is true until the client has read it (`ReplyInv`): without that, `VerdictMatchesServer` is not inductive.
  `VerdictIsTrue` and `SkewBound` follow, the latter because the stamp is never ahead of the
  client's clock while its header is under way.
* `TunnelRefinement`, for the same generality: `PipeIsImplemented`, that every step of a connection is a
  step of `Pipe` or none. Its invariant (`FlowInv`) says of each of the six halves which part of the payload is
  on it, namely what the half after it has not had (`Carries`), and of the first half in each direction that
  it ends where the sender stands. Each part holds only as long as the task that reads the half may still
  pass it on (`ClientReads`, `ServerReads`, `ClientWrites`, `ServerWrites`): after a cut, a death or an
  end of stream what is behind it is stale, and claiming more is not inductive. A message that is copied
  takes its part along (`CarriesNext`, `CarriesTail`). The reply "ok" comes before the destination's
  payload, and nothing of the application's follows the header before it, which rests on the
  invariant of `TunnelProofs`.
* `OnDiskProofs`, the units, for any options. A command is always at a place of its program, and the
  invariant says what the disk, the definitions and the enabled units are at each place: that gives
  `InstallIsComplete` and `OnlyWhatWasInstalledStarts`. `UninstallIsComplete` needs, besides, what may be
  left over by earlier commands of the one role (`RemovalInv`): a file that is not there is not enabled.
* `OnDiskProofs`, the installer, for any list of binaries and any number of versions and configurations. As for
  the units, a shell is at a place of its program (`ShapeInv`, `LeftOfAll`), and from the end of the
  build of `xtask all` on, the binaries built are of one version and those whose turn has been
  are installed (`AllInv`): `AllInstalls`. That no configuration is lost (`ConfigIsKept`) needs the
  other shell too: a write that was decided on a check waits for a file that is still not
  there, or being written, or half there, or newer than the command (`PendingInv`). And that
  `all` leaves a configuration rests on nobody but xtask removing the one it has opened (`OpenInv`).
* `LibraryProofs`:
  - `PoolDerivation`, for any ends, files, lengths and draws. The place of an element in a
    sorted enumeration is the number of those before it plus one (`SortedRank`, by a bijection), so
    there is one enumeration at most (`SortedUnique`): hence equal entries give equal lists
    (`SameEntriesSameList`), and one list and its draws nested prefixes (`SubsetsNest`). Raising a weight
    can only shrink the set ahead of that name (`HeavierIsKept`). The invariant says that each pool is one
    the sampler may return for the configuration its end now has; `NestedPools`, `ExactSize` and
    `HeavierStays` follow.
  - `Metrics`, for any counters and any width. A snapshot and a report are remainders of what had been
    added at some time, at times that do not go back (`ReportedInv`), and until a counter wraps
    they are those sums themselves (`UnwrappedInv`). The arithmetic of a word is `WordAdd` and
    `WordGap`. Hence `SnapshotsAreRecent` and `DeltasAlwaysAddUp`.
  - `HealthSweep`, for any list, allowlist and answers: `MatchIsCover`, that the code's comparison of
    names is the definition of a wildcard's meaning, label by label, in `Covers`; and that the verdicts
    agree with what was seen as far as the sweep has come (`SweepInv`), from which a
    pruned pool is exact (`PrunedIsSeen`, `PrunedPoolIsExact`). It rests on `MasterList::new`
    refusing an empty list and a name twice (`SweepAssumption`).
* `WireProofs`:
  - `Bytes`, for any base and any number of bytes: reading back what was written gives the number modulo
    the powers of the base, in both orders (`LittleEndian`, `BigEndian`). The induction over the length
    is `IntervalInduction`, which takes a set of numbers where a scheme of induction would take an
    operator, and follows from the finiteness of the interval; `Recursion` gets the
    existence of recursive functions from it, and `Powers` and the two round trips follow.
  - `RealityAuth`, for fields, short ids and clocks of any size: the three fields of the proof are
    read back (`Parsed`), and a proof opens for the server and in the ClientHello it was made
    for only (`OpensForItsServer`). `AcceptedIsMeant` and `RelaysHaveACause` follow. The timestamp
    is a remainder, so `AuthAssumption` asks that the tolerance and the skew together be shorter than the
    field's range, 136 years.
  - `HeaderCodec`, for fields of any length, any destinations and any way of cutting up the bytes. `Layout`
    says where each field of an encoded request stands, and `InBuffer` that a field that has
    arrived is read as it was sent. From these `Parses` says, case by case in the order of the
    parser, what it answers to the first part of a request. The invariant (`HeaderInv`)
    then only has to say that buffer and wire are the two halves of one request and that the last
    answer is the right one; it gives `NeverWaitsForMore`, `AcceptedIsSent` and `RefusedForCause`. That a request
    which is not complete fits the buffer (`ReadingFits`) is why "header too long" never happens.
    `HeaderAssumption` gives what is sent the types of the code: `u64`, `u16`, addresses of their
    length, and a domain that is a `String` and came in a SOCKS5 request, so in fewer than 256 bytes.

Only model-checked: liveness (`ConnectionReachesTunnel`, `VerdictComes`, `HalfCloseDelivers`), since this prover reaches
neither fairness nor `ENABLED`. Every invariant and every action property of a passing run is a theorem.

## 5. What the checks found

Each is a violation run; `PROJECT.json` quotes the line it disagrees with.

1. `refresh_race`: a refresh that computed an old epoch's pool can write it after a newer
   refresh did, and leave the channel on the newer epoch: connections then use the old
   pool until the epoch after. With the proviso of no overlap, coherence is proved.
2. `unresolved_sni`: a failed lookup is logged and the SNI presented all the same.
3. `one_epoch_off`: the client draws from its own +-1 window, so one epoch off it can
   present a name two epochs away from the server's. What does hold is proved: the names of
   the client's own epoch are all accepted.
4. `auth_fail`: a domain of 254 or 255 bytes passes SOCKS5 and the encoder, and the exit
   node answers AUTH_FAIL although secret and clock are right.
5. `torn_key`: a death in the middle of the first run leaves a key file that exists but is
   not usable; every later run loads it, prints the pin and fails.
6. `uninstall`: given the role that was not installed (`client` is the default) and the `--name` of
   the service, it deletes the unit files of the other role's service and says that it is removed,
   while its unit runs on and stays enabled. Without `--name` the two roles' names differ, and the
   other role's files are left alone.

The relay comments of 2.2 are loose rather than wrong, so they are no finding: read as "the relay ends
with the first close" they would contradict what the code does, which `HalfCloseDelivers` shows.

## 6. What is not modelled, and why

* Power loss (`TlsMaterial` models the death of the process: what was written stays), and
  clocks that step back. Two server processes on one directory, in the runs: the module
  allows it and `PinStable` does not hold there, which its comment says.
* The growth of the sticky map (`select.rs:70`): nothing evicts from it, which is plain from the code, and no
  bound is claimed. `evict_expired` of both caches is dead code.
* A half-written `hydra.toml` that later commands keep (`xtask/src/main.rs:176`): the code promises no repair.
* Cryptography: MACs, key agreement, AES-GCM and TLS do what they promise.
* The weights in the selector's draw: it is any member of the pool. In the sampler they count.
* The formats of the configuration (one bit, `decodes`), `keygen` and `render`: text made from arguments.
  `serve` only starts the pipeline.
* The distribution bundle (a chi-square statistic in floating point) and the checklist of
  `hardening`: each computes one report from its arguments, and keeps nothing.
* `status` of xtask, which prints; the setup scripts; and the service commands of Windows, which
  are one call of `schtasks` each, with no state of the program's own.
* Time limits: the code has none on the client's wait for the reply (`hydra-client/src/tunnel.rs:100`), on the exit
  node's wait for the header (`hydra-server/src/lib.rs:108`) or on its dial. A peer that is silent for ever is excluded by
  the fairness of `Tunnel`, so no property is about it.
* How late a sticky choice may be used: `select_sni` reads the time before it waits for the selector's mutex
  (`pipeline.rs:168`), so a task that waits may reuse an entry that has run out meanwhile. `select` promises
  freshness relative to the time it is given, and the wait has no bound, so there is none to state;
  `StickyUntilDue` says that the stale time makes no choice flip early.
* The ClientHello's fingerprint in `reality-tls` (one value), the patched TLS stack and the Xray server
  (external). Its connector is not wired into the client's tunnel, so `Tunnel` does not use `RealityAuth`.

## 7. Plan

Order of work, most important first.

1. Done, with proofs of every invariant: `EpochPool`, `Selector`, `DnsWarmer` and `Pipeline`; `PoolDerivation`;
   `Rotation`; `Tunnel` and its refinement of `Pipe`; `TlsMaterial`; `ServiceUnits`; `Installer`; `Bytes`,
   `HeaderCodec`, `RealityAuth`, `HealthSweep` and `Metrics`.
2. That the three segments of `Tunnel`'s header are an abstraction of the bytes of `HeaderCodec`: today two
   properties of `HeaderCodec` say so, not a refinement mapping.
3. Power loss in `TlsMaterial`: what an unsynced write may leave.
