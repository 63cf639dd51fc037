# OpsSignal: TLA+ specifications

OpsSignal is an embedded alerting SDK: a program calls it with a *signal* (an
alert with a severity, a title and a dedup key) and it stores the signal,
routes it by the configuration, and delivers it to providers such as Slack or
PagerDuty. The logic is one Rust crate, `crates/core`; the command line, the C
interface and the Python bindings call it. These modules specify that crate and
the programs around it, TLC checks them on small instances, and TLAPS proves
the most important facts for every instance.

## The system

| Part | Source (`crates/core/src`, unless named) | State | Operations |
|---|---|---|---|
| Client | `lib.rs` | the current pipeline, the stores, the runtime | `notify_async`, `send`, `flush`, `flush_groups`, drop |
| Signal | `signal.rs` | none | `validate`, `fill_lifecycle_defaults`, `from_input`, `compute_dedup_key` |
| Routing plan | `routing.rs` | none (a pass over the routes) | `matches`, `plan_with`, `targets` |
| Throttle | `throttle.rs` | table `throttle`, shared by every process on the host | `admit`, `admit_digest`, `release` |
| Groups | `group.rs` | the map of open groups, a sequence counter, sleeping timers | `add`, `take`, `take_all`, `digest` |
| In-flight count | `inflight.rs` | a counter and a condition variable | `start`, `wait`, guard drop |
| Delivery | `lib.rs`, `delivery.rs` | a tracker per signal: each provider's outcome | `deliver`, `deliver_chain`, `summarize` |
| Sink | `sink.rs` | tables `signals` and `deliveries` | `record`, `provider_outcome`, `complete` |
| Alert book | `lifecycle.rs` | table `alerts`, shared like the throttle | `open_alerts`, `record` |
| Providers | `providers/`, `template.rs` | none; the services keep incidents and messages | `send_with_ref` of each, `render` |
| Config sources | `source.rs` | a disk cache per remote file | `parse`, `join`, `load_initial`, `write_cache` |
| Config chain | `chain.rs` | a stack and a set during one walk | `walk`, `visit`, `load`, `merge` |
| Config checks | `config.rs` | none | `from_layers`, `check_routes` |
| Reload | `reload.rs` | the texts last seen | `Reloader::check` |
| Secrets | `secrets.rs` | a process-wide cache with a TTL | `resolve`, `cached_read` |
| Cloud | `cloud/` | process-wide maps: AppConfig sessions, ETags, tokens | a fetch per kind of source |
| Command line | `crates/cli/src/main.rs` | what it will report | `notify`, `acknowledge`, `resolve`, `preview`, batches |
| C, Python | `crates/ffi`, `crates/python`, `python/` | one client, or one error, per process | `notify`, `send`, `flush`, flush at exit |

How they interact, for one trigger: the caller's thread validates it, takes the
current pipeline, and plans it (`plan_with`), asking each throttled route's
history on the way (`admit` inserts the history row at once). It stores the row
as `pending`, adds the signal to the open group of each grouped route, and
delivers to the remaining targets, in a spawned task (`notify_async`) or in
place under a timeout (`send`). At the end the histories forget a signal whose
delivery failed (`settle`), the alert book learns who got it, and the row takes
the outcome (`complete`). Groups are closed by whoever comes first - the signal
that fills one, its timer, a flush - and sent by a task of their own, which
settles the members' histories and rows. An acknowledge or resolve skips routes
and throttle and goes where the alert book says its alert is. A background task
polls the config and swaps the whole pipeline. The config is a chain of files
that extend each other, read from disk, the web or a cloud, with secrets filled
in before they are merged and checked. The bindings build one client at the
first call of a process; the command builds one, sends what it was given, sends
the open groups, and turns the results into an exit code.

What makes this hard: several processes share the tables while each reads the
clock and the book before it locks them; timers, flushes, filling signals and
digests race on the groups; a timeout drops a delivery between any two awaits;
providers may accept a request whose answer is lost; every store write may fail
and must not stop an alert; the process may exit anywhere; concurrent reads
share tokens, sessions and cached secrets that none of them locks while it
waits; an interpreter's lock is needed by threads that its owner waits for.

### What makes each part correct

* **Throttle**: no route sends more than its limits allow, and it suppresses a
  signal only on account of signals that still count.
* **Groups**: a held signal is sent exactly once, with its own group, without
  help, and not before its group's time; a flush that says it is done is.
* **Delivery**: every target is tried to the end, nobody who has the signal is
  missing from the record, and result, store and history agree.
* **Alert book**: a resolve goes to exactly those who hold the alert.
* **Plan**: no provider twice, the documented order, never silence.
* **Dispatch**: one row and several histories come out right for a signal that
  goes several ways at once.
* **Signals, messages**: different alerts keep different keys and one alert the
  same, also where a service cuts the key; no message is blank or out of date; a
  digest speaks for all its members.
* **Config**: a chain is flattened in the documented order within its limits, a
  child wins, what is accepted can be used; no poll puts in place what does not
  merge, the cached copies fit together and save a start when the network
  fails, and the client catches up with its sources.
* **Secrets, cloud**: a text is the source's own of the time it was read, a
  secret at most a TTL and a request old; a token outlives its request.
* **Command line, bindings**: exit code 0 means that nothing with an outcome
  failed, an error that sticks is a real one, every call returns, a flush at exit
  has delivered what `notify` had started.

## Modules

| Module | What it is |
|---|---|
| `Throttle` | the history of one route, by concurrent processes |
| `HoldAndSend` | what grouping promises (abstract) |
| `Groups` | open groups, timers, flushes and the in-flight count |
| `FanOut` | what a delivery promises (abstract) |
| `Delivery` | one signal's delivery, its store and its timeout |
| `Lifecycle` | one dedup key's triggers, acknowledges and resolves, and the alert book |
| `Plan` | `plan_with`, one pass over the routes |
| `Dispatch` | one signal's row and histories over direct and grouped routes |
| `Signals` | operators: validation, keys, what a route matches, a group's values and digest |
| `Messages` | operators: what each provider is sent, and templates |
| `Requests` | calls one after the other, over `Messages` and `Signals`: alert book, services, groups |
| `Sources` | operators: names of config files, parsed, written and joined |
| `Layers` | operators: placeholders, secrets' references, merge and checks |
| `Chain` | the walk of `extends`, over `Sources` and `Layers` |
| `ConfigBuild` | `Chain`, then the merge |
| `ConfigLoad` | start, cache and poll of the config, by the processes of a host |
| `Cloud` | concurrent reads through the process-wide maps |
| `Process` | what a process is given (shared by the next two) |
| `CommandLine` | the command |
| `Bindings` | a Python or C program with threads |
| `Hosts` | a process is one of these two |
| `ThrottleProofs`, `GroupsProofs`, `DeliveryProofs`, `AlertProofs` (of `Lifecycle` and `Requests`), `PlanProofs`, `ClientProofs` (of `Dispatch` and `Hosts`), `ConfigProofs` (of `ConfigBuild` and `ConfigLoad`), `CloudProofs` | the proofs |
| `MC*` | constants, worlds and symmetry for TLC |

Operators whose comment begins with "Mutant of" are not part of a
specification: each is a plausible bug, and the property it is paired with in
`PROJECT.json` fails when it replaces the operator it names. A property that
says several things has one such bug for each. Each module has a type invariant
`TypeOK` (in `Hosts`, `HostTypeOK`, in `Requests`, `RequestTypeOK`, in
`ConfigBuild`, `BuildTypeOK`), by itself or as a conjunct of one of the module's invariants; it is
proved for every module that has proofs.

### Throttle

State: `rows` is the table of one route (every statement filters by the route's
key, so routes do not interact); a row is identified with the send that
inserted it, its dedup key is `KeyOf`, its `sent_at` is `at`. `status` is where
each send's call is. Actions: `Stamp` is `plan_signal` reading the clock;
`RefuseDuplicate`, `RefuseLimited` and `Admit` are the three ways the
transaction of `try_admit` ends (one IMMEDIATE transaction, so one step);
`LetThrough` is any storage error; `Deliver`, `Release`, `ReleaseError` are
`settle` after the delivery; `Crash` is an exit before it. The time between
`Stamp` and the transaction is the point of the module: it is bounded by
`MaxLag`, because a writer gives up after `BUSY_TIMEOUT` and a longer pause of a
process is assumed away. All limits hold up to that lag (`DedupGap`,
`RateCap`); without the allowance they need not (`DocumentedLimits`).
`SuppressionHasCause` says that a release really undoes an admission.

### Groups

State: `open` is the map (key to sequence number and members), `timers` the
sleeping tasks, `sending` the closed groups whose task has not ended, `sent` how
often each member was part of a send, `inFlight` the counter, `flush` the
program counter of each thread in `flush`, `owed` (history) what was held or
under way when that flush began. `Groups::add` is `AddOpens`, `AddJoins` or
`AddFills`; `take` is `TimerFires`; `take_all` is `TakeAll`, inside `FlushTakes`
and `FlushGroups`; both locks are held throughout, so each is one step.
`InFlight::wait` is `FlushChecks` (the test and falling asleep are one step
under the mutex) and `FlushDeadline`. Guards end in `DropGuard`. A member is one
call of `add`; a signal on two grouped routes is two members.

### Delivery

State: `phase`, `pos` and `tries` are the task of each target; `said` is the
tracker's memory; `head` and `rows` are the stored statuses; `kept` is the
routes' history; `has` and `astray` are the world outside: who accepted the
signal, and which requests may still arrive though nobody waits. Each action
is the code between two awaits: `Begin` (join_all polls every target once),
`AttemptSucceeds`, `AttemptFails`, `BackoffEnds`, `ProviderGivesUp` (reports the
failure and goes on to the next known provider, reported pending, in one
uninterrupted run), `TimesOut` (only a blocking call; drops the futures where
they stand and counts pending providers as failed), `Settles`, `Saves` (the
row, then one statement per provider, the first error ends it), `Crash` (also
between those statements). `Accepts` and `ArrivesLate` are external.

### Lifecycle

One dedup key. State: `row` is the alert book, one state per provider; `stage`,
`targets`, `left`, `got` are the calls; `alerted` and `holds` are what the
providers know. `SendTrigger` and `SendLifecycle` are `prepare` (the latter
reads the book), `TargetEnds` one target's delivery with a lost answer
possible, `Records` one statement of `AlertBook::record`, `Dies` an exit. The
histories `overlapped` and `broken` let properties speak of undisturbed calls
without restricting the model.

### Plan

`plan_with` as a state machine with the indices `i` (route) and `j` (provider),
so that the single pass, with its `seen` list and shared failover target, can
be compared with the definition its documentation gives (`PlanIsAsDocumented`).
A gated route may be admitted or turned down, either way.

### Dispatch

One trigger over `Direct` and `Grouped` routes. The caller's steps follow
`notify_async`/`send`; `GroupDelivers` and `GroupStores` are
`GroupSender::send` in other tasks, which may run between any two of the
caller's steps. `counted` is the set of routes whose history counts the
signal, `admission` and `member` say who answers for which (split_off).

### Signals, Messages, Requests

A text is a sequence of characters where a length or a separator matters, and a
key is what it was made of: the caller's text, the hashed fields, or a digest's
group. `Signals` translates `signal.rs`, the matching of `routing.rs`, and
`field_value`, `common` and `digest` of `group.rs`; `Messages` each provider's
request for each action (cut keys, urgencies, labels, and what a template that
works, fails or renders blank puts in their place).
`Requests` makes calls one after the other. State: `rows` is the alert book over
all keys, with Slack's reference; `open` and `posts` are the incidents at
PagerDuty and Opsgenie and the messages in Slack; `held` is an open group.
`Raise` and `Follow` are `send` for a trigger and for the other actions, with any of
the services down; `Hold` and `CloseGroup` are the grouped route. Overlap and
lost answers are left to `Lifecycle`, the order within one delivery to `Delivery`.
Left out: markup, links, formatting, ids and times, and the digest's wording: its
message has a line for each member, of which the severity that begins it is kept.

### Sources, Layers, Chain, ConfigBuild

A source's text is its scheme, the parts between slashes and its parameters.
`Parse`, `Display` and `Join` are `ConfigSource::parse`, its `Display` and `join` for all
kinds (local, http(s), s3, appconfig, dynamodb, gs, firestore, az, azappconfig,
cosmos), with `normalize` and `join_key`. A file's content (`Layers`) is its
`extends`, the strings with placeholders, its provider entries as sets of keys,
and its routes; `Build` is what `chain.rs` does with one text, `Overlay` one layer
of `from_layers`, `Complaint` the checks in their order, `RouteKey` is
`throttle::route_key` with the way a window is written back.
`Chain` is the recursion of `Walk::visit` with an explicit `stack`: `Enter`, `Skip`,
`Leave`, `Fail`, `Finish`. It is compared with definitions that know nothing of a
stack: reachability, and the post-order of the graph without repetitions
(`WalkAsDocumented`, which also says that one file is loaded once, `OneFileOnce`).
`ParentsFirst`, a part of `ChildWins`, says of each file what that order is for, so
that it can be proved for every graph; `ReadAsMeant` says of names that whoever reads
one reads the same item (`AddOnReadsTheSame`), which is none of the host if a remote
file names it (`RemoteStaysRemote`). `ConfigBuild` adds `Merge`. Two names may open one file (`Opened`), as on a file
system. Left out: YAML, whitespace, ports and percent escapes, the slash a URL keeps
behind a last dot segment, the template language's own globals, keys nothing
depends on, symbolic links.

### ConfigLoad

Several processes start clients on the files listed in `$SIGNAL_CONFIG`, lowest
priority first, some remote and some local. State: `served`, `down` and
`storeDown` are the world outside (`Publish` and `Weather` change them at any
time, also between two files of one walk); `cache` is the directory of copies
all processes of the host share; `stage`, `got` and `saved` are where each
process is; `config` is the pipeline in effect, also the reloader's
`last_texts`, which is set in the same uninterrupted block. `Load` and
`LoadFails` are one file of `Walk::load` in its three modes (a start, which may
use a cached copy of a single file; the second walk of a start, with cached
copies only; a poll, which never uses one); `MergeFresh`, `MergeCached` and
`MergePoll` are what `load_initial` and `Reloader::check` do when a walk has
ended; `Refuse` is a local file's fatal error; `Save` is one `write_cache`, which may fail;
`Exit` is an exit anywhere. The history `torn` (some set of copies was not written
or read as a whole) lets properties speak of undisturbed runs without
restricting the model. `down` stands for a file that cannot be read or does not
parse: neither gets past `Walk::load`. Left out: `extends` (the list of files is
fixed here; `Chain` has it), malformed secret references and missing add-ons
(fatal at once, the latter before any file is read), the digest that lets a poll see a rotated secret, and a cache
that is switched off.

### Cloud

A read (`Begin`) looks in its map and starts its first request; each later action
is what it does when an answer has come: `LoggedIn`, `GotSecret`, `GotTagged`,
`GotPlain`, `Opened`, `Polled`. State: the four maps `secrets`, `sessions`, `etags`,
`tokens`; `reads` holds each read's clone of an entry, taken before it waits;
`writes` is when each version of a record was stored. `Serve` is the service, at
some moment between request and reply, and it may refuse, answer badly or
without an ETag; `Write` changes a record at any time; `Tick` is the clock, which
cannot pass a request's timeout. Left out: signing, credentials, URLs.

### Process, CommandLine, Bindings, Hosts

`world` says what one process is given. `CommandLine`: `ReadInputs` and
`BuildClient` with their exits, `SendNext` is one `notify_sync`, `TakeGroups` and
`Finish` are `flush_groups` and `report`; `TimerTakes` and `TaskEnds` run beside them.
`Finish` may come before a group it waited for has ended: that is the 5 seconds
running out, and the group is then in no result (`Ended`).
`Bindings`: `Call` to `Return` are a thread's way through `notify` and `send`, with the
process-wide `cell` (`get_or_init`) and the interpreter's lock `gil`, which a thread
holds only within a step unless the model says that it waits with it; `Fetch`
and `DeliverStep` are the add-on's threads, which need that lock;
`FlushBegins`, `FlushEnds` and `Gone` are the exit. A flush waits for the deliveries
in the in-flight count, which are those of `notify` (`Counted`): `send` takes no guard,
so a flush returns true while another thread's `send` is under way. The digests,
which are in the count too, are left to `Groups`. Left out: conversions of values,
pointers and panics, the packages' own code.

## Runs

| Run | Shows | Bounds |
|---|---|---|
| `throttle` | limits up to the lag, suppression justified | 4 sends of 3 keys (two share one), windows of a few units, every commit order, release and crash |
| `groups` | one place per signal, no missed wake-up, timers and flush honest; every held signal is sent, a flush returns; implements `HoldAndSend` | groups of 3: three signals of one key (one opens, one joins, one fills; after a flush a younger group opens under the old timer), a direct send, a flusher |
| `delivery` | record, result, store and history agree; a blocking call returns; implements `FanOut` | a chain of two with an unknown provider between, a second target, two attempts |
| `lifecycle` | no resolve out of the blue; undisturbed calls go to the holders and leave the book right | 3 calls, a message provider, one that resolves by key, one removed by a reload |
| `plan` | the plan is the documented one | every config of up to 3 routes over 3 providers |
| `dispatch` | row and histories right in every order | 2 direct and 2 grouped routes, 3 with a history |
| `requests` | book and services agree, nothing blank or out of date, keys tell apart, digests speak for all | 13 inputs, 3 calls, 4 configs of templates, 3 sets of services down; limits of 2, 3, 2 and 1 characters |
| `config_build` | the walk's order, limits and identity of files; a remote file stays remote, a text means one item; child wins; accepted means usable; one route, one history | every graph of 4 local files from a family of 4 x 4 x 4 x 4 lists under 4 lists of roots; a star of 6; each of some 30 slips in each file of two graphs; a pair of files for every kind of source and way of naming |
| `config_load` | pipelines in effect merged; undisturbed copies fit and save a start; the client catches up with its sources | 1 process that exits and starts again at any point, a remote file and a remote or local one, each in two editions, one pair of which does not fit |
| `cloud` | texts and secrets are of their time, marks fit their texts, tokens outlive requests | 2 readers, up to 2 writes of a record, six worlds of sources, request timeout 1, margin 2, TTL 0 or 2, a clock of 2 to 4 |
| `hosts` | exit codes are true of what has an outcome, sticking errors are real, calls return, the flush at exit delivers what `notify` had started | every single command, batches of 3 lines, programs of 2 threads with 2 calls each; groups of 2 |
| `hosts_exit` | violation: the command exits with nothing in flight | the same |

The bounds are the smallest at which each race exists: two sends of a key race
for the window and a third prunes; a group must fill, reopen and be flushed
while an old timer sleeps; a chain needs a fallback, and a second target for
`partial`; an alert needs raise, acknowledge and resolve; a map is
read by one read while another writes it, and a record changes before and after
that; one thread builds a client while another waits for it. `MAX_GROUP_SIZE` is 2
or 3 instead of 500, `MAX_RETRY_ATTEMPTS` 2 instead of 3, `MAX_DEPTH` and
`MAX_FILES` 3 instead of 8 and 64, and the services' limits on texts 1 to 3
characters: the code only compares with them, and the runs hold inputs below, at
and above each. The proofs do not use the bounds at all. Two config files are the
least of which some can be old and some new. The copies of a second process are
covered by `torn`, which waives the same properties as an exit between two writes
does, so the run that checks them needs one process: with two, its liveness
property takes minutes.

Deadlock is not checked where calls end and nothing more happens: `throttle`,
`groups`, `delivery`, `lifecycle`, `plan`, `dispatch`, `config_load`, and the two runs of
`Hosts`, whose process ends. `config_build`, `requests` and `cloud` do check it (their
modules say when they rest).

### Findings

The run expected to fail checks what the documentation says:

* `hosts_exit`: `docs/ARCHITECTURE.md:127-128` ("has nothing in flight when it
  exits") and `docs/cli.md:64-65` ("covers every signal and digest"). `flush_groups`
  waits for the groups that are open when it is called; one that filled, or
  whose timer fired, before that (in a batch, or between a single signal and
  `flush_groups`) is a task of its own. The command exits with code 0 while it is
  under way.

Further differences, with no run of their own:

* `docs/cli.md:64-65` says that the exit code "covers every signal and digest", and
  `:111` that it is 1 if "delivery failed or timed out" (`CodeCoversDigests`).
  `flush_groups` waits 5 seconds for the groups it took and drops those still being
  sent (`lib.rs:384-391`; the last comment of `report`, `main.rs:243`, knows of it).
  Their signals count as `grouped`, so the code is 0 if nothing else failed, and the
  exit cuts the digest off, while a signal sent directly that times out gives 1.
  `CodeIsTrue` excepts just these groups; TLC violates `CodeCoversDigests` by a
  single `notify` to a grouped route whose digest takes longer than the wait.
* `docs/configuration.md:393-394` gives exact sliding windows
  (`DocumentedLimits`). A send that read the clock before another process pruned
  the table passes a check it should not; `ExactWithoutLag` proves that this
  delay is the only cause.
* `throttle.rs:197-199` says that releasing a failed send keeps the next
  occurrence from being suppressed "as a duplicate of an alert nobody received".
  A repeat that arrives while the first send is still being retried is suppressed
  by it even if it then fails.
* `lifecycle.rs:13-15`. An acknowledge after a resolve moves a by-key provider's
  row from `resolved` to `acknowledged` (`lifecycle.rs:128`); `BookIsRight` allows
  just this.
* `docs/lifecycle.md:64-65`. The book is written after the last target of the
  trigger is over (`lib.rs:551`); a resolve planned before misses providers that
  have the alert. `GoesToHolders` speaks of calls that do not overlap.
* `lib.rs:665-667`. A digest its rate limit turns down is `skipped`, not `failed`
  (`lib.rs:716`), so its members stay counted as sent though nobody got them.
* `source.rs:899-902` says that startup never fails on a network blip. An old
  copy of a remote file that does not fit a local file is a fatal merge error
  (`MergeFresh`, second disjunct), whatever the sources hold.
* `source.rs:916-918` says the cached copies merged "last time". They are written
  one by one by every process of the host (`source.rs:935`), so an exit, a failed
  write or a second process leaves a mixture, and a start that needs them ends on
  the default. `UndisturbedCacheFits` and `CacheBeforeDefault` speak of sets not torn.
* `source.rs:972-974` says that write-then-rename never leaves a truncated copy.
  Two clients of one process that cache one file at once share the temporary
  file's name (`source.rs:980`), and one may rename what the other has just
  truncated.
* `docs/configuration.md:124` says a file is cached after every successful
  fetch; the code caches the files of a walk only once all of them have merged.
  The code's way is the safer one, and `UndisturbedCacheFits` depends on it.
* `source.rs:98-100` gives a Cosmos DB source a `field` of its own. The ETag is
  remembered for the item (`azure.rs:297`), so of two sources that differ in `field`
  alone one may be given the other's text. `ReadIsCurrent` bounds the age of the
  text, not its field.
* `secrets.rs:161-162` says that a secret is read at most once per TTL. Two
  readers that find it expired both read it, and the slower may put an older
  value over a newer one. So the rotation of `docs/configuration.md:595-597` may
  take one request longer (`SecretIsFresh`).
* `validate` accepts a trigger with a blank key of the caller's, which no
  acknowledge or resolve can then name.
* A `|` in a field can make two signals' keys equal (`signal.rs:195`);
  `KeyTellsApart` leaves such fields out.
* A question mark in a relative reference of azappconfig or firestore is kept in
  the item's name (`source.rs:456`) and read back as parameters by an add-on;
  `AddOnReadsTheSame` leaves such names out.
* A relative reference that walks up to the leading slash of a key (`..` next to
  `/a/b`) leaves the empty key (`source.rs:470-476` asks for a part, not for one with
  a name), whose text `parse` refuses; `Plainly` in `AddOnReadsTheSame` leaves that
  one out.
* The limit on depth (`chain.rs:19`) is on the path of the moment, so whether a
  graph is refused depends on which of its paths the walk takes first; the limit
  on files counts those finished, so up to `MAX_DEPTH` - 1 more may be loaded
  (`LoadsAreBounded`).
* `python/opssignal/__init__.py:8-10` says, after speaking of `notify` and `send`, that
  signals still in flight at exit are flushed. Only those of `notify` are waited for,
  as `python/src/lib.rs:415-417` says; a `send` in a thread that does not keep the
  interpreter alive is cut off. `BindingIsTrue` speaks of `notify`.
* `docs/getting-started.md:58` says that a broken config raises an error on every call
  "until it is fixed". The error of the first call is kept (`CLIENT`), so a fixed
  file is read by the next process only. `BindingIsTrue` says what such an error is.
* `main.rs:30-32` of the command promises one digest per group before it exits.
  An error in the middle of a batch (`main.rs:183`) exits at once and drops what is
  held.

## Fairness

* `Groups`: weak fairness of timers, of sends ending, of direct deliveries
  ending and of a woken flusher. The runtime has its own worker threads and
  runs every ready task, and a timer is a ready task once its time has passed.
  That a send ends assumes more: the HTTP clients set no timeout, so it holds
  as long as providers answer or refuse. Nothing makes a signal arrive, a
  flush be called or a deadline pass.
* `Delivery`: weak fairness only of the caller's own steps and of the timeout.
  No provider need ever answer, and none of the retries need happen: a blocking
  call returns all the same (`BlockingReturns`). Nothing of the kind holds for
  `notify_async`, and none is claimed.
* `ConfigLoad`: weak fairness of each process's own next step while it runs: the
  runtime runs the ticker, and every fetch answers or times out (10 s). Nothing
  makes a file change, the network come back or a process start.
* `Bindings` (in `Hosts`): weak fairness of each thread's next step, of the add-on's
  threads, of deliveries and of the end of a flush. The system schedules its
  threads, the interpreter hands its lock on, and an answer or a timeout comes.
  Nobody has to make a call or end the program. That no thread waits *with* the
  lock is not assumed: it is what `CallReturns` is about.

The other modules state safety only.

## Proofs

`ThrottleProofs`, for any sends, keys, windows and limits. `History` is the
inductive core: stamps are in the past, rows belong to sends that still count
(`Live`), and a send that counts has no row only if its stamp is at least
`Keep` behind the clock, because only a prune removes the row of a live send,
and a prune by a send stamped at `now` removes rows up to `now - Keep`. With
`MaxLag < Keep` a pruned row can matter only within the lag, which gives
`DedupGap` and `RateCap`, each inductive together with `History`; the rate
limit also needs a counting argument (a window that grows by one send held
fewer than `max`). `ExactWithoutLag` sets `MaxLag = 0`. `SuppressionJustified`
follows from `rows` being a subset of `Live`.
Assumed: `RouteAssumption` (what `check_routes` accepts) and `LagAssumption`.

`GroupsProofs`, for any finite sets of signals and any group size of at least
2. The inductive invariant joins type correctness with: each member is in one
place; groups in the map are non-empty, of one key and below the cap, with
sequence numbers that are distinct and at most `nextSeq`; each has its timer;
closed groups are disjoint, non-empty, of one key and within the cap; the count
is exact; a sleeper has something to wait for; and everything a flusher is owed
is finished or under way as long as it waits. The numbers of groups are needed
because a stale timer is harmless only if no younger group has its number; the
disjointness of closed groups because the count is a cardinality. `Implements`
maps a member to `out`, `held` or `sent` and shows that every step is a `Hold`,
a `Send` of one batch, or a stutter. Assumed: `GroupAssumption`.

`AlertProofs` holds the proofs of two modules. `Lifecycle`, for any signals and
providers. `OutOfTheBlue` needs only that a
row is inserted for nobody but those that accepted a trigger
(`NamesTheAlerted`). `BookRight` and `ReachesHolders` need `Undisturbed`: as long as calls
do not overlap and nothing breaks, at most one call is under way; the book is
right about every provider except those that have accepted its trigger or its
resolve and are not recorded yet, and of these it is known whether they hold the
alert; and an acknowledge goes only to holders and to providers that resolve by
key, which is why it can make no other row wrong.
Assumed: `LifecycleAssumption`. `Requests`, for any inputs, templates, outages, number of
calls and limits of the services. `RequestInv` says what the state is made of: the
calls are valid and give the members of the open group, all of which the route
matches and the group's values agree (`CallsKept`); what is sent has a key, a title
that shows and either a message or an action that needs none (`SentKept`); a row of
the book has a key of a call or of a digest, and Slack's rows refer to the key's own
post (`BookKept`); and an incident's id is what the service reads of each key that
raised it, none of them resolved (`OpenKept`). `BookKnows` needs the last one: a resolve under a
key closes the incident under what the service reads of that key, and as long as
no two keys agree that far, the incident of this key alone. `KeysTell` is a statement
about texts: two texts without a bar, joined with bars, are equal only if their
parts are (`BarredText`, `BeforeTheBar`); the environment comes last, and a text
left out and an empty one are the same. `DigestSpeaks` compares the
priorities of every pair of severities (`Louder`), finds the worst of a group's members
(`WorstIsWorst`) and what they share (`DigestAgrees`). `MessagesTrue` follows the
templates to each provider's text: what a template leaves out is replaced by a
title that shows (`RenderedShows`, `SaysSomething`). The provers do not know that a literal such as `"|"`
is a string, so the texts are over `Letters`, the strings with the core's own literals.
Assumed: `RequestAssumption` (what `check_routes` accepts, and that no text is cut down to blanks).

`ClientProofs` holds the proofs of two modules. `Dispatch`, for any direct, grouped
and gated routes. `Answers` says who
answers for a route's history: the caller until the signal is held, then its
group. So what is taken back is always one's own (`HistoriesAreOwn`), and what
failed is taken back by somebody unless a write failed. `Rows` says that the
groups own the row exactly if nothing is sent directly, and can be joined only
after the caller has written it, which gives `LastWord`. Assumed:
`DispatchAssumption`. `Hosts`, for any processes, inputs, group size and threads.
`CliInv` says of a command what its exit code will need: before the sending
nothing was done, then every line is readable, each signal before `next` is valid,
has one result and, if it is to be grouped, is in the open group or in a task, and
no two groups share a signal. `Finish` then counts just what `CodeTrue` speaks of, the
signals and the groups that ended within the wait; a
signal that only `validate` refuses can get as far as the sending outside a batch
alone, where it is the one input (`HostAssumption`). `BindInv` says of the bindings
that one thread builds the client and had registered the add-ons when it asked
for the cell, so that the fetch fails only if the service hangs; that a delivery
belongs to a call that has come to it, so a call never starts one that a flush
already waits for; that what a flush owes are deliveries of `notify`, which it counts;
and that there is none before there is a client, so that a flush without a client
owes nothing (`BindingTrue`).

`DeliveryProofs`, for any plan and any number of attempts. `Walk` ties a target's
place in its chain to what the tracker says of the chain's providers: before the
place, those that the pipeline has failed `MaxAttempts` times; behind it nobody was
tried. So at most the provider at the place has delivered, which is why
`summarize` may look at the last one tried alone (`FallsBackLast`). `Recorded` says
that a provider with a request, or with the signal, is known to the tracker, and,
unless the sink failed, has a row (`OnRecord`); `Told` says what the result, the
history and the saved rows are once there is a result (`StoredAsReported`).
`Implements` maps `Reached` to `FanOut`: a target is reached by one provider, stays
reached, and the result counts the reached ones, also after a timeout has
turned pending into failed. Assumed: `DeliveryAssumption`, of which the part that a
plan names no provider twice is what `AsDocumented` proves of `Plan`.

`PlanProofs`, for any number of routes and providers. The documentation speaks of
a finished plan, so the invariant has to say the same of half a plan: `SoFar`
says that the targets are the documented ones for the slots seen so far
(a slot is a place of a provider in a route; `SlotsSeen` are those that the
pass is done with). A step either adds no slot (`SameSlots`) or one behind all the
others (`OneMoreSlot`), so the firsts stay firsts, the heads heads, and an order goes
on at its end (`KnownName`, `NewName`, `OrderGrows`); what `Place` does then is the one
change that the definition asks for (`GetsOwn`, `JoinsShared`). `Behind` and `AtEnd` say
what the pass knows of the routes behind it, which gives `NeverLost`. Assumed:
`PlanAssumption`; that a route lists a provider at all (`config.rs:573`) is needed, as a
route of none would take a signal and lose it.

`CloudProofs`, for any readers, sources, numbers of writes, timeout, margin, TTL
and lifetimes. The core is `Current`: a version was the record's own at some time
after `t`. A write is stamped with the clock, so it cannot take this away
(`StaysCurrent`), and everything remembered or under way says from when it is
current: a secret since a timeout before its entry, a reply since its request, the
entry that a read cloned since it began, if the service then says that nothing
changed. A mark and its text are always of one version, which is what makes
that answer good (`CurrentReads`). A cached secret is used for a TTL, hence the TTL and
one timeout of `FreshSecrets`. A token in the map is good for the margin when it is
taken, or was granted for less than that; a request lasts a timeout, and the
clock cannot pass it (`TokensOutlive`). Assumed: `CloudAssumption`.

`ConfigProofs` holds the proofs of two modules. `ConfigBuild`, for any world: any
files and names, any graph of `extends` with any cycles, any number of roots and any
limits. `WalkInv` is the invariant of the walk. Its core is `Behind`: what is struck
from the list of a file on the stack is finished or is the file right above it, so
that a file whose list is empty has all its parents in the order when it joins it
(`ParentsAreFirst`); `Once` and `Within` say that a text is in one place of stack and
order, and how many there are (`LoadsStayBounded`). `RemoteStays` needs no more than `Join`.
`ResultInv` ties the result to the merge of the order. The merge is a recursion over
the files; `MergedAs` says by induction on their number that a provider's entry is
that of the last file that gives one, and that routes of later files go first, each
with its origin. With `AncestorsBefore` (an ancestor's place is below, since the places
below contain the parents) this gives `ChildrenWin`, and with the checks behind the merge
`AcceptedIsUsable`. `RoutesShareHistory` is arithmetic: what `Shown` writes of a time is
exactly that time, whichever unit divides it. `AddOnReads` follows every kind of
source through `Parse`, `Join` and `Display`: what is parsed or joined keeps to the parts
of its kind (`Shaped`), and what is written of such a source is read as the same
(`ShapeWritten`, `GivenRead`, `RoundTrip`).
The library states induction for a predicate, which the provers cannot instantiate.
`Least` gets what is needed from the well-foundedness of the subset ordering on finite
sets: a set of numbers has a least one. `Upwards` is induction for a set of numbers,
and `Climbs` says that a recursion over `0 .. n` does what its definition says, which is how
`Folded`, `JoinKey` and `Merged` are reasoned about. Assumed: `ChainAssumption` (the roots
are texts that parse, and the files are of the shape YAML gives them).
`ConfigLoad`, for any files, processes and contents, and any notion of which
contents fit. Neither of its two invariants is inductive, as a set of copies is written and read
one file at a time. `ProcOK` says that as long as nothing was torn, what a process has
written so far are copies of the one accepted walk it is caching, and what a start
has read so far are the copies there still are. The history `torn` is set by
exactly the steps that would break it. `CacheComesFirst` then follows for the step
in which a start gives up on its copies. Assumed: `ConfigAssumption`.

Model-checked only: liveness everywhere (`FlushReturns`, `BlockingReturns`, `CatchesUp`,
`CallReturns`, and the liveness that is part of `HoldAndSend`; fairness is beyond the
prover), and `WalkAsDocumented` of `ConfigBuild`. It compares the walk with a
post-order that is unrolled as deep as the world is large; that this depth is enough,
and that the first of every repetition is the one the walk meets, needs a theory of
paths in graphs beyond what is built here. What follows from it for every file is
proved (`ParentsAreFirst`, `LoadsStayBounded`). Its part `OneFileOnce` would need that the file
system's way through directories (`Opened`) and `Normalize` agree, two folds over a name
with several exceptions for leading dots and slashes.

Some things came to light in proving. A `CASE` of `Cloud` had guards that overlap, whose
value TLA+ leaves open and TLC takes from the first; it is an `IF` now, in the
order of the code. `Plan` had to say that a route lists a provider. A preview
fails for a provider that the config does not have, with exit code 2, which
`BuildClient` did not say. A digest carries the values of its group only because
`group_by` cannot name `message`, `trace_id` or `log_url` (`GROUP_FIELDS`, routing.rs:64-77), which
`RequestAssumption` now says. `ChildWins` used to compare a file's entries with
an ancestor's, and said that the entry in effect is another; with
a third file that gives the ancestor's entry again that is false, and the property now
speaks of the file the entry in effect is of. `JoinUrl` was undefined for a relative
entry of a URL without a path. And the empty key above is
one more source whose text is not its own. A summary, too, can be blank after all: a text is cut
behind the check that it is not blank (template.rs:18-21), so a title or template
that begins with as many blanks as the service reads characters is cut down to
them (pagerduty.rs:86-89, opsgenie.rs:108-111). `RequestAssumption` leaves such texts out (`Shows`).

## Not modelled

The Airflow and dbt integrations (stateless: a framework's event becomes one
call of `notify`), packaging, scripts and documentation. Of what is modelled: YAML,
the template language, the wording and markup of messages, HTTP and signing, the
SQLite file itself (a statement or transaction is atomic or fails), the
conversions of the bindings. The fingerprint of a file's secrets that a poll
compares is left out of `ConfigLoad`, and the write of one cached copy is one step
there. Clocks that go backwards and a poisoned mutex are assumed away; so are
collisions of hashes. What could still be modelled is in the plan.

## Plan

Done: `Throttle`, `Groups`, `Delivery`, `Lifecycle`, `Plan`, `Dispatch`, `ConfigLoad`; then
`Signals`, `Messages`, `Requests`, `Sources`, `Layers`, `Chain`, `ConfigBuild`, `Cloud`,
`CommandLine`, `Bindings`, each with its run; proofs of `Throttle`, `Groups`, `Lifecycle`
and `Dispatch`; then of `Delivery` with its refinement, `Plan`, `Cloud`, `ConfigLoad` and
`Hosts`; then of `Requests` and `ConfigBuild`.

Next:

1. Proofs of `OneFileOnce` and `WalkAsDocumented`.
2. Dispatch with two routes of equal definition (one shared history), and with a
   reload between holding and sending.
3. The secrets' digest in `ConfigLoad`, with `Cloud`'s cache; the steps of one
   `write_cache` by two clients of a process.
