# NodePulse in TLA+

NodePulse is a fleet monitor: agents on servers send heartbeats, one Go server
keeps the state of every node, opens and closes incidents, pages the owners,
and answers heartbeats with restart commands. This directory holds TLA+ models
of the parts of it where order, concurrency, time or failure decide what
happens, the TLC configurations that check them, and proofs of the main safety
properties for every value of the constants. `PROJECT.json` is the index: it
ties each definition to the source lines it translates, each property to the
run that checks it, and each hazard of the code to the properties that cover it.

Check a run with `tlc -config <run>.cfg <module>.tla` (the module is in `PROJECT.json`), a
proof module with `tlapm <Module>Proofs.tla`.

## 1. Inventory

Paths are below `src/`; the last column names the module that models the component.

| Component | State it keeps | Operations | In |
|---|---|---|---|
| Incidents (`pkg/store/sqlite.go`, `resolve.go`, `silent_watchdog.go`, `janitor.go`, `snooze.go`, `callback_actions.go`, `memory.go`) | table `incidents`; the in-memory node map (last heartbeat, latest sample) | `Ingest`, `CreateIncident`, `ResolveStaleIncidents`, the janitor's sweep, `SilentNodeWatchdog`, prune, Acknowledge / Snooze / Resolve | `Incidents`, abstractly `IncidentLedger` |
| Alert rules and labels (`alert_rules.go`, `tags.go`) | tables `metric_alert_rules`, `node_tags`, `node_owners` | create, replace and delete a rule, `BindNode`, `UpsertNodeTags`, the reads of a heartbeat's owner, rules and labels | `AlertRules` |
| Alert evaluator (`alert_evaluator.go`) | `breached`, `firing`, `ev.mu` | `EvaluateMetricAlert` per heartbeat | `AlertEvaluator` |
| Maintenance windows, muting (`maintenance.go`, `maintenance_public.go`, `settings.go`, `sqlite.go`) | tables `maintenance_windows`, `user_settings` | create, close, delete, expire, the list with its LIMIT, the public notice with its trimmed names; the decision to page | `Maintenance` |
| Dispatch (`pkg/alerter`, `notifyAfterCreate`, the Telegram callback in `cmd/server/main.go`) | nothing but what is in flight, and the callback secret | the fan-out of a page, recovery notices, signed buttons | `Delivery` |
| Webhook audit (`pkg/alerter/webhook_recorder.go`, `webhook_log.go`, `webhook_retry.go`) | bounded buffer with a drop counter; table `webhook_deliveries` | `Record`, `Drain`, `Requeue`, `FlushWebhookDeliveries`, `RetryWebhookDelivery` | `WebhookAudit` |
| Uptime (`uptime.go`) | last heartbeat per node in memory; table `node_uptime_daily` | `RecordHeartbeat`, the four queries of the status page | `Uptime` |
| Network samples (`netmetrics.go`, `pkg/collector/net.go`) | rate cache in memory; table `network_samples` | `RecordNetworkSamples`, incidents over a threshold, prune, `NetworkSeries` | `NetMetrics` |
| Login rate limiter (`ratelimit.go`, `authMw`) | sliding window of hits per client | `Allow`, `Reset`, sweep | `RateLimiter` |
| Billing (`billing.go`, `cmd/server/billing_*.go`, `pkg/billing`) | tables `billing_invoices`, columns `users.plan`, `users.pro_until` | boot schema, create invoice, webhook, `MarkInvoicePaid` | `Billing` |
| Quotas (heartbeat handler of `cmd/server/main.go`, `billing.go`, `probes.go`) | `node_owners`, `probe_results` | `CanAddNode`, `BindNode`, `CanAddProbe`, `RecordProbeResults`, retention | `NodeQuota` |
| Auto-heal (`pkg/autoheal/cooldown.go`, `pkg/policy`, `cmd/agent/main.go`, `autoheal.go`, `pkg/collector/autoheal*.go`) | one breaker per target in the agent's memory | `EvaluateAutoHeal`, `Allow`, `ExecuteCommand`, `Record`, `RecordCrash` | `AutoHeal` |
| Accounts, tokens, invites, boot migrations (`sqlite.go`, `cmd/server/invites_handlers.go`) | `users`, `api_tokens`, `invites`, the schema itself | register, log in, redeem, migrate, rotate the master token | `Accounts` (binding a node: `NodeQuota`) |
| Agent's heal log (`flushLogs`, `RecordAutoHealLogs`) | slice of events not yet posted | append, post once | not modelled: one goroutine, nothing repeated |
| Probes and collectors (`pkg/probe`, `pkg/collector`) | none between calls | network and `/proc` reads | not modelled: pure I/O |
| Read paths (feed, RSS, badge, history, histogram, timeline, Prometheus, fleet) | none of their own | queries and rendering | not modelled: no state change |
| HTTP mux, wire types, notes, `web/`, `deploy/`, `scripts/` | none, or one row each | routing, encoding, assets | not modelled |

### How they interact

A heartbeat is one HTTP request, served by a goroutine of its own, so heartbeats
of one node may overlap (a slow request and its successor). The handler asks the
quota, binds the node, calls `Ingest`, and `Ingest` writes the node map, stores the labels,
credits uptime, evaluates the alert rules, stores the counters, raises the interface, memory and
container incidents and finally calls `ResolveStaleIncidents`. The janitor goroutine wakes once an hour: abandoned
sweep, watchdog, prune, expired windows, audit flush. Operators act at any moment through buttons
and forms. Nearly all writers of tables share `p.mu`, held per statement or per small
group of statements and never from a read to the write that depends on it; the labels, the uptime
rows and the plain reads do not take it.
Whether a page goes out is decided, and the page sent, with `p.mu` held; a recovery's notices are
goroutines nobody waits for. Deliveries land
in the audit buffer. The reply to a heartbeat carries restart commands, which the
agent's loop passes through its breakers.

### Which behaviours are hard

- **Interleaving.** Decisions made on a read of the open rows, on a copy of the
  node map, on a count or on one label after the other, and applied after the lock was released
  or by somebody who never took it.
- **Locks.** The evaluator releases `ev.mu` around `CreateIncident` in the middle
  of a loop; the uptime tracker books what it credits after its mutex; a page holds `p.mu` over
  requests to four services.
- **Time.** Cooldown, snooze, dwell, silence, abandonment, retention, windows of breakers, limiters
  and maintenance, each with its own boundary, each read from a clock taken at its own moment, often
  before the lock, so that decisions are taken in another order than their instants have.
- **Counters.** They wrap, start again and are read out of order; rates are differences of two readings.
- **Partial failure.** Statements without a transaction (`MarkInvoicePaid`,
  `InitBillingSchema`, `RegisterByTelegram`, the migrations of every boot), a flush that fails and
  is put back, `CreateIncident` failing in the middle of a batch, a channel that fails before others,
  reads whose failure is taken for an empty answer, a count of 0 or the administrator.
- **Restart.** The node map, the evaluator's maps, the uptime tracker, the rate cache, the audit buffer,
  the limiter and the breakers are memory; the tables are not.
- **Delivery.** The payment provider repeats until it sees a 200, which may be lost;
  a page may be acted on without its answer coming back, or long after its sender gave up on it; buttons outlive their incident and their secret.

### What makes each component correct

- Incidents: one open row per condition; one resolution notice per row; a reason a
  row is closed with is true; pages keep their distance; a memory incident closes
  once its cause is over.
- Rules: a heartbeat is evaluated against rules as they stood at one moment, and misses none that
  applied all the while, unless a read failed.
- Evaluator: the mutex protects what it is for; a rule fires only after an
  uninterrupted dwell; a lasting breach is raised.
- Maintenance: no page in a declared window, no quiet nobody asked for, and users are shown what is done.
- Dispatch: every configured channel is tried and recorded once, whatever becomes of the others; after the news of a recovery no channel
  hears of the incident again but from a request given up on before; a button does what its label says, to its own incident.
- Audit: no delivery is recorded twice, none is counted lost that is not, the buffer
  keeps its order, everything accepted is written in the end.
- Uptime: no more credit than time online, except for what the code knowingly gives away.
- Network: no incident over a counter that did not count that fast; no event between two readings lost.
- Limiter: no more calls in a window than the limit; a refusal is due to calls let through.
- Billing: paid time is exactly what was paid for, under repeats and crashes; an
  acknowledged payment has been applied.
- Quotas: how far past its limit a free user can get.
- Auto-heal: failing restarts are bounded per window and the circuit opens only on them.
- Accounts: a token that was handed out keeps authenticating its user across migrations and
  crashes; there is one master token; an invite is answered once; a boot that was interrupted is
  completed by the next.

The full list of hazards, each at its source line and with its properties, is
`hazards` in `PROJECT.json`.

## 2. Modules

| Module | Models | Kind |
|---|---|---|
| `IncidentLedger` | what the incidents table promises its readers | abstract specification |
| `Incidents` | everything that writes that table | detailed specification, refines `IncidentLedger` |
| `AlertRules` | rules, labels and the read of both | specification |
| `AlertEvaluator` | the rule evaluator with its mutex | specification |
| `Maintenance` | windows, muting, snooze: whether a page goes out | specification |
| `Delivery` | pages, notices and buttons on their way | specification |
| `WebhookAudit` | buffer, janitor and retries | specification |
| `Uptime`, `NetMetrics` | what heartbeats are counted by | specifications |
| `RateLimiter` | the limiter before login and registration | specification |
| `Billing` | invoices, plans, boot schema | specification |
| `NodeQuota` | the heartbeat handler's limits | specification |
| `AutoHeal` | agent loop and breakers | specification |
| `Accounts` | boot migrations, users, tokens, invites | specification |
| `Clock` | the bounded clock most of these share | helper |
| `MC*` | finite instances for TLC | model checking |
| `IncidentsProofs`, `AlertEvaluatorProofs`, `BillingProofs`, `NodeQuotaProofs`, `AccountsProofs` | theorems about the module of that name | proofs |
| `AlertingProofs` | theorems about `AlertRules`, `Maintenance` and `AutoHeal` | proofs |
| `DeliveryProofs` | theorems about `WebhookAudit` and `Delivery` | proofs |
| `TelemetryProofs` | induction over sums and lists; theorems about `Uptime`, `NetMetrics` and `RateLimiter` | proofs |

One action is one maximal stretch of code that no other goroutine can interrupt
visibly: what runs under one hold of `p.mu`, `ev.mu` or `r.mu`, one transaction, or
one unlocked read. Definitions keep the source's names (`CreateIncident`,
`markResolvedAndNotify`, `incidentResolutionReason`, `Requeue`, `MarkInvoicePaid`,
`CanAddNode`, ...). Definitions introduced by a `\* Bug:` comment are not used by any
specification: each is a plausible mistake in the definition that follows it, and a
property is kept only if TLC refutes it when the mistake replaces the original
(`mutants` in `PROJECT.json`).

### Incidents and IncidentLedger

`inc` is the table, one record per id, `st` the life of a row (free, open, resolved,
pruned), `beat` and `latest` the node map, `hdl` the handlers in flight, `jan` the
janitor, `sent` and `notices` what left for the outside. A handler goes
`IngestStart` (the node map is written) -> `IngestRaise` once per incident it raises, in the
code's order (rules and interfaces, memory, containers) -> `IngestReadOpen` (the SELECT of
`ResolveStaleIncidents`, no lock) -> `IngestResolve` once per row it decided to close
-> `IngestDone`. The janitor goes `JanitorStart` (the sweep's SELECT) -> `JanitorResolve`*
-> `WatchdogScan` (copy of the map, `time.Now()`) -> per node `WatchdogSilent` then
`WatchdogOpen`, or `WatchdogAlive` then `JanitorResolve`* and `WatchdogRestored` ->
`JanitorPrune`. `CreateIncident` contains its whole gate: lookup of the open row, insert with
page, or refresh of the detail with page if cooldown and snooze allow; and the
failure of any statement. A page is sent by the same action as the INSERT or UPDATE
that records it, so a crash in between is not distinguished. Severity and cooldown
follow from the title. `SetQuiet` covers the owner's severity settings and maintenance windows at
once: they act on a page, not on a row.

`IncidentLedger` knows ids, keys (node and title) and three operations: raise a key no
open entry has, close once with at most one notice, drop closed entries. The refinement
mapping takes the row's state and its node and title; everything else of `Incidents`
(time, snoozes, reasons, plans) is invisible to it. What `SetQuiet` summarises is `Maintenance`.

### AlertRules

`rules` is the table, `labels` is `node_tags`, `boxOwner` is `node_owners`, `mu` is `p.mu` as far as the read of the rules
holds it. A heartbeat goes `BindNode` (the node is now the token's user's) -> `UpsertNodeTags` -> `GetNodeOwner`, which may find
another heartbeat's owner, or fail and name the administrator -> `MetricsAlertRulesForNode`, the query of that owner's rules,
which takes `p.mu` -> `MatchRow` for each row in turn, with the labels of that moment -> `RulesRead`, which lets go of `p.mu` ->
`EvaluateMetricAlert`. The failing reads are `RulesUnread` (no rules at all), `RowMisread` (a row that does not scan, or
labels that are taken for none) and a `RulesRead` with rows left, the cursor's error that nobody looks at. Editing rules and binding
a node need `p.mu`; storing labels and reading the owner do not. A selector is what
its text stands for (all of some labels, or any of them). Two history variables per heartbeat: `could`, the
rows that applied for the owner it read at some moment since, and `always`, those that applied for whoever was the owner
at every moment since the labels were stored. A heartbeat whose owner was misread is evaluated by the administrator's rules:
`EvaluatedAsWritten` says so, and loses from `always` what only the real owner has.

### AlertEvaluator

`breached` and `firing` are the two maps, `locked` the mutex (a Go mutex does not know who
holds it), `hdl` the program counter of the loop over the rules: `NextRule` (reads the
clock, before the lock), `Enter`, `DecideBreach` / `DecideInside` (the critical section up
to its unlock), `Create` / `CreateFails` (outside the lock), `Relock`, `Store`. Unlocking an unlocked
mutex sets `fatal`, as it ends a Go process. Numbers are abstracted to "the sample is over
the rule's threshold". Three history variables: `inside`, the youngest stamp of a sample inside;
`late`, the rules whose breach began with an older stamp than that (the clock is read before
`ev.mu` is taken, so a heartbeat can be overtaken on the way); `upset`, whether `CreateIncident`
failed since the process started, somebody closed the incident, or the process was restarted.

### Maintenance

`window` is the table, `alert` the open incident of each node with its stamps, `notify` the owner's
setting. `Raise` is the gate of `CreateIncident` with what it reads on the way: the owner, the windows, the
settings, each of which may fail and is then ignored in its own way (a failed read of the owner is the administrator, of
the windows means none, of the settings means no page). The janitor deletes expired windows; operators create,
close and delete them; a window may be scheduled `Ahead`. A window lists names as they were typed: `TrimSpace` says which
are a node's but for the blanks around them, which the public notice takes off and the silencing does not. `ListMaintenanceWindows`
is the set of lists a user may be given: the `MaxListed` (in the code 200) that start last, however ties are broken. History: `declared` is what operators have asked for,
whatever became of the row, `quiet` the last instant somebody wanted quiet or a read failed, `paged` the last page.

### Delivery

`page` is the one `notifyAfterCreate` that holds `p.mu`, with the channels it has left; `notice` are the goroutines
of a recovery. A request may be acted on without its answer being heard, or given up on by its client after 5 s and acted
on later, at any moment and across restarts (`Fates`, `late`, `ActLate`; the messages of such requests are marked). A webhook is tried
`maxRetries + 1` times, a chat once, Telegram's answer is not looked at. `inbox` is what receivers acted
on, in order, and the buttons they can press are those in their messages. An HMAC is the pair of secret and what was signed; a restart may change the secret
and forgets whatever was being sent. Histories count, per incident: `begun` and `done` pages, those `cut` off by a
restart, and what each channel has `taken`.

### WebhookAudit

A delivery is its number. `records` and `dropped` are the recorder's fields, `jan.hand` and
`retry[q].hand` the rows somebody drained and has not written yet, `gone` the history of rows
that had no room, were lost by a retry, or were in a dead process's memory. `flushedTotal` is
left out: nothing reads it but a metric.

### Uptime, NetMetrics, RateLimiter

`Uptime`: a heartbeat is `BeatArrives` (the handler reads the clock), the credit under the tracker's mutex, and the
booking after it; `lastSeen` is memory, `up` the table. `ideal` is the history of what a tracker told of every
heartbeat at once would have credited; `rewound` and `quick` measure what the code gives away: the stretch an overtaken heartbeat sets
`lastSeen` back, and the rounding of a credit below a second up to one.

`NetMetrics`: `events` is what the counters have really counted; a reading is that since the last reset, modulo the kernel's
width, and a difference is taken modulo the server's. `cached` is the memory rates are computed from, `table` the rows. A rate remembers
for which counters it is `clean` (no reset, no wrap in between) and `true`.

`RateLimiter`: `hits` per client in the order they were appended, `Allow` in two steps (the clock, then the critical
section), `Reset` by a login that succeeded as a step of its own, the sweep inside `Allow`.

### Billing

`schema` is the set of boot statements that took effect: `InitBillingSchema` returns at its
first failing ALTER, and an ALTER fails when its column exists, which is why a boot that
died half way is never made good. `MarkInvoicePaid` is two transactions; `MarkInvoicePaidFails` is its
error paths, among them the one after `paid_at` was stamped. `hook` is the provider. `half` is a
history variable: invoices stamped without the plan following.

### NodeQuota

`hdl` is a heartbeat request between the queries of its checks and its writes: `Heartbeat` (token and plan), `CountNodes`,
`BindNode`, `CheckProbes` (the plan again), `CountProbes`, `CheckUrl` for each URL of the batch, `RecordProbeResults`. None of
the queries takes `p.mu`, so other handlers write between any two of them, and each may fail: a plan is then free, a count 0 and a
URL new. User 1 is exempt. A node may turn up with another
user's token and then changes hands with the URLs it has probed. History: `misread`, the node counts of a user that failed and
let a request pass where the limit would be looked at; `misled`, the handlers whose count of URLs failed or does not stand any
more, since another handler, the janitor or a change of hands gave their user a URL not looked up yet, or took one that was.

### AutoHeal

A breaker is its four fields (last attempt, failures, crashes, open-until), a window of
timestamps is a set because attempts on one target are at least a cooldown apart. `Decide` is
`Allow`, `Execute` the restart with `Record` and, when the live check sees the container down
again, `RecordCrash`. `failed` is a history variable: when restarts failed.

### Accounts

`boot` is where `NewPersistentStore` is, one step per statement that the next boot can find done or
not done; `Die` ends the process at any of them, in an error or a crash. `schema` holds tables and the
columns the migrations test for, `rows` is `api_tokens` (`owner` is the username of the old layout,
`user` the row id, 0 for NULL), `id` is `users`. Requests are atomic up to the statement
that fails: `Register`, `RegisterByTelegram` with each prefix of its INSERTs, `RedeemInvite` with a lost answer.
`Authenticate` takes no lock and is two steps. A login by an account the old database knows
only by name is why the order of the migration's steps matters. History: `handed` (tokens
answered to clients), `served` (master tokens of the boots that knew the admin), `granted`
(invites answered 200), `blind` (a boot went on with `adminID` 0). Tokens are numbers in
the order they are generated; that two random tokens differ is assumed, as is that token names
leave room for their random part.

## 3. Runs

| Run | Question | Bounds | Holds |
|---|---|---|---|
| `incidents_race` | Do two handlers, the janitor (sweep, watchdog, prune) and the buttons together keep the table a ledger, when any statement may fail? | 1 node, 2 titles, 2 rows, 2 instants, TTLs 0 | `UniqueOpen`, `ResolvedNoticeOnce`, `LedgerSpec` |
| `incidents_clock` | Are closing reasons true and pages spaced over time, with restarts, snoozes and muting? | 1 node, 3 titles, 1 row, 4 instants, cooldowns 1 and 2, a snooze of 2 | `AbandonedWasOld`, `RestoredByHeartbeat`, `ClosedStaysClosed`, `PagesSpaced` |
| `alert_life` | Does the evaluator's mutex do its work, is the dwell uninterrupted and a lasting breach raised, when heartbeats overlap? Does a memory incident end once its cause has? Are deliveries recorded once, in order, and written in the end? | 2 handlers, 1 rule that dwells 1, 3 instants, 1 row; 2 handlers, 3 rows, 1 instant; a buffer of 2, 6 deliveries, 2 retries; failures and restarts (none for the second), fair | `MutexHeld`, `DwellUninterrupted`, `BreachRaises`; `MemoryIncidentCloses`; `AuditTypeOK`, `OnceInOrder`, `DroppedSound`, `Persisted` |
| `accounts_billing` | Do tokens, the master token and invites survive boots that die anywhere, and does the server come up? Is paid time exact and every payment applied? | a fresh and an old database, 1 member, 1 Telegram user, 1 invite, 2 chats, 2 logins, 2 deaths; 2 users, 2 invoices, 4 instants, crashes anywhere; fair | `TokensHonoured`, `MasterToken`, `InviteOnce`, `ComesUp`; `PaidTimeExact`, `PaidUpgrades` |
| `heartbeats` | How far past the free limits, and by which rules is a heartbeat judged, when reads are overtaken or fail? | the exempt user and 1 limited, 2 nodes, 2 URLs, 2 handlers, limits of 1, 1 failed node count, any number of failed others; 2 rules, 4 bodies, 2 heartbeats, 1 node, 2 labels, 2 users | `NodeOvershoot`, `ProbeBudget`; `ListedRulesApply`, `EvaluatedAsWritten` |
| `alerting` | Does a page go out, are operators shown why not, does it reach everyone, in order, do its buttons do what they say, and are restarts bounded? | 1 node with 2 spellings, 2 users, 1 window and what pages, or 2 windows and lists of 1, 3 instants; 2 incidents, 3 settings, 2 secrets, 2 pages, 1 retry, 1 late request, 1 restart in a page; 2 targets, 5 instants | `SilenceVisible`, `NoPageInWindow`, `QuietOnlyAsAsked`; `EveryChannelTried`, `RecoveryLast`, `PressDoesWhatItSays`; `RateBounded`, `OpensOnFailures` |
| `telemetry` | Are uptime, rates and hits counted right, in whatever order requests are decided? | 1 node, 2 heartbeats, days of 2 ticks; 1 interface, 3 heartbeats with readings, a wrap, a reset; 2 clients, 2 calls, a limit of 1; 5 instants, 4 for heartbeats, 3 for readings | `CreditBounded`; `AlarmsRight`, `EveryEventRated`; `WindowBounded`, `DenialJustified`; `DrilldownAgrees`, `SeriesNotInflated` |

Five more runs end in a counterexample: `finding_evaluator_fatal`, `finding_half_paid`, `finding_late_renewal`,
`finding_full_fleet_refused`, `finding_node_rule_everywhere` (section 5).

`MCAlertLife`, `MCAccountsBilling`, `MCHeartbeats`, `MCAlerting` and `MCTelemetry` each hold parts that share nothing
but the clock. A behaviour picks one part and takes its steps only (`part`), so the states of a run
are the sum and not the product of its parts', and each part is checked as if it were alone.
`ListedRulesApply`, `SilenceVisible`,
`DrilldownAgrees` and `SeriesNotInflated` are what the pages of the status site promise. Names that nothing tells apart are interchangeable (`SYMMETRY`): requests and what they carry (labels, URLs) in `heartbeats`; heartbeats,
calls and clients in `telemetry`.

### Why the bounds are enough

- One node is enough for `Incidents`: rows of different nodes share nothing but ids
  and the lock. Two rows let a condition close and come back, and let two conditions be open at
  once; with one row (`incidents_clock`) a second condition meets a full table, which is
  the failing INSERT. Three rows in `alert_life` let the incident come back twice
  while heartbeats are late.
- A TTL of 0 in `incidents_race` makes the next instant too late: the sweep and the watchdog then
  have rows to close and to open while two handlers run. In `incidents_clock` the TTLs are 1, so
  that "exactly the TTL old" and "older" are different instants, and four instants hold open, too
  old, closed and pruned.
- Two handlers: every race in the code is between two requests, or a request and the janitor.
- One rule in `alert_life`: rules share only the mutex, which the two handlers contend for. Its
  instants order breach, sample inside and dwell; the theorems are for any number of rules. One row is what a rule fires
  once: `BreachRaises` speaks of behaviours in which nobody closes it and no statement fails, and what a second
  firing may do is proved. A buffer of
  two and six deliveries overflow the buffer from `Record` and from `Requeue`, with
  room for none, one or all of the batch put back.
- In `accounts_billing`, two deaths interrupt a migration and its repetition; three tokens are the master
  token and one for each of two overlapping logins. Boots generate tokens past the bound, so that it never
  keeps the server down. Two invoices give a user a renewal, or a rival; a window of 2 in 4 instants makes a
  renewal early, on time or late.
- In `heartbeats`: two rules, one of which may be edited or deleted while the other's labels are matched, and two
  heartbeats that change the labels and the owner under each other; only the first rule, when it is not the administrator's,
  may be disabled, which is enough for a rule disabled between read and evaluation. One failed node count (`MaxMisreads`) is the step past
  the bound of the others; counts and lookups of URLs may fail any number of times, since a handler forgets them when its
  request ends. The exempt user stays without a plan, which he has no use for.
- In `alerting`: one window that is created, expires and is declared
  again, before, while and after a condition is raised: a cooldown of 2 in 3 instants, the window named as the node is; or two windows, one more than a list
  holds (`MaxListed` is 1), so that the list is cut and the one that silences may be the one cut off. Five instants hold a
  full window of failed restarts, the open circuit and the attempts after it, of one target that opens at its second failure and has a cooldown
  of 1, and one that opens at the first and has 2; the strategies keep the order the
  code's have: cooldown < open-for <= window.
  Three settings for a page: Telegram alone (only it makes the secret matter), two chats, and a webhook followed by an URL that is no chat's; two pages, two incidents and a changed
  secret are what a late button or notice needs. One late request (`MaxLate`) overtakes everything that comes after it.
- In `telemetry`: two ticks to a second and to a day, so that credits below a second and across midnight
  occur; an online window of 3 leaves gaps of 4 uncredited. Counters of the kernel wrap at 2, the
  server's differences at 4, so that a reset, a wrap and a wrapped difference are three things. A limit of
  1 and two instants of window and of sweep suffice for a call that is decided late on either side of the edge.
  Four instants hold two credits and the gap between them; three hold a reading, one overtaken and one after both.
  What is beyond these bounds is proved.

Where the counters end (`MaxIncidents`, `MaxTime`, `MaxMade`, `MaxRows`, `MaxRules`, `MaxPages`, `MaxEvents`, `MaxLate`,
`MaxMisreads`), a table that is full behaves
as one whose INSERT fails, and the clock stands still. `BreachRaises` leaves out a breach that
starts too late to dwell before the clock ends. Deadlock is checked in every run.

### Fairness

- Handlers and the janitor are goroutines: each that can run does (`WF` on its steps). The
  evaluator's handlers need `SF`: the mutex is contended, and Go's mutex hands over to a waiter after a
  millisecond of starvation.
- Agents keep shipping heartbeats (`WF_vars(Heartbeat(n))`): the agent's loop posts on a ticker, for ever.
- The janitor's flush succeeds at last if it is attempted for ever (`SF_vars(JanitorFlush)`).
  Nothing is assumed about the flush of a retry, and what a retry loses is in `gone`.
- The server boots successfully at last, and a webhook the provider repeats for ever is answered
  once. No fairness is assumed for crashes, payments, operators or restarts.
- systemd starts the server again (`Restart=always` in `deploy/install.sh`) and a boot goes on unless it dies
  (`WF_vars(NewPersistentStore)`); the deaths in a run are finitely many.

## 4. What is proved

For every number of nodes, handlers, titles, rows, users, rules, tokens, invites, invoices, windows, targets,
channels' answers, deliveries, clients, interfaces, instants and deaths of the process the constants allow.

| Theorem | States | Argument |
|---|---|---|
| `IncidentsProofs!TypeCorrect` | `Spec => []TypeOK` | `TypeOK` is inductive once it says that a handler that is not idle has a node and a heartbeat, and that a janitor about to open a row has a node: these two conjuncts are what `CreateIncident`'s new row and the resolution reasons need. |
| `IncidentsProofs!OneOpenRow` | `Spec => []UniqueOpen` | Only `InsertIncident` makes a row open, and it looks up the key in the same step; every other step leaves node and title of an open row alone. |
| `IncidentsProofs!NoticeAtMostOnce` | `Spec => []ResolvedNoticeOnce` | A notice is sent in the step that takes a row from open to resolved; an open row has had none, and nothing reopens a row. |
| `IncidentsProofs!RefinesLedger` | `Spec => LedgerSpec` | Initial states map to initial states; each action maps to `Raise`, a close, `Drop` or a stutter. Needs `TypeOK` and nothing else. |
| `IncidentsProofs!ClosedRowsStay` | `Spec => ClosedStaysClosed` | `RowStep` lists what one step may do to one row (be inserted, refreshed, paged again, pressed, closed, pruned); `RowSteps` shows that every action does one of these. The property and the next two theorems follow from that list instead of from each action. |
| `IncidentsProofs!PagesKeepDistance` | `Spec => PagesSpaced` | The invariant `Stamped`: the stamp of an open row is no older than the last page sent for it. So the distance the gate measures from the stamp is a distance from the page. |
| `IncidentsProofs!AbandonedCorrect` | `Spec => []AbandonedWasOld` | The invariant `PlansOld`: whoever plans to give a row up found it too old, a row keeps its start, and time only adds to its age; so the plan is right however late it is carried out. |
| `IncidentsProofs!RestoredCorrect` | `Spec => []RestoredByHeartbeat` | The invariant `Watched`, about every place the watchdog's knowledge may be: its copy of the node map is older than its clock (`Scanned`), an open Node Silent row quotes a heartbeat no newer than the map's (`OpenRow`), what it plans to close, and what is closed, was followed by a newer heartbeat (`ToReturn`, `Returned`). A restart empties the map and ends the pass at once. |
| `AlertingProofs!RulesTyped` | `RulesSpec => []RulesTypeOK` | By action. |
| `AlertingProofs!ReadsCorrect` | `RulesSpec => []EvaluatedAsWritten` | The invariant `Reads`: what a heartbeat has matched so far applied, for the owner it read, at some moment since; and what applied all the while since the labels were stored, whoever was the owner, is matched or among the rows still to match, or lost to one of its own failed reads, or to a misread owner. The second half needs `p.mu`: table and owners stand still between the query and the last row, and a node rebound before the query takes from what applied throughout what only its old owner had. |
| `AlertingProofs!ListedCorrect` | `RulesSpec => []ListedRulesApply` | Compares the conditions of the two queries on one table and one owner, the node's as the table has it. |
| `AlertEvaluatorProofs!TypeCorrect` | `Spec => []TypeOK` | By action. |
| `AlertEvaluatorProofs!MutexCorrect` | `Spec => []MutexHeld` | `MutexHeld` speaks of the time until the first error; with `TypeOK` it is inductive: `Lock` requires the mutex free, and whoever unlocks is in a critical section. `finding_evaluator_fatal` is what the error does. |
| `AlertEvaluatorProofs!DwellCorrect` | `Spec => DwellUninterrupted` | The invariant `BreachAfterInside`: a breach that is not late began no earlier than the youngest sample inside. Then the elapsed time `Due` measures contains no sample inside. |
| `AlertingProofs!MaintTyped` | `MaintSpec => []MaintTypeOK` | By action. No instant of the past lies ahead of the clock, which the next two need. |
| `AlertingProofs!WindowsKept` | `MaintSpec => []NoPageInWindow` | The invariant `Kept`: a row is what the operator declared, and a row that is gone has ended. So a declared window that lasts is in the table (`SilencedAsDeclared`) and `Raise` sees it. |
| `AlertingProofs!QuietExplained` | `MaintSpec => []QuietOnlyAsAsked` | The invariant `Explained`: the stamp of an open incident is that of a page, or of a moment at which somebody wanted quiet or a read failed. |
| `AlertingProofs!SilenceShown` | `MaintSpec => []SilenceVisible` | Compares how three queries read the two ends of a window and the names it lists: the owner's list as far as `MaxListed` reaches, the public notice after `TrimSpace`, the silencing before it. What the property leaves out is what the code leaves open: a window that others, started later, crowd out of the list, and a name typed with blanks, which is announced and silences nothing. |
| `BillingProofs!BillingTyped` | `BillingSpec => []BillingTypeOK` | By action, with the order issued, saved, paid. |
| `BillingProofs!AckedCorrect` | `BillingSpec => []AckedServed` | `Books` (a stamped invoice has its plan or is in `half`) and `Told` (an acknowledged one is stamped). |
| `BillingProofs!PaidTimeCorrect` | `BillingSpec => []PaidTimeExact` | The invariant `Sums`: `until` is the first payment that reached the plan plus one window for each that did. A later one adds an element to a finite set and cannot be the first. |
| `NodeQuotaProofs!TypeCorrect` | `Spec => []TypeOK` | By action. |
| `NodeQuotaProofs!OvershootBounded` | `Spec => []NodeOvershoot` | The sum of a user's nodes and of the requests about to bind one is the quantity that is inductive: a check that passes adds one request to at most `FreeNodeLimit - 1` nodes and at most all other handlers, unless its count failed, which adds one to `misread`; a bind turns one request into at most one node. |
| `AccountsProofs!TypeCorrect` | `Spec => []TypeOK` | By action. That rows of the old schema name an owner is what types `RemapOwner`; ids stay in range because `NextId` counts the users there are. |
| `AccountsProofs!InviteCorrect` | `Spec => []InviteOnce` | The chat that was answered is in the invite's row, so the guard of the conditional UPDATE refuses every other one. |
| `AccountsProofs!MasterCorrect` | `Spec => []MasterToken` | The invariant `MasterInv`: the row with the old literal is the admin's, and becomes the only row labelled `master` before a boot that knows the admin serves; once one has served, its token is in the only such row of the admin. The migrations' order is in it (`Phases`): `name` exists and the rows are relabelled before `ensureMasterToken` looks. |
| `AccountsProofs!TokensCorrect` | `Spec => []TokensHonoured` | The invariant `HandedInv`, with `MasterInv`: every token handed out has one row, which names its user by id or, until `RemapOwner` has run, by the owner (`Belongs`); `DropOwner` runs after. The literal is handed out only by a boot that missed the admin. `GetUserByToken` takes the master token for user 1, and the admin is user 1 as long as no boot missed him (`AdminFirst`). |
| `NodeQuotaProofs!BudgetKept` | `Spec => ProbeBudget` | The invariant of a handler that goes through its batch and is not `misled`: its user's URLs, those it looked up as new and those left to look up fit what it counted. Any step of another handler or of the janitor that could break this makes it `misled` in that step (`Overtaken`), and so does a failed count; a failed lookup only makes the batch dearer. |
| `AlertingProofs!HealTyped` | `HealSpec => []HealTypeOK` | Part of `HealInv`. |
| `AlertingProofs!RestartsBounded` | `HealSpec => []RateBounded` | The invariant `HealInv`: what a breaker remembers did happen (`Remembers`), a failure it has forgotten is older than `OpenFor` or will be when the circuit closes (`Accounted`), it holds fewer than `BurstLimit` while closed (`BelowLimit`), and the loop restarts only with the circuit closed and every failure behind it (`Executing`). So all failures of one `OpenFor` are in the breaker when it trips. |
| `AlertingProofs!OpensRightly` | `HealSpec => OpensOnFailures` | From `HealInv`, by the action that opens the circuit. |
| `DeliveryProofs!AuditTyped` | `AuditSpec => []AuditTypeOK` | Part of `AuditInv`. |
| `DeliveryProofs!OnceInOrderAlways` | `AuditSpec => []OnceInOrder` | The invariant `AuditInv`: the places a delivery can be (buffer, the janitor's hand, each retry's hand, table) have nothing in common (`Apart`), and the hands are in order and older than the buffer (`InOrder`). Lemmas say what `Requeue`'s concatenation and cut do to order and to the set of rows. |
| `DeliveryProofs!DroppedNeverOverstated` | `AuditSpec => []DroppedSound` | Part of `AuditInv`: a step that raises the counter takes as many rows out of every place, because the buffer is cut where `Apart` and `InOrder` say which rows those are. |
| `DeliveryProofs!DelivTypes` | `DelivSpec => []DelivTypeOK` | Part of `DelivInv`. |
| `DeliveryProofs!RecoveryIsLast` | `DelivSpec => []RecoveryLast` | The inductive invariant is not the property: a page under way is of an open incident, since `p.mu` is held, and a notice of one that has ended (`Underway`); whoever heard of an end, it has ended, and whatever is in an inbox after the end but repeats of it was a late request (`Mail`). |
| `DeliveryProofs!ButtonsDoWhatTheySay` | `DelivSpec => PressDoesWhatItSays` | From `Heard`: the buttons of a message are of its own incident, whatever happened since; then by action. |
| `DeliveryProofs!EveryoneTried` | `DelivSpec => []EveryChannelTried` | The invariant `FanInv`: per incident and channel, the rows are the pages done plus one if the page under way is past that channel, those marked successful as many as the channel took (`Audits`); a page has each channel left at most once, and only those configured (`TurnsLeft`); and the requests made and those that may follow are within the budget (`InBudget`). Pages cut off by a restart count for their own incident only. |
| `TelemetryProofs!UptimeTypes` | `UptimeSpec => []UptimeTypeOK` | Part of `UptimeInv`. |
| `TelemetryProofs!CreditEarned` | `UptimeSpec => []CreditBounded` | The invariant `UptimeInv`. Between any two instants a credit can still be reckoned from or to (`Marks`: heartbeats that arrived, the tracker's instant, the newest) the ideal grew by no more than the time between them, and by all of it within a window (`MarksRight`). What is booked and what is granted but not booked, in all (`TotalPaid`) and of each day (`DayPaid`), is no more than the ideal at every instant the next credit can be reckoned from (`Points`) plus what was given away. An overtaken heartbeat moves that instant back by exactly what `rewound` gains. |
| `TelemetryProofs!DrilldownsCorrect` | `UptimeSpec => []DrilldownAgrees` | The invariant `Booked`: a node's rows add up to what it was credited, and no row is of a day ahead. So buckets without a row, and nodes without one, add nothing (`WindowSums`), and a table adds up by rows and by columns (`SumOfSums`). |
| `TelemetryProofs!NetTypes` | `NetSpec => []NetTypeOK` | Part of `NetInv`. |
| `TelemetryProofs!AlarmsTrue` | `NetSpec => []AlarmsRight` | The invariant `NetInv`: of two readings the server still works with, the one with the later instant has counted at least as much (`Ordered`), so a rate, which is only taken forward in time, is of a growth; modulo twice it is the true one unless the counter was reset or wrapped. |
| `TelemetryProofs!NothingUnrated` | `NetSpec => []EveryEventRated` | With `Ordered`: the growth from the cached reading to the next is added to what the rates cover, and a reading of an earlier instant closes a stretch that was covered before. |
| `TelemetryProofs!SeriesCorrect` | `NetSpec => []SeriesNotInflated` | The invariant `Rising`: until an interface resets or wraps, of two of its rows or readings under way the later shows no less, in whatever order they are recorded. So the buckets show stretches one above the other (`StretchesFit`). |
| `TelemetryProofs!LimiterTypes` | `LimiterSpec => []LimiterTypeOK` | Part of `LimInv`. |
| `TelemetryProofs!WindowsBounded` | `LimiterSpec => []WindowBounded` | The invariant `LimInv`: a client's hits are calls let through and, later than a window before the youngest decision, all of them (`HitsRight`); the sweep and the loop of `Allow` take only what is older. A call that is not overtaken counts what its window holds; one that is adds one to `late` (`WindowRight`). |
| `TelemetryProofs!DenialsJustified` | `LimiterSpec => DenialJustified` | From `HitsRight`: every hit that `Allow` kept was let through inside the window. |

Proofs use the named assumptions of the modules only; TLC evaluates them on every run. Most say that a constant
is a number, that names differ or that the clock's instants are finitely many. Those that say more: `LimiterAssumption`
has a call wait for the mutex (`MaxLag`) no longer than two of the code's windows, two minutes, by which the sweep
(`SweepEv` is 3) spares what still counts; `StrategyAssumption` orders a strategy's constants as all strategies of the code do; `UptimeAssumption` has finitely many heartbeats in flight, which
its sums need; `DeliveryAssumption` has no two incidents of one id.

Cardinality facts come from `FiniteSetTheorems`. The folds of the community modules (`SumFunctionOnSet`) and the loop of
`Allow` (`After`) are recursive functions, and what they compute is proved by induction in first-order form: the least
number, or the smallest set, for which a claim fails is found with `WFMin`, and cannot be (`LeastExists`,
`SmallestSet`, `LoopExists` in `TelemetryProofs`). So a sum is known to grow with its terms, to be monotone in its set, to split at an element, to add up and to be
taken in either order of a table, which is all that the proofs of credits, windows and pages need.

Every type invariant is proved, for every value of the constants; TLC runs only `AuditTypeOK` besides. `AckedServed` is
proved and not run.

Only model-checked: every liveness property (`MemoryIncidentCloses`, `BreachRaises`,
`Persisted`, `PaidUpgrades`, `ComesUp`), because the prover does not reason about fairness and
ENABLED. Every other property of a passing run is a theorem.

## 5. Where code and documentation disagree

Five have a run that ends in the counterexample:

1. `finding_evaluator_fatal`: `alert_evaluator.go:131` unlocks `ev.mu` on the error path of
   `CreateIncident`, before which it was already unlocked; Go ends the process.
2. `finding_half_paid`: the two UPDATEs of `MarkInvoicePaid` (`billing.go:84`) are not one
   transaction; after a failure between them the provider's repeat is a no-op that answers 200.
3. `finding_full_fleet_refused`: `main.go:1549` asks `CanAddNode` for nodes the user already
   has, so a free user at exactly the limit has every heartbeat refused.
4. `finding_node_rule_everywhere`: the query of `alert_rules.go:286` takes every enabled rule of the node's owner,
   so a rule `protocol/alert_rules.go:21` calls scoped to one node is evaluated on all nodes of its owner.
5. `finding_late_renewal`: a renewal after the plan lapsed is counted from the old end (`billing.go:86`), where
   `billing.go:54` promises the window from now and `billing_idempotency_test.go:122` calls
   `max(existing_pro_until, now) + 30d` the correct sum. `PaidTimeExact` states what the code adds up; this run, what it is said to.

Others were met while modelling. Where a module covers the code, they are part of what it does; no run
states the sentence they contradict:

- Incidents: the sweep closes a Node Silent row the watchdog opens again in the same pass
  (`silent_watchdog.go:72`); the sweep closes rows of any title though its comment speaks of containers
  (`resolve.go:80`, `:69`); manual resolve overwrites the reason of a row that closed itself
  (`sqlite.go:1510`, `:1503`); a heartbeat overtaken by a newer one still closes rows
  (`resolve.go:31`, `:25`); a second, shorter snooze shortens the first (`snooze.go:52`, `:22`); a flapping
  condition pages for every new row, whatever the cooldown (`sqlite.go:1345`, `:1314`); a closed row is said to stay
  in the history, and the janitor deletes it.
- Rules: the clauses of the query that are to let rules of everybody's or the administrator's through are never true:
  no row has user 0, and `? = 1` compares a bound text with a number (`alert_rules.go:286`); the selector `,` is valid and matches every node; "empty input clears"
  (`tags.go:9`) and `Ingest` does not call it on empty input; the search by tag says exact match and
  takes LIKE's wildcards. A rule that is disabled, enabled and read again keeps the start of its old breach.
- Evaluator: the firing map keeps the id of an incident somebody closed, and the rule stays quiet
  (`alert_evaluator.go:115`, `:35`); the incident of a rule that cleared stays open until it is
  swept (`resolve.go:107`, `alert_evaluator.go:145`).
- Maintenance: the comment of `ListMaintenanceWindows` on `closedOnly` (`maintenance.go:61`) says the
  opposite of the query, and `main.go:1116` passes `?active=true` on as `closedOnly`, which so adds the closed ones.
- Dispatch: chat deliveries are recorded for user 0 though `main.go:62` and `sqlite.go:1469` promise one
  feed; an attempt that got no answer is recorded with status 200 against `protocol/webhook.go:28`;
  a webhook's attempts are recorded as `maxRetries + 1` whichever of them succeeded; `NotifyChatResolved` (`sqlite.go:1485`) is never called;
  `chat_dispatcher.go:18` speaks of retries that `:129` rules out.
- Audit: rows `Requeue` cuts off are counted as zero (`webhook_recorder.go:110`, `:94`); rows are counted
  as flushed when drained (`:89`, `:32`); a retry that fails to flush loses other deliveries' rows
  (`webhook_retry.go:72`); a retry may answer with an older row (`:80`, `:78`).
- Network: the comment on `diffUint64` (`netmetrics.go:402`) speaks of 32-bit counters and of no off-by-one;
  the difference wraps at 2^64 and is one short, so the rollover of such a counter, or a reset, raises an alarm; the series shows the transmit drops' minimum as that of the receive drops.
- Billing: a half-made schema is never completed (`billing.go:30`, `:27`); pro never
  lapses (`billing.go:206`, `billing_handlers.go:60`).
- Quotas: overlapping heartbeats pass the node limit (`main.go:1549`, `:1517`); a batch over the
  probe budget is dropped with the URLs already known (`main.go:1578`, `billing.go:124`).
- Auto-heal: critical targets are restarted without acknowledgement
  (`cmd/agent/main.go:264`, `policy.go:56`); a crash loop opens the circuit no sooner than
  plain failures (`cmd/agent/main.go:292`, `:286`).
- Accounts: an account whose Telegram link was not written can never log in again (`sqlite.go:886`, `:846`);
  tokens of older Telegram logins outlive the new one (`:867`, `:859`); a boot that fails to find the
  admin goes on, and keeps a second master row or the old literal (`:609`, `:301`); redeeming an expired invite
  consumes it (`:1090`, `:1067`); the master token is shown once, after its INSERT (`:335`); the busy timeout is set on one connection of the pool (`:373`).

## 6. Not modelled, and why

- `AutoCloseIncidentsInMaintenance`: only a test calls it.
- Retention of `webhook_deliveries` and deletion of one row: statements on rows nobody
  changes any more.
- The agent's log upload: `flushLogs` posts once, from the goroutine that fills the list, and repeats nothing.
- A crash between the INSERT of an incident and its page is one step in `Incidents`; `Delivery` restarts in the
  middle of a page.
- `docker inspect` output, read through a 4096-byte limit: the live check's "could not look" outcome,
  which `AutoHeal` treats as the code does, as success.
- The ALTERs of `NewPersistentStore` whose errors are dropped: a column they fail to add is missing until
  the next boot, and nothing but errors follows from it.
- Bytes and packets of a network sample, which raise nothing and are stored like the counters modelled;
  `NetworkSummary` and `LatestNetworkRates`, read-only.
- `MarkAlertRuleFired` and `MarkAlertRuleCleared`: stamps nothing but a list shows.
- Changes of a user's channels between two pages: a page holds `p.mu`, and the next one is a behaviour with
  other settings.
- Signing, rendering, encoding: a delivery, a page or a press is an event; an HMAC is the pair of secret and what
  was signed.
- Probes, collectors, queries and rendering of the read paths, the HTTP mux and the wire types: no state between calls.

## 7. Plan

Done: all modules of section 2 and the theorems of section 4. Left, in this order:

1. `Maintenance` composed with `Incidents` in place of `SetQuiet`, and `AlertRules` with `AlertEvaluator`, so that
   a rule edited while it dwells is one behaviour.
2. An abstract specification of `Delivery`: what a receiver may conclude from its inbox.
