# drnkexec, verified

drnkexec is a small monitoring daemon: it runs NRPE and ping checks against
hosts on a schedule, shows their state on a board, announces outages and
recoveries, and lets an operator silence hosts and checks with downtimes
through an HTTP API and a web page.  This directory holds TLA+ models of it,
what TLC checks about them on small instances, and what TLAPS proves about them
for all instances.  Paths below are relative to `server/backend/src/`
unless they say `server/frontend/`.

## 1. Inventory

| component | code | state | operations | called by |
|---|---|---|---|---|
| scheduler | `internal/scheduler/scheduler.go` | per assignment: consecutive counters, `alertActive`, a timer, a channel of capacity one; shared: `triggers` under `triggerMu` | `Run`, `runAssignment`, `executeCheck`, `TriggerCheck` | `main`, `handleCheckNow` |
| alert manager | `internal/alerts/manager.go` | `lastAlert`, `active` under `mu` | `Alert`, `Resolve`, `dispatch` | scheduler goroutines |
| notifiers | `internal/alerts/{telegram,logger_notifier,notifier}.go` | none | `Send` | alert manager, outside its lock |
| downtime manager | `internal/downtime/manager.go` | `entries`, `hostEntries` under `mu` | `Add`, `Remove`, `RemoveByName`, `Active`, `List` (and `AddHost`, `ActiveHost`, used by tests or not at all) | scheduler, HTTP handlers |
| status board | `internal/state/manager.go` | `hostChecks`, `hostOrder` under `mu` | `Update`; queries and summaries | scheduler, HTTP handlers |
| HTTP server | `internal/httpserver/server.go` | none of its own | handlers for login, hosts, checks, downtimes, check now | browsers |
| sessions | `internal/httpserver/session/manager.go` | token to expiry under `mu` | `Create`, `Validate`, `Delete` | HTTP server |
| configuration | `internal/config/loader.go`, `internal/model/config.go` | none (a function from a file to a `Config`) | `Load` | `main` |
| NRPE client | `internal/nrpeclient`, `internal/nrpe/protocol`, `internal/nrpe/tlsdial` | a TLS connection per execution | `Execute`, `BuildRequest`, `ParseResponse`, `Dial` | scheduler |
| pinger | `internal/pinger/pinger.go` | none | `Ping` | scheduler |
| main | `cmd/drnkexec/main.go` | none | wiring, signals | operating system |
| web page | `server/frontend/src/src` | the pages shown, filters, a count of requests in flight | loading, paging, acting | operator |

**How they interact.**  `main` builds everything, starts the HTTP server in a
goroutine of its own and calls `Scheduler.Run`, which starts one goroutine per
(host, check) assignment and returns after the shutdown signal, when all of them
have.  Such a goroutine waits for its timer, its trigger channel or the shutdown.
When woken it asks the downtime manager whether the check is silenced, executes
the check, counts the result, writes the status board, asks the downtime manager
*again*, and calls the alert manager, which decides under its lock and sends
outside it, synchronously.  HTTP handlers run concurrently with all this:
`check/now` puts a token into a goroutine's channel, the downtime handlers
change the book, the list handlers read board and book one after the other.

**What is hard.**

* Nothing spans two components atomically: between the downtime lookup, the
  execution, the board update and the notification everything else may happen.
* The same facts are kept twice: an open incident in `alertActive` and in
  `alerts.Manager.active`; a downtime name in two maps of buckets.
* Keys are strings glued together (`host::check` in the downtime and the alert
  manager, host, NUL, check in the scheduler), and nothing rejects a
  configuration that lists a hostname twice, whose assignments then share channel
  registration, board row and alert key.
* Expired downtimes leave the book only when a lookup or listing sweeps past.
* A shutdown meets runs in progress, channels with tokens and handlers that
  hold a channel they looked up before.
* Time: repeat interval of alerts, end of downtimes, sessions, timeouts; and one
  goroutine checks, waits and sends, so that what is slow delays what comes after.
* The configuration is completed in an order: defaults, injected checks, defaults
  again, then maps that are written while they are read.

**What makes each component correct.**  *Scheduler*: an incident can always be
closed; board, counters and alert manager tell the same story; a downtime in
force keeps a check quiet; thresholds hold; a trigger leads to a run; shutdown
ends.  *Alert manager*: no two alerts of a key closer than the repeat interval
whatever goroutines share it; recoveries only for open incidents.  *Downtime
manager*: answers as one flat set of entries would; names identify entries.
*HTTP server*: a request that fails leaves nothing behind; a list shows what
was there.  *Sessions*: a token is accepted until it expires or is logged out
and never after.  *Board queries*: pages that
make up a list.  *Configuration*: every host runs what the file asks for, with
settings the goroutines can run on.  *NRPE*: what is built can be parsed, what does not
check out is refused.  *Web page*: the page shown is that of the last request.

## 2. Plan

Most important first; all of it is done.

| | modules | of what | composed with | state |
|---|---|---|---|---|
| 1 | `Scheduler` | goroutines, triggers, incidents, board, shutdown | uses `IncidentTable`; the book's answer is a variable of its own | modelled, checked, proved |
| 2 | `DowntimeEntry`, `DowntimeBook`, `Downtime`, `Keys` | the downtime manager, its keys | `Downtime` implements `DowntimeBook` | modelled, checked, proved |
| 3 | `DowntimeApi` | the downtime handlers | over `DowntimeBook`, with the scheduler's lookups | modelled, checked, proved |
| 4 | `IncidentTable`, `Alerts` | the alert manager with its clock | `Alerts` implements `IncidentTable`, which `Scheduler` uses | modelled, checked, proved |
| 5 | `Sessions` | signing in, cookies, expiry, restart | server and browsers | modelled, checked, proved |
| 6 | `Listings` | board queries, list handlers, paging | board, book and a paging client | modelled, checked, proved |
| 7 | `Execution` | NRPE client, TLS connection, pinger: pieces, limits, cancellation, clean-up | the outcome `Scheduler` chooses, and its assumption that an execution ends | modelled, checked, safety proved |
| 8 | `Config` | loading a file, and the notifiers, rows and channels made of it | establishes what `Scheduler`, `Alerts`, `Monitor` and `Sessions` assume | modelled, checked, proved |
| 9 | `Monitor` | goroutines with real intervals, executions and notifiers that take time: how late an outage is told | `Alerts`, over one clock; `KeysOwned` of `Config`, `InTime` of `Execution` | modelled, checked, proved |

Abstract specifications: `DowntimeBook` (one flat set of entries) and
`IncidentTable` (which incidents are open, which keys are muted).  They are also
the joints of the composition: `DowntimeApi` runs over the book that `Downtime`
is shown to implement, and `Scheduler` over the table that `Alerts` is shown to
implement (`UsesTable` on one side, `ImplementsTable` on the other).  `Monitor`
calls the actions of `Alerts` themselves, and is shown to be one of its behaviours.

Every safety invariant, action property and refinement that a run checks is
stated by a theorem.  What is left to the runs alone is in section 7.

## 3. Modules and code

**`Scheduler`** (`scheduler.go`, and what it calls).  `pc[a]` is the place of the
goroutine of assignment `a`, cut wherever it takes a lock, blocks or calls out:
`select`, the first downtime lookup (`Gate`), `execute` (`Finish`), the counters
and `state.Update` (`Update`), the second lookup of either branch
(`ResolveGate`, `AlertGate`), the manager's decision (`Resolve`, `Alert`) and
the sending (`ResolveSend`, `AlertSend`), and `unregisterTrigger` on the way out.
`TriggerCheck` is two steps of a client, the lookup under the read lock and the
send after it.  `SlotOf` gives the (hostname, check) pair all keys are built from,
so that two assignments of a hostname listed twice share registration, board row
and alert key, as in the code.  What an execution answers is a choice out of
`Outcomes`; the downtime book is the set `down` of pairs it answers yes for,
which may change at any step.  Intervals are dropped: a timer may fire whenever
the goroutine is in its select.  Only the board's status and fail count are kept.
`Launch` is `registerTrigger` and `go` in one step, as the goroutine waits for nothing
but its timer in between.  A slot stands for one key in each of the maps, so names
whose keys coincide in the downtime and the alert manager but not in the registry
(see `Keys`) are outside this module.

**`Alerts`** (`alerts/manager.go`).  `Alert` and `Resolve` are the critical
sections; `Send` is one notifier of `dispatch`, whether it succeeds or not, so
decisions of other goroutines come between two sends.  The zero time a missing
`lastAlert` gives is `-RepeatInterval`.  `said` records what was let through.

**`Downtime`, `DowntimeEntry`, `Keys`** (`downtime/manager.go`).  Every exported
method holds the mutex throughout and is one action, the sweeping of every bucket
it looks at included.  Buckets are sets of entries, absent and empty buckets are
one.  Keys are character sequences, computed as `buildKey` computes them, and the
global bucket lives under the key `::` in the same map.  `CreatedAt` is left out.
`AddHost` and `ActiveHost` are called by tests only and left out.  `Keys` assumes
of names only what the loader enforces: none is empty.  So keys of different checks
may be one string (`a:` with `b`, `a` with `:b`), and such checks share a bucket of
downtimes; `DowntimeBook`, which tells checks apart by a `Key`, says so, and
`Downtime` gives it the keys of `buildKey`.  `NamesClear` is a condition on names
under which keys stand for one pair: all hosts, or all checks, have no NUL, and no
colon next to the separator or to another.  It is true of `host:5666` and false of
`fe80::1` (unless the check names are clear); nothing in the program enforces it.

**`DowntimeApi`** (`server.go` 514-723).  A create request is read (`Submit`),
adds one entry per step (`AddNext`) and, refused, takes its entries back one per
step (`UndoNext`).  Delete, list and the scheduler's lookups are single calls of
the manager.  The `Key` of its book is any function.  `mine` and `struck` are histories: whose entry an entry of the book
is, and whose name was deleted.  A relative duration is checked while it is a
number, and becomes a time afterwards: `Wrapped` is that multiplication, with seconds
that wrap around at `Half`.

**`Monitor`** (`scheduler.go` with `alerts/manager.go`, over the clock of `Alerts`).
The goroutines again, cut more coarsely than in `Scheduler`, because here it is
time that counts: `until` is when the timer fires or when a wait ends at the latest.
An execution takes up to `MaxExec`, a notifier up to `MaxSend`, and `Sending` calls
them one after the other in the goroutine itself.  `Enter` is `executeCheck` up to
the execution, the first downtime lookup included; `Resolving` and `Alerting` are
the second lookup with the manager's decision.  `up`, `quiet` and `fine` are the
world: which checked thing is in order, which key is in a downtime, and since when it
is neither.  An execution may succeed only if the thing was in order when it began
or when it answered.  A goroutine may be absent, so that one instance has keys with
one goroutine and with two.  Shutdown and board are left to `Scheduler`.

**`Config`** (`config/loader.go`, `model/config.go`, and what `main`,
`state.NewManager` and `Scheduler.Run` make of the result).  `at` is the function
that is called, in the order of `Load` and `main`; a function without a loop is one
action, and a loop is an action for its round, with `next` as its index, and
`LoopOver` (or `NewManager`, for that of the notifiers) where it ends.  In the second
loop of `compileMaps` a host is entered (`EnterHost`), gone through list by list
(`NextList`) and check by check (`AddCheck`, the closure of that name, whose `seen`
is the names of what is `assigned`), and left (`LeaveHost`), which writes
`ChecksByHostname` for the entries that come after.  `Read`, `EnterHost` and
`Validate` may end at `fatal`, where `main` exits.  Pointers are indices, strings are
members of `Strings`.  The file is one out of `Files`; what YAML makes of
its text is not modelled.  `HostByHostName` is written and never read, and left out, as
is the default of the HTTP host.

**`Sessions`** (`session/manager.go`, `requireAuth`, login and logout).  A request
carries the cookie its browser had when it was sent; `Accept` and `Refuse` are
`requireAuth`, `Logout` the handler behind it; the answer says what becomes of the
cookie, and reaches the browser later, out of order or never.

**`Listings`** (`state/manager.go`, the list handlers, `ParseStatus`).  A request
is a record with sets for its filters.  The board is read in one step (`ReadHosts`,
`ReadChecks`, `ReadDetails`) and the downtimes in the next (`Mark...`), as the
handlers do; the downtime list is one step.  The board's hosts and checks are finite
sets, as any configuration's are, and a request is read from its query (`Number`
is `parseInt` without its defaults).  Any order that a range over a map
and then `sort.Slice` can produce is possible (`Orders`).  `offset + count` wraps
around at `MaxInt`, and a slice whose end is before its start is a panic
(`at = "failed"`).  Names are numbers because pages are sorted by them.

**`Execution`** (`nrpeclient/client.go`, `protocol.go`, `tlsdial`, `pinger.go`).
One execution, from the context `executeCheck` makes to its result.  A step takes
no time; a wait lasts until the peer does something or `until`, where the limit
the code set ends it.  `limit` is the connection's `timeout_ms`, which is in whole
milliseconds (`Milli`).  A TCP wait goes on over several reads, as its deadline is
an instant; a TLS wait begins anew with each (`Again`), as its limit is the
socket's.  `getaddrinfo` has no limit of the program's, only `ResolveTime`, which
stands for the resolver's own.  A cancellation is noticed by a TCP dial and by a
ping and by nothing else.  `held` has what each step acquires, and every way out
says what it releases; what releases what is not held sets `misused`.  A packet
is a record of what the checks of the code can tell apart: the length it declares
and the one it has, whether it arrives unchanged, its kind, its code.  The
checksum is assumed to tell every change.

On the TLS side each address gets a socket (`OpenSocket`), closed before the next one
is tried (`NextAddress`); acquiring what is already held sets `misused` too, so that a
socket lost in that loop shows.  An `SSL_write`, `SSL_read` or `SSL_shutdown` may have
to wait for its socket several times, each time with the whole limit (`WaitOn`, at most
`Waits` more), and the deferred `Close` is a step that can wait (`Leave`, `Closed`).
A probe that was told to stop takes up to `StopTime` to do so (`StopProbe`, `Stopped`).

## 4. Runs

| run | instance | what it shows |
|---|---|---|
| `sched_shared` | two assignments with one key, thresholds of two, one API client | no open incident without an owner (`NoOrphanIncident`); no client is handed, or sends to, the channel of a goroutine that is gone unless the program shuts down, and before that every check has one (`RegistryAlive`); the board's row is the count and verdict of one goroutine (`BoardAgrees`); a downtime without a gap shields (`Shielded`); thresholds (`Debounced`); the use of the incident table (`UsesTable`) |
| `sched_live` | one assignment, thresholds of two, all five outcomes, two API clients, fairness | goroutine and alert manager agree on open incidents (`IncidentsAgree`); a trigger is served (`TriggerServed`), the shutdown completes (`ShutdownCompletes`), an outage is announced again and again (`OutageAnnounced`), a recovery ends the incident (`RecoveryResolves`) |
| `monitor_times` | none, one or two goroutines of one key, two notifiers, intervals 2 and 1, repeat interval 4, fourteen instants | alerts of a key keep their distance (`AlertsSpaced`); an outage is told, and told again, within a bound (`OutageTold`); the clock implements the mute of the table (`ImplementsTable`) |
| `downtime_names` | hosts `a` and `a:`, checks `b` and `:b`, two names, three spans, three instants | names are unique (`UniqueNames`), entries are where lookups look (`PlacedRight`), the maps implement the book (`ImplementsBook`) |
| `api_hosts` | two requests of any scope, three hosts, one name, four instants | a refused request leaves nothing (`RefusedLeavesNothing`); downtimes of hosts and of everything stay (`WidePromiseKept`); whatever wraps around, an entry ends after it begins (`SpansLast`) |
| `api_alone`, `api_promise` | the same with two hosts | findings 1 and 2 below |
| `sessions_tabs` | two browsers, two requests and two tokens, TTL 1, four instants | logged out stays out (`LoggedOutStaysOut`); who keeps active stays signed in (`SignedInWhileActive`) |
| `listings_pages` | two hosts, two checks, three rows, five downtimes, fourteen requests | pages make up the list (`WalkComplete`), a page has what there is and only a sum that is no int panics (`PageExact`), marks are true (`MarksTrue`) |
| `listings_statuses` | the same | finding 3 below |
| `exec_waits` | TCP, TLS and ping; timeout 4 and dial limit 6 of two units to the millisecond, two addresses, one wait more in each TLS operation, ten packets | every way out releases what was acquired, once (`Released`); a status is a genuine answer's (`AnswerGenuine`); how long an execution can take (`InTime`); it ends (`Ends`) |
| `config_files` | all files of up to three hosts and three checks out of small sets, and all combinations of the other sections | every entry runs what the file asks for, once (`AssignedRight`); what is accepted meets the other models' assumptions (`AssumptionsMet`); keys are shared by goroutines of one check only, and each has its row and channel (`KeysOwned`) |

`TypeOK` is checked once per module (as part of `MonitorTypeOK` for `Alerts`).

**Bounds, and why they are enough.**  *Assignments and clients*: the components
interact through one key at a time; two goroutines that share a key (or do not)
and one or two clients give every pair of steps that can meet there.
*Counters* saturate at `CountCap`, at or above the thresholds; nothing tells larger
counts apart except the board's number, and the theorems hold for any cap.
*Thresholds*: two is the least where "consecutive" means something.  *Clocks* stop
at `MaxTime`, which leaves room for an outage to be told as late as it can be and to
be told again (`Monitor`; the bound of the first is reached, and a bound one less is
violated), for a downtime that
begins later, ends and is swept (downtimes), and for a session to be prolonged,
to run out and to be used again (sessions).  *Downtime names*: two
of the four pairs of a host and a check have one key, and two have a key of their own,
which are the two ways a pair can be; a span is in force at once, begins later or is
refused, and three instants see it begin, end and be swept.  *Board of the API*: the third
host is what an entry, a refusal and an entry not yet tried need.  A duration of 5 with a `Half` of 4 wraps
around into the past.  *Listings*: pages
of one and two items over at most five, so that every list takes several pages;
two downtimes that tie; one for a host the board does not know; `MaxInt` is 7, so
that a sum wraps; counts and offsets are absent, negative and up to it.  *Execution*: the dial limit is above the
timeout and a unit of time below the millisecond, so that too short a rest becomes
the longer limit; two addresses, a round of the handshake and two waits in each operation
on the connection have limits of their own; header and body come in two pieces or at once; packets are right in every
status, too long, too short, empty, damaged, of another kind.  *Files*: a name is
used by three checks, which ask for it by hostname, by label and for any host; a
hostname is listed twice with different labels, and with another host between;
settings are absent, positive and negative on both levels; each way to be refused
occurs.  Requests, tokens
and browsers are permuted where no property is temporal.

The runs that stop are the scheduler's, after `Return`, an execution's, when it
is over, and a start's, when it has ended in `running` or `fatal`.

## 5. Fairness

`Scheduler` and `Execution` have a `FairSpec`; nothing else assumes any.  `Monitor`
needs none for its bound: `Pass`, by which time goes on, waits for whoever has
nothing to wait for, so that being late is a matter of the intervals, executions and
notifiers alone.  A machine that runs goroutines late adds its delay to the bound.  Go's runtime runs every goroutine that
can run, hence weak fairness for a goroutine's own steps, for a client that has
found its channel, and for `Return`.  A timer that is armed fires: weak fairness
for `WakeTimer`.  A notification ends by its timeout (Telegram's is ten seconds,
the log needs none), and so does an execution, which is what `Ends` of `Execution`
says (for TLS after a time that grows with the pieces of the answer, `InTime`).
There, fairness is that time passes and that a step is taken when time cannot
pass, because the limit of the wait has come or there is nothing to wait for.
A `select` with several ready cases picks one at random, so a case that is ready
time and again is taken: strong fairness for `WakeTrigger` and `Stop`.  `Elapse`
is weakly fair, as time passes.  Nothing is assumed of clients, of downtimes or of
what executions answer.  That the outage and recovery properties begin
with `[]` is the assumption that the checked host does not change its mind.

## 6. Theorems

Every theorem is for all values of the constants that satisfy the named
assumptions of the module (thresholds between one and the cap, `None` outside
the other sets, names that are not empty, intervals and times natural, key functions into the keys, a finite
board, files and requests of their type).

| module | theorem | says |
|---|---|---|
| `SchedulerProofs` | `TypeCorrect`, `IncidentsHaveOwners`, `IncidentRecordsAgree`, `BoardCorrect`, `RegistryCorrect`, `DowntimeShields` | the invariants of the runs |
| | `IncidentsDebounced` | the thresholds, as an action property |
| | `TableUsed` | every step of the scheduler is one the incident table allows |
| `MonitorProofs` | `TypeCorrect`, `Spacing` | the alert manager's type and the distance of alerts, for any callers |
| | `TableImplemented` | the manager with its clock implements the table |
| | `UsesManager` | the goroutines on the clock do with the manager what `Alerts` allows |
| | `MonitorTypeCorrect`, `SpacedAtWork`, `TableAtWork` | the type, the distance of alerts and the refinement of the table, in the composition |
| | `OutageToldInTime` | how late an outage is told, and how late it is told again, for any intervals, thresholds and notifiers |
| `DowntimeProofs` | `KeysAreApart` | keys of different pairs differ in all three maps, if names are clear (`NamesClear`) |
| | `TypeCorrect`, `EntriesPlacedRight`, `NamesUnique` | the invariants |
| | `BookImplemented` | two maps and sweeping implement the flat book, whatever the names; checks of one key share downtimes |
| | `BookOfPairs` | if names are clear, the book is one of pairs: no check has another's downtimes |
| `DowntimeApiProofs` | `TypeCorrect`, `RefusedClean`, `SpansAreSound`, `WideDowntimesStay` | the invariants, for any number of requests and hosts |
| `ExecutionProofs` | `TypeCorrect`, `AllReleased`, `AnswersGenuine`, `TimeBounded` | the invariants of the run, for any limits, addresses, rounds, waits and packets |
| `ListingsProofs` | `ListingsTypeCorrect`, `WalksComplete`, `PagesExact` | the invariants, for any board, book, requests and width of an integer |
| | `MarksAlwaysTrue` | the marks of the rows, as an action property |
| `ConfigProofs` | `ConfigTypeCorrect`, `AssignsRight`, `RunsAsAssumed`, `KeysAreOwned` | the invariants, for any file |
| `SessionsProofs` | `TypeCorrect`, `LogoutIsFinal`, `ActiveStaysSignedIn` | the invariants, for any number of browsers, requests, tokens |

**The arguments.**

*Scheduler.*  `IInv` adds `Control` (what the counters and the verdict are at each
place of a goroutine: in the resolve branch it has an open incident and enough
successes, in the alert branch enough failures) and `Closed` (a goroutine about
to be done with `Resolve` has `alertActive` still set, its slot closed), without
which `NoOrphanIncident` is not inductive: a `Resolve` by one goroutine must not
leave another's incident behind.  `BoardAgrees` holds of a
shared row because the goroutine that wrote it last is the witness: until it counts
again its counters are the row's, and once it has it is at `update`.  `RegistryAlive` needs `Ended`: a goroutine that is on its way out, or gone,
means a shutdown.  `ExposedNow` says that a busy goroutine whose
slot is not silenced at this moment is in `exposed`, which carries `Shielded`
over the gates.  Each conjunct has a lemma with one step per action.  The
thresholds and the use of the table follow from `Control` step by step.

*Alerts.*  `LastSaid`: the last instant in `said` is `lastAlert`, and what was never
announced has none; then an appended instant is an interval after the last, and
so after all.

*Monitor.*  Every step of the composition is a step of `Alerts` or leaves it
alone, because each action of a goroutine that touches the manager's variables is
one of its actions with a guard more, and `Pass` is its `Tick`; so what is proved
of `Alerts` carries over.  The type needs that a goroutine which is not sending has
no notifier left to call, and that no wait is longer than the settings.

*An outage is told.*  `Prompt` says of each goroutine by when it is over with what it
is at.  Either it is on its way to the first alert (`First`): then that instant is
counted from the last one at which the key was fine, with one interval and one
execution more for each failure so far (`Due`).  Or it has alerted before (`Again`):
then it is counted from the last alert, and what holds the next one up is the mute
or the sending, whichever is longer (`Held`).  `OutageTold` by itself says
nothing of a goroutine that is not late yet; `First` and `Again` do, and a step of one
goroutine keeps them for another of the same key because an alert only moves the
last one later (`Others`).  `AtEase` says that a key which is fine is so now, `Heard`
that `lastAlert` is what was said last, and `Timely` that no wait is longer than its
setting.  An execution that began before the outage may still succeed and set the
count back, but not later than `MaxExec` after it (`Timely` again), which is why the
bound has one execution more than the failures need.

*Keys.*  Suppose two pairs have one key, and look at the shorter host.  The separator
after it lies in the longer host or across its end, and in the checks likewise; if
hosts are clear, or checks are, neither can be (`KeysAreApart`); then hosts are equal
in length, hence equal, and what follows cancels.

*Downtime.*  Type, `PlacedRight` and `UniqueNames` are inductive together.  With them
and `KeyFacts` (the key of a check is never that of the downtimes of everything, as
no name is empty) the buckets that `Active` reads are the entries that cover the check
by its key, removal by name takes the one entry of that name, and each method is the
book's action; sweeping is the book's `Forget`.  Where keys are apart, "of one key" is
"of one pair", action by action (`BookOfPairs`).

*DowntimeApi.*  `Loops` ties `todo` and `created` to the stage, `Makes` says
that the entries of a request have its name and check, `Owned` that each entry of
the book belongs to exactly one request that made it and still knows it, `OneName`
that names are unique.  A refused request with an empty `created` then owns none.
`WideKept` is `WidePromiseKept` at every stage.  `SpansLast` holds because the book
refuses what the handler let pass: the proof uses nothing of `Wrapped` but that it
is an integer.

*Execution.*  `Place` says what is held at each step and of which kind the execution
is there, so that each way out releases just that.  `Clock` counts the waits that
are over: `Bound(k)` is the whole timeout, the lookup of the name and `k` waits of
the longest limit, and a TLS execution has gone through one per address, one per
round, and up to `Waits + 1` each for the write, for every piece taken and for the
close.  A TCP execution is cut by its deadline and a ping by its context, so that
neither needs the count.

*Listings.*  Rows that are untied can be sorted in one way only (`OneOrder`): take the
first place where two sorted sequences of one set differ.  Each of the two items there
comes later in the other sequence, so neither sorts before the other, and they would
be tied.  So each page is cut out of the same list as the pages before it, though it
is sorted anew (`Walk`), and the pages seen are always where that list begins.
`PageExact` is by the arithmetic of `Cut`: the sum of a start that is at most the
length of the list and a positive count either is an int, and then the slice is the
page, or wraps to below the start.

*Config.*  `Settled` collects what a stage establishes and all later ones keep:
positive settings, a notifier at least, hosts with a name and a TLS setting, sinks
that are the notifiers listed.  For the assignments, `Sifted` says that a list of
`compileMaps` holds the checks that ask for its key, in the order of the file, and
`Inherited` what the list of a hostname becomes once an entry of it has been gone
through: what that entry runs.  A check leads (`Leads`) if no check of its name comes
before it in the lists of the host; those taken are the leading ones among those passed
(`AddedKept`), and a check leads just if it is to run by all entries of the hostname
so far (`Chosen`).  `KeysOwned` follows, because of a hostname and a name one check
at most is to run (`OneExpected`), wherever its entries are.

*Sessions.*  `Owners` (a token is drawn by one login), `Places` (what requests at
each stage carry), `NewCovered` (an answer with a new session is no older than
that session) and `Kept` (a session owed to a browser is alive, in its jar and
carried by every request and answer of it) make `SignedInWhileActive` inductive:
whichever answer arrives last, it prolongs the cookie beyond what was promised.

## 7. Model-checked only, and not modelled

Liveness (`sched_live`, and `Ends` of `exec_waits`) is checked by TLC on one
assignment, one execution, and not proved: TLAPS has no rule for fairness here, and
no ENABLED.  These are the five temporal properties `TriggerServed`,
`ShutdownCompletes`, `OutageAnnounced`, `RecoveryResolves` and `Ends`; `OutageTold`
and `InTime`, which bound the time instead, are proved.  The runs `api_alone`, `api_promise` and
`listings_statuses` are counterexamples and need no proof.  The two abstract
specifications have theorems only as what others implement.

Not modelled: the web page's own state.  Loads of one list can overtake each other
there, as `PROJECT.json` says under its hazards; but no text of the repository says
what a page has to show then, so there is nothing to check the code against, and of
what the page asks of the server `Listings` and `Sessions` have the part that
matters.  Not modelled either: YAML; the bytes of a packet and of its checksum; OpenSSL
and the probing library, third-party; regular expressions in filters, which select
names as the exact filters do; JSON, method checks, redirects, health, version;
the five seconds the HTTP server gives open requests at a shutdown, which `main`
does not wait for; build files.  The text of messages is left out, so that the log
notifier looks for a prefix `[ALERT]` that no message has
(`alerts/logger_notifier.go:25`) is noted here and not in a model.  Seconds of a
duration wrap around as whole seconds in `DowntimeApi`; the program's wrap in
nanoseconds.  Settings so great that they overflow a `time.Duration` are not modelled.
Many hazards of this code end in an outcome that nothing in the repository forbids (a
recovery without an alert before it, a TLS exchange longer than its timeout, a panic
that net/http takes up, a downtime shared by checks of one key): the models reach them,
and no property is stated against them.  `loader_test.go` names fields the code no longer has, so nothing it
says is used.  The list of hazards in `PROJECT.json` says for each which property covers
it, or why none does.

## 8. Findings

1. *A check on all hosts* (`api_alone`).  `createDowntimeEntries` gives every host
   an entry of the same name, which the manager refuses from the second on: with two
   hosts or more such a request is always refused, and what it had made is taken
   back.  The test that covers the case has one host on its board.
2. *Taken back from another* (`api_promise`).  Entries are taken back by host, check
   and name.  If the entry was deleted in between and another request has used the
   name for that host and check, that request's entry is removed although it was
   answered 201.
3. *Statuses* (`listings_statuses`).  `ParseStatus` lower-cases the value and compares
   it with the upper-case constants: it knows no status, and every request with a
   `statuses` filter is answered 400, the filter of the web page included.

## 9. Running

    tlc -config MCScheduler_shared.cfg MCScheduler.tla
    tlapm SchedulerProofs.tla

and likewise for the other configurations (`MC<module>_<run>.cfg`) and proof
modules; `PROJECT.json` lists them all.
