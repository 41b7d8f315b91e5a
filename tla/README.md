# Verification of the RNG service

TLA+ models of the random number service in `src/`, model-checked with TLC and,
where it matters most, proved with TLAPS. `PROJECT.json` lists the components,
the runs, the mutants, the source lines each definition models, the hazards and
the findings.

## The system

The service (`cmd/rng-service`, `internal/`) answers HTTP requests for random
numbers and keeps an audit log of every answer. `net/http` runs each request on
a goroutine of its own; everything below is shared by all of them. Beside it the
repository keeps the certified predecessor, `sourcecode/vertex-rng-1.0.1`: a C++
program that answers `/random` through the CivetWeb server and the cJSON library
it carries along. That program is a process of its own; the two share nothing.

| Component | State | Operations | Interacts with |
|---|---|---|---|
| Gateway `internal/gateway/rest.go` | `lastReseed` under `reseedMu` | generate, batch, shuffle, health, stats, audit of a round | everything below |
| Middleware `gateway/middleware.go` | token buckets under `rateLimiter.mu` | authenticate, limit per tenant | runs before the gateway |
| CSPRNG `internal/csprng` | `key`, `v`, `outputBytes` under `DRBG.mu` | New, Generate, Reseed, HealthCheck | gateway, self-tester |
| Entropy pool `internal/entropy` | none (`mu` serialises reads) | Read, CollectForReseed | re-seed policy, startup |
| Scaling `internal/scaling` | none | RandRange, RandRangeInclusive, RandFloat64, Shuffle | draws from the CSPRNG |
| Chain `internal/audit/log.go` | `prevHash` under `Chain.mu` | Seal, PrevHash, VerifyEntries | gateway |
| Store `internal/audit/store*.go` | rows, under the store's lock | Append, LatestHash, GetByRound, VerifyChain | gateway |
| Self-tester, tamper check, metrics `internal/health`, `main.go` | results under `SelfTester.mu`, gauges | run tests, hash the executable, copy to gauges | health endpoint, CSPRNG |
| Process `cmd/rng-service` | the phase of its life | startup checks, serve, shut down | constructs the rest |
| Legacy service `vertex-rng-1.0.1/main.cpp`, `CivetServer.cpp` | a device handle, `connections` under the context lock | `/random` | web server, JSON |
| Web server, threads `civetweb.c` | slots and events per worker, handler registry, stop flag | start, accept, hand over, serve, register, stop | calls the handlers |
| Web server, connections `civetweb.c` | `struct mg_connection`: buffer, content counters, `must_close` | read header, dispatch, `mg_read`, `mg_write`, keep alive | one per worker |
| Web server, rate limits `civetweb.c` | `throttle` and what was sent this second | `set_throttle`, `mg_write` | answers of a connection |
| Web server, forms `handle_form.inl` | a buffer of its own | `mg_handle_form_request` | reads through `mg_read` |
| JSON `cJSON.c` | a heap of linked items | create, link, detach, replace, copy, compare, print, parse, minify | legacy service |

What is hard here is concurrency and what spans two critical sections: a seal
and the append that follows it, a policy that is checked and then acted on, a
health report put together from several reads, background loops on tickers of
their own. Failure comes in as an insertion that fails after the chain has moved
on, entropy that cannot be read, and a batch that stops half way. Nothing is
retried and, at this commit, nothing is persisted: the process always constructs
the in-memory store (`main.go:81-87`). In the legacy program it is threads that
hand sockets to each other, an HTTP message that arrives in any portions and may
stop anywhere, one buffer for the header, a part of the content and a part of the
next message, and C memory that may run out at every allocation.

What makes each component correct:

- *Chain and store*: one unforked chain; every sealed entry accounted for; a
  success means recorded; verification neither misses a gap nor invents one.
- *CSPRNG*: no keystream used twice; no key outlives its output; calls atomic.
- *Re-seed policy*: no reseed by time repeated within an interval, the draws past
  the interval bounded, no request stuck behind a failing pool.
- *Scaling*: every outcome equally likely, none outside the range.
- *Rate limiter*: neither more nor less than the rate, to each tenant by itself.
- *Monitoring*: problems are noticed, and neither hidden nor invented.
- *Legacy service*: numbers between min and max, equally likely, different if
  asked so; every request answered.
- *Web server, threads*: a socket has one owner and is closed once; a worker is
  never left asleep with work; a handler in use stays; stopping ends everything.
- *Web server, connections and forms*: content is never taken for a request, and
  a handler gets its content, all of it and nothing else.
- *Web server, rate limits*: the rate of a second bounded, what was sent counted.
- *JSON*: no cell used after it is freed, none lost; no write beyond a buffer;
  what is printed parses to itself.

## Modules

| Module | Models | EXTENDS / composes |
|---|---|---|
| `HashChain` | digests and `VerifyEntries` | |
| `Ledger` | what the log promises: atomic seal, record once, answer after record | `HashChain` |
| `AuditTrail` | request handlers, `Chain`, store and its queries | `HashChain`; implements `Ledger` |
| `AuditTrailProofs` | theorems about `AuditTrail` | `AuditTrail` |
| `MCAuditTrail` | which request is whose, for TLC | `AuditTrail` |
| `RandomSource` | the CSPRNG with atomic calls | |
| `Drbg` | the CSPRNG with its mutex and loops | `RandomSource`, which it implements |
| `DrbgProofs` | theorems about `Drbg` | `Drbg` |
| `Reseed` | `reseedIfNeeded` among concurrent items | uses the atomic calls `Drbg` justifies |
| `ReseedProofs` | theorems about `Reseed` | `Reseed` |
| `Scaling` | `RandRange`, `Shuffle`, ranges in `generate` | |
| `ScalingProofs` | theorems about `Scaling` | `Scaling` |
| `RateLimiter` | the token buckets | |
| `Monitor` | startup, self-tester, tamper check, metrics, health endpoint, shutdown | |
| `MCService` | one of `Monitor`, `RateLimiter` and `Scaling` at a time, for TLC | these |
| `ServiceProofs` | theorems about `RateLimiter` and about `Monitor`, which share nothing | both |
| `Vertex` | a request of the legacy service, from its parameters to its answer | |
| `VertexProofs` | theorems about `Vertex` and about `Throttle`, which share nothing | both |
| `JsonTree` | items of the JSON library on a heap that runs out | |
| `JsonText` | printing, parsing and minifying JSON text | |
| `MCJson` | one of them at a time, and the items that are printed, for TLC | both |
| `Pool` | what the threads promise: every connection has one owner and is closed once | |
| `WebServer` | the threads of the web server, its start and its end | implements `Pool` |
| `WebServerProofs` | theorems about `WebServer` | `WebServer` |
| `Connection` | one connection of it | stands for what `WebServer` does between `lookup` and `closing` |
| `ConnectionProofs` | theorems about `Connection` | `Connection` |
| `Form` | a request handler that takes a form apart | `Connection`, whose `mg_read` it calls |
| `Throttle` | the limit on the rate of an answer | |
| `MCLegacy` | one of `Vertex` and `Throttle` at a time, and the throttle option, for TLC | both |
| `MCConnection` | the clients and their messages, for TLC | `Form` |

### AuditTrail

A request is a program counter (`pc`), the entry in hand (`entry`) and the
entries it will report (`results`). `generate` is `SignEntry` or `ItemFails`,
then `Seal` in three steps (`SealLock`, `SealLink`, `SealPublish`: take
`Chain.mu`, read `prevHash` and hash, write it back and release), then `Append`
(`AppendOk` or `AppendFails`). A batch goes round for each item; `/v1/generate`
and `/v1/generate/shuffle` are batches of one. `tip` is `Chain.prevHash`,
`stored` the rows. `sealed` and `lost` are history. `AppendFails` is enabled only
by `StoreCanFail`, since `InMemoryStore.Append` cannot fail on a sealed entry and
`PostgresStore.Append` can, with the row committed or not.

SHA-256 is injective: a digest is the history it commits to, so `ZeroHash` is the
empty sequence. The content a digest covers is `computeHash`'s: tenant, round and
a payload standing for time, values and signature; request id, game and bounds
are outside it, as in the code. Readers take the store's lock once and verify a
copy, so their answers are operators of one state: `VerifyChain`, `GetByRound`,
`HashChainValid`. The loop that collects matching rows is a recursive function
(`Walked`, `RowsAt`).

### RandomSource and Drbg

A block of keystream is the pair of the key and the counter it was made from; a
key is the list of updates that led to it. Two blocks are the same exactly if key
and counter are, which takes AES for a family of independent random functions
and leaves out collisions. `v` counts from its value at the last update, so the
128-bit wrap-around is out of the model. `Drbg` has one step per turn of the loop
in `Generate`; `Return` is the update, the count and the unlock, all under the
mutex. `outputBytes` keeps its value in `Reseed`, as in the code. Each branch of
`aes.NewCipher` that returns an error is unreachable with a 32-byte key.

### Reseed

`reseedIfNeeded` step by step: the two unlocked conditions are separate steps
(`CheckCount`, `CheckTime`, since Go evaluates `&&` left to right), then
`LockReseed`, `Recheck`, `CollectFails` or `ReseedDrbg`, and `Stamp`, which sets
`lastReseed` and unlocks. The unlocked read of `lastReseed` races with `Stamp`
(`rest.go:456`, `rest.go:476`). `time.Since` looks only at the monotonic reading,
which is one machine word, so the value read is the old or the new one.
Output is counted in draws of 8 bytes. `outputBytes` is cumulative, as in the code:
once the count is due it stays due, so a request that waited for `reseedMu`
reseeds again (the run `reseed_count`). What the second look under the mutex does
prevent is a second reseed by *time* (`ReseedsApart`).

### Scaling

One request at a time, since nothing is shared but the source. `RandRange` is
`RangeZero`, `RangeOne` or `RangeMore`, then `Draw` and `Reject` until `Accept`.
Words have `WordSize` values; `Unsigned` and `Signed` are the conversions between
`uint64` and `int64`, and every sum wraps. That a draw is unbiased is stated by
counting the words that lead to each outcome (`DrawsUnbiased`); that it stays so
for a whole deck needs that placed items stay (`PlacedStay`). The one valid
request that fails asks for all of int64: `max-min+1` wraps to 0.

### RateLimiter

`allow` holds its mutex throughout and reads the clock inside, so it is one step:
`Grant` or `Refuse`. Tokens are exact here and float64 in the code.
`NeverAboveRate` and `RefusedOnlyForOwnUse` are the two halves of the definition
of a token bucket: over every period up to now, no more than a burst and the
rate; and a refusal only if some period is used up by the tenant's own grants. If
the capacity is below one token (a rate under 0.5) that period is the present
instant and every request is refused, as in the code.

### Monitor

`Start` or `RefuseToServe`, then the self-tester (`RunTests`, `Publish`), the tamper
goroutine (`Watch`, `SetMatches`), the metrics goroutine (`ReadResults`,
`SetGauge`) and health requests (`ProbeStart`, `ProbeVerify`, `ProbeResults`)
interleave, until `Stop` and `Exit`. The verdict of the statistics is
nondeterministic. The executable may be replaced, removed and restored at any
time. `stood` and `met` are history: the problems that were present throughout,
and at some moment of, a health request. Nothing in the way of a request that
draws values looks at any of this, so such requests are not in the model.

### Vertex

One worker and its requests; the workers share only the device. The four
parameters are fetched one after the other (`GetParam`: `BodyRefused`,
`BodyAccepted`, `Missing`, `NotANumber` or `Convert`), then `GenRandomList`
refuses or allocates, `Draw` is one turn of the loop and `SendJSON` the answer.
`uint32_t` has `WordSize` values and `float` a significand of `FloatSize`; `Stof`
rounds as IEEE does, `Conversions` adds what the x86 and ARM conversions of a
negative float may give, and `Signed` is the conversion to `int32_t`. Likelihood
is counted over the words of the device. `DrawNew` names the draws that give a
number not yet in the list, for fairness.

### JsonTree

The heap is a value (`heap`): the allocated nodes and strings and what they hold.
A function of the library is an operator from heap to heap that also tells
whether it touched a cell that is not allocated (`ok`); a call by the program is
an action. `malloc` fails when no cell is left, so with four nodes and two
strings every allocation fails in some behaviour. The program keeps the rules of
`cJSON.h`: it hands an item over once, edits no reference and deletes nothing
that a reference of its points to. `lost` are items the library took and never
linked, a leak the code has (see below); everything else must be reachable.

### JsonText

A text is a sequence of bytes, an item the tree it stands for. Printing goes
through `ensure` byte by byte, in its growing, its buffered and its preallocated
form; parsing, escapes, UTF-16 literals and minifying follow the code's loops.
After printing, the text may be changed in one byte, minified or given comments.
The byte put in may be anything that has a meaning in a text, a control byte and a
leading zero included. The parser is lenient about three things, which
`ParsedAsWritten` names: bytes up to 32 between tokens, also those that are no
white space, zeros in front of a number and control bytes inside a string. Numbers are integers, and -0. The limits (`CJSON_NESTING_LIMIT`, the 64 bytes for a
number, `INT_MAX`, the first buffer of 256 bytes) are constants, small in the run
so that each is reached.

### WebServer

`main` is the application thread: the steps of `mg_start` in their order
(`Startup`), each of which may fail; inside it `set_ports_option` entry by entry;
then handlers are added and removed, and the server is closed. `master` and
`worker` are the places of the other threads. A critical section of
`thread_mutex` is one step; the context lock is held over several steps by
`mg_set_handler_type` only. `mem` and `listed` say which arrays of the context
are allocated, so that a double free, a walk through an array that is not there
and memory freed under a running thread show as `main = "undefined"`.
`FailedStartExact` says exactly when that happens, `Entangled` exactly when a
registration hangs. A connection is one pass through the handlers here; the loop
over its requests is in `Connection`.

### Connection and Form

The client's bytes are tokens (a request line, a header line, an empty line, a
chunk size, payload) and what the server holds are positions in that stream; so a
byte delivered twice or to the wrong request is told apart from the right one. A
call that waits for the client has a set of results: any part of what the client
still has to send, silence past the time limit, a broken connection, a stop.
`GetRequest` is `get_request` and the checks of version and URI; then one action
per way `handle_request` can go; `NextRequest` is the end of the loop, with the
buffer moved as the code moves it, stale bytes included. `late`, `misframed`,
`unread`, `misaligned` and `overlooked` are history: the ways the server loses its
place in the stream, which the properties name as their exceptions.

The worker's buffer is not cleared between clients. What it holds from before is
the place 0 here, which no header and no content has; the code looks at it only
where `misaligned` says so. A message announces its content in one way, and a
length that is given is the content's (`miscounted` chunks are not). The methods
are the eleven of `http_methods`.

`Form` adds a handler that calls `mg_handle_form_request`. Its loops are recursive
operators over the connection and the form's buffer; a policy says what the
callbacks answer field by field. `Reference` is what the form says, read off the
stream without any buffer, and `FormExact` compares the two.

### Throttle

A connection structure and the `mg_write` of its worker, byte counts only. `quota`
is what outlives a call (`throttle`, `last_throttle_bytes`, `last_throttle_time`,
`num_bytes_sent`), and no field of the limit is reset for the next request or
client. `NextRequest` sets the rate from the URI (`set_throttle`). `mg_write`
begins; `push_all` with `Send` and `SendFails` is one turn of its loop each;
`FirstPushed`, `NextPart`, `PartPushed`, `Wake` and `WholePushed` are what
`mg_write` does between its calls of `push_all`. `Tick` is the clock, and may come
between any two of these; it does not go backwards, and `sleep(1)` is not
interrupted. `push_inner` gives up after a wait of at least a second
(`request_timeout_ms`). The legacy service sets no throttle option; the module is
about the server that it carries.

## Runs

An invariant that ends in `Inv` is a conjunction of named parts, each with a
comment of its own in its module. Components that share no state are checked in
one run: the MC module's `subject` says which of them a behaviour is about, and the
others stay in their initial states, where the fairness stated for them asks for
nothing.

| Run | Checks | Bounds |
|---|---|---|
| `audit` | `VerifiersExact`: both verifications report exactly what the rows lack; `SealedAccountedFor`; `OkMeansRecorded`; `LedgerInv`, the inductive invariant, with the unforked chain in it; the refinement `ImplementsLedger`; `EveryRequestAnswered` | 3 requests all in flight, two of 2 items; 2 tenants, 2 rounds; any item or insertion may fail |
| `audit_divergence` | finding: rows that are all there and unaltered, and reported as broken (`DivergenceMeansTampering`) | as `audit`, one item each, nothing fails |
| `drbg` | `KeystreamUsedOnce`, `ForwardSecrecy`, atomic calls (`ImplementsSource`), `EveryCallReturns` | 3 callers, calls of one and two blocks with a partly used block, 3 key updates |
| `reseed` | `ReseedInv`: types, overshoot bounded; `ReseedsApart`: at most one reseed for each interval of time, until the count is due; `EveryItemFinishes` | 3 items, 2 in flight, 0 or 2 draws and one rejection each, interval of 2 draws and of 1 tick, which passes once, a self-test |
| `reseed_count` | finding: a reseed with neither the time nor an interval of outputs since the last one (`NewSeedNewCount`) | as `reseed` |
| `service` | `Scaling`: `DrawsUnbiased`; `ScalingInv`: values in their range, a failure for the range of all int64 only, the deck a permutation | 4-bit words, all ranges, 1 or 2 values, decks of 1 to 4 |
| | `RateLimiter`: `RateInv`: buckets and rate kept; `RefusedOnlyForOwnUse`: rate not undercut | 2 tenants, 7 instants, 4 grants each, half a token per tick |
| | `Monitor`: `MonitorInv`: own executable only, truthful health report; `ChangesSeen`: tampering noticed, results reach the gauges | 1 health request, 2 runs of the tests, 2 changes of the file |
| `legacy` | `Vertex`: `VertexInv`: what an answer may hold, different numbers, equal likelihood; `RefusalExact`; `Answered` | 3-bit words, 2-bit floats, numerals 0 to 7 without 4, one request |
| | `Throttle`: `ThrottleInv`: at most three times the rate in a second, what was sent counted | 3 writes of 1, 3 or 6 bytes, rates of 3, 1 and none, 3 seconds |
| `vertex_range` | finding: a number outside min..max (`AnswerInRange`) | as `legacy` |
| `throttle_rate` | finding: more than the rate in a second (`RateKept`) | one write of 6 bytes at a rate of 3 or 1 |
| `json` | `JsonTree`: `TreeInv`: no fault, lists linked; `EverythingFreed` once; `CopyEqual` | 5 calls, 4 nodes, 2 strings, names that differ in case only |
| | `JsonText`: `RoundTrip`; `PrintInv`: no overrun, the slack of 5 bytes; `ParseInv`: altered texts, UTF-16 literals | items nested up to three deep, limit 2; buffers of 0 to 20 bytes; one altered byte |
| `web_server` | `PoolInv`: one owner of a socket, exact wake-ups, no trace of the last client; the refinement `ImplementsPool`; `HandlerStays`; `LifeInv`: failed starts, ports, clean stop; `Served`; `CallsReturn`: registering and stopping | 2 workers, 2 clients, 2 calls for handlers, 2 ports |
| `connection` | `ConnectionInv`: order of requests, own requests only; `BodyExact`; `FormInv`: whole fields, whole files; `ConnectionHeaderExact`; `EventuallyClosed` | about 130 clients of one or two messages; a buffer of 5 tokens, a form buffer of 6 |

Why the bounds are enough. Two requests suffice for any overtaking; the third
lets one overtake and another fail; batches of unequal length make a request
finish between two items of another. In `Drbg` a third caller waits while two
race, a call of two blocks exercises the loop, and three updates let a key be
replaced twice after its first use. In `Reseed` the interval is as long as one
item, so that both thresholds are crossed, by one item and by two together. In
`Scaling` four bits give every kind of range: powers of two, divisors of 16 less
one, more than half, the full range. In `Vertex` three bits give ranges that
divide the words and ranges that do not, both kinds of wrap-around and numerals
that are no floats. Five calls on four nodes are enough to link, reference, copy
and delete, and to run out at each. Two workers and two clients let one worker be
busy, starting or asleep while the other is served. In `Connection` the buffer is
as long as the shortest header, so that messages fit with a part of their
content, exactly, or not at all; the two messages of a client are each of every
kind. In `Throttle` a write of 6 at a rate of 3 takes a first part and two more, three
writes cross a change of rate and of second, and three seconds let a send begun in
one end in the next. The bounds that are not the code's are
`MaxUpdates` (`Drbg`), `MaxRejects`, `MaxTime`, `MaxSelfTests` (`Reseed`),
`MaxWrites`, `MaxSeconds` (`Throttle`), `MaxTime`, `MaxCalls` (`RateLimiter`), `MaxRuns`, `MaxChanges` (`Monitor`),
`MaxRequests` (`Vertex`), `MaxCalls` (`JsonTree`, `WebServer`), `MaxPorts`
(`WebServer`); `Clients` bounds the requests in flight.

### Fairness

- `AuditTrail`, `Reseed`: weak fairness of each running handler, for the Go
  scheduler runs every runnable goroutine; strong fairness of taking a mutex, for
  `sync.Mutex` hands the lock to a waiter it has starved for a millisecond.
  Requests need not arrive, time need not pass, and in `Reseed` rejections are
  bounded: in the code they end with probability one.
- `Drbg`: the same for a caller inside `Generate`; nobody has to call.
- `Monitor`: the two tickers of `main.go` keep firing and a computed result is
  published. Nothing is fair about stopping, changing the file or requests.
- `Vertex`: a worker goes on with its request, and where some word would give a
  new number one is drawn at last, which a random device does with probability
  one.
- `WebServer`: weak fairness of the application inside a call, of the master and
  of each worker, since POSIX threads that can run do; nobody has to connect, to
  change a handler or to stop the server, and a handler returns.
- `Connection`, `Form`: the worker goes on; every wait in it has a time limit. A
  client has one or two messages: one that sends a byte now and then, or requests
  for ever, does keep its worker.

Deadlock is checked except in `web_server` and `connection`, which end when the
server is down and when the connection is closed.
Elsewhere a model that has come to its end (all requests answered, the process
down, the clock at its bound) repeats its last state.

## Findings

Each has a run whose counterexample shows it; `PROJECT.json` quotes what the code
does and what is said of it.

- `audit_divergence`: one chain serves all tenants and rounds, while `VerifyChain`
  and the round check look at one tenant or round: rows that another tenant's or
  round's interrupt are reported as broken with nothing altered. And `Seal` and
  `Append` are separate critical sections, so that a request that sealed later can
  append earlier: with one tenant and one round the rows and links disagree as well.
  `store.go:22` says true "if the chain is intact", `store_postgres_test.go:191` that
  production must use a chain for each tenant, and `06-audit-trail.md:61` that any
  divergence shows tampering. `VerifyChainExact` and `RoundCheckExact` say exactly
  when the two verifications report a broken chain.
- `reseed_count`: `outputBytes` is never reset; once a million bytes have been
  generated every item reseeds, those that waited for another's reseed included.
  The specification document resets it (`02-algorithm-specification.md:101`) and the
  health report calls it `outputs_since_reseed`.
- `vertex_range`: `scale` returns -1 for a word beyond the largest multiple of the
  range, and `genRandomList` adds `min` to it (`main.cpp:63`, `main.cpp:90`). The
  service's README calls min and max inclusive bounds. `OutsideExact` says what else
  an answer may hold: nothing.
- `throttle_rate`: `mg_write` sends a part at once behind the one that used up the
  second's quota, so that up to twice the rate goes out, and up to three times if a
  send is held up (`RateBounded`); the fields are commented as bytes per second.

Also at odds with what is said of them, without a run of their own:

- A critical self-test does not pause generation, as `nist_selftest.go:38` asks, for
  nothing a request passes looks at the results.
- `buffer_skip_whitespace`, "Utility to jump whitespace and cr/lf" (`cJSON.c:963`),
  skips every byte up to 32. `ParsedAsWritten` allows for it.
- To `mg_handle_form_request` a late client looks like the end of the content, and it
  calls `field_store` for a part of a value, as it does when the server stops;
  `civetweb.h:1201` says it is not called for partially uploaded files. `StoredWhole`
  holds but for these two.
- The rate of the next request may be lower than what was sent this second; then
  `allowed` is negative, nothing of the answer is sent, and `mg_write` answers 0
  (`civetweb.c:5203`), which `civetweb.h:764` keeps for a closed connection. `Throttle`
  has these steps; `SentCounted` counts them right.

Also seen, in the Go service: an insertion that fails after `Seal` leaves a hole in
the chain (`SealedAccountedFor` counts it as `lost`); `handleHealth` reads the test
results twice, so the list it shows and the status it reports may come from
different runs; `GetByRound` is documented as ordered by `created_at` and orders by
insertion; the health document says `HealthCheck` generates 32 bytes, and it looks
at the key.

In the legacy service: a parameter that is no number ends the process (`std::stof`
throws); `randList` is never freed and not checked; parameters above 2^24 are
rounded to floats; `getParam` keeps the connection's lock when the Content-Length
is unusable, refuses a Content-Length of 0 even with a query string, and leaves a
short read's buffer uninitialised.

In cJSON: `cJSON_AddItemToObject` forgets the item when its name cannot be
allocated; a replacement under a name that is not there is lost and reported as
done, and one whose name cannot be allocated has none (`NoFault` excepts it); a
copy of an object with two members of one name does not compare equal to it.

In the web server, threads: removing a handler while a worker that uses it needs
the context lock hangs both, as does a request that authorization refused
(`Entangled`); a start that fails late frees twice, or frees the context under the
master thread; when memory runs out for the second port the list of ports dangles;
a master thread that could not be started makes `mg_stop` return at once.

In the web server, connections: pipelined bytes behind the first request are
dropped; after a CORS preflight or a refused request with content, after a late
client, after headers beyond the 64th and after two empty lines before a request,
a part of one message is read as the next (the exceptions of `RequestsInOrder`);
requests for `*` or another server are closed without an answer; an absolute URI
with a colon in its path is refused as invalid; the 413 answer of `get_message`
is never given; `discard_len` overflows for content of unknown length.

In forms: a key without "=" runs into the next one; an escape cut in two by the
end of the buffer is not decoded; a key longer than the buffer ends the form
silently; an abort by `field_get` inside a block ends only that loop, and in a
multipart value the next length is computed from an unset pointer.

## Proofs

TLAPS proves, for every value of the constants:

| Module | Theorem | States | In words |
|---|---|---|---|
| `AuditTrailProofs` | `TypeCorrect`, `ChainLinear` | `TypeOK`, `SealedIsChain` | the sealed entries form one unforked chain |
| | `EntriesAccountedFor` | `SealedAccountedFor` | a sealed entry is a row, about to be one, or lost; never two of these |
| | `AnswersAreRecorded` | `OkMeansRecorded` | a success means that its items, in order, are the rows of the request |
| | `VerificationExact` | `VerifiersExact` | both verifications report exactly what the rows lack |
| | `LedgerInvariant` | `LedgerInv` | the inductive invariant |
| | `AuditTrailImplementsLedger` | `ImplementsLedger` | the refinement of `Ledger` |
| `DrbgProofs` | `DrbgTypeCorrect`, `DrbgInvariant` | | types and the inductive invariant |
| | `DrbgForwardSecrecy`, `DrbgKeystreamUsedOnce` | `ForwardSecrecy`, `KeystreamUsedOnce` | no key outlives its output, no block is used twice |
| | `DrbgImplementsSource` | `ImplementsSource` | calls are atomic |
| `ScalingProofs` | `AllDrawsUnbiased` | `DrawsUnbiased` | for every even word size (2^64 included), every range, every deck |
| | `ScalingExact` | `ScalingInv` | every value in its range; only the range of all int64 fails; the deck stays a permutation |
| | `RejectionIsRare`, `PlacedItemsStay` | | less than half of the words are rejected; a placed item stays (proved only) |
| `ReseedProofs` | `OvershootIsBounded` | `ReseedInv` | for any number of clients, an interval and one item for each |
| | `ReseedsAreApart` | `ReseedsApart` | until the count is due, at most one reseed for each interval that has passed |
| `ServiceProofs` | `RateNeverExceeded` | `RateInv` | over every period no more than a burst and the rate |
| | `RefusalsJustified` | `RefusedOnlyForOwnUse` | and no less |
| | `MonitorInvariant` | `MonitorInv` | no health report hides or invents a problem |
| `VertexProofs` | `VertexInvariant` | `VertexInv` | for every even word size, numbers that differ and are equally likely |
| | `RefusalsExact` | `RefusalExact` | a refusal exactly when the request cannot be met |
| | `RateNeverTripled` | `ThrottleInv` | three times the highest rate bounds a second, whatever the rates and the writes |
| `WebServerProofs` | `HandlersStay` | `HandlerStays` | a handler in use is neither replaced nor freed |
| | `PoolInvariant` | `PoolInv` | one owner of every connection, exact wake-ups, no trace of the last client |
| | `LifeInvariant` | `LifeInv` | failed starts, ports, a clean stop |
| | `ServerImplementsPool` | `ImplementsPool` | the refinement of `Pool` |
| `ConnectionProofs` | `Invariance` | | the inductive invariant |
| | `BodiesExact` | `BodyExact` | a handler reads what was sent, all of it and nothing else |
| | `ConnectionSafe` | `ConnectionInv` | types, requests in order, own requests only |
| | `ConnectionHeadersExact` | `ConnectionHeaderExact` | the Connection header tells what happens |

Assumed are only the modules' assumptions on their constants
(`RequestsAssumption`, `SizesAssumption`, `CallersAssumption`,
`ScalingAssumption`, `PolicyAssumption`, `LimiterAssumption`,
`MonitorAssumption`, `VertexAssumption`, `WebServerAssumption`,
`ConnectionAssumption`, `ThrottleAssumption`), which TLC evaluates in every run. `ConnectionAssumption`
is the only one that says more than of what kind the constants are: a client sends
no chunk of size 0 but the last, and no content that it neither announces nor, by
the method, may send. The bounds (`MaxCalls`, `MaxTime`, ...) are constants like
the others, so a theorem holds whatever they are.

*The audit trail.* That the chain is unforked is not inductive: it says nothing
about the entry that is about to be published. `MutexInv` says who is inside
`Seal`, which excludes all others; `LinkInv` says that the entry to be published
is linked to the tip that is *still* current. With both, `SealPublish` extends
the chain and every other step leaves it alone. The refinement also needs that no
identity is sealed or recorded twice: `IssuedInv` bounds what a running request
has sealed by what it has collected, and `RecordInv` says that an entry about to
be appended is sealed and no row yet. Reading an identity off an entry rests on
types stronger than `TypeOK` (`HoldsEntry`: the entry in hand is the next of its
request). `Seal` maps to `SealPublish`, `Record` to `AppendOk` or to an
`AppendFails` that left a row, `Answer` to `Reply`; the rest stutters.

`PlacesInv` separates rows, entries in hand and lost ones; `SealedAccountedFor`
counts them. `OrderInv` says what the rows and the sealed entries of a request are
at every moment, not only after its success: what its handler collected and the
entry it is about to append. Both verifications compare the rows with the chain
pairwise, while the properties speak of a prefix and of a subsequence, so a chain
of correct links has to be matched with the sealed entries one after the other:
neighbouring rows with a matching link are neighbours in the chain, because a
digest belongs to one entry (`ChainInv`), and the first row of a tenant starts at
`ZeroHash` only if it is the first entry. The queries are loops. `WalkedIsWalk`
proves the equation of the loop, from which follow what `RowsAt` keeps, that it
keeps the order, and what appending a row adds to it.

*The DRBG.* `HolderInv` says that only the holder of the mutex is in the loop,
that its cipher is the key in force, and that it has encrypted exactly the first
`v` counters. `SpentInv` says that every key of a released or consumed block is
shorter, as a list of updates, than the key in force; that makes it another key.
Forward secrecy and single use follow, and so does the refinement, since the
blocks of a returning call are the counters 1 to `v` of one key.

*Scaling.* The threshold `t` is `-max % max`, so the words from `t` on are
`max * q` in number for some `q` (`ThresholdDivides`). Each remainder is that of
exactly `q` of them, by the bijection `k |-> t + max * (k - 1) + d`
(`ClassSize`). What is left is that outcomes and remainders correspond one to
one: for `generate` because the sum `min + n` comes back to itself in int64
(`ValueOfIs`), for `Shuffle` because the places up to `i` hold exactly the items
not yet placed, each once. `DrawInv` carries that, with the facts that make the
span `i + 1` or the size of the range (`SpanIs`).

*The re-seed policy.* A bound on `drawn` says nothing about the items that have
passed the check and have yet to draw. `BudgetInv` bounds what was drawn *and* what
the items past the check of the counter may still draw without another check; that
sum is a cardinality (`Budget` has a pair for every such draw), so that one item
changes it by adding or removing its own pairs. An item enters the budget only
while `drawn` is below the interval, or by a reseed, which sets `drawn` to zero.
That reseeds by time are an interval apart rests on `MutexInv` (who has found a
reseed due holds `reseedMu` until it has stamped the time, and until then nothing
takes the reason away) and on `ApartInv`: the reseeds there were fit the time up to
`lastReseed`, or one of them has yet to be stamped.

*The rate limiter.* The two halves of a token bucket are not inductive either,
for they do not mention the tokens that are left. `UpperInv`: over every period up
to the last call, what was granted and what is left come to no more than a full
bucket and what was added since. `LowerInv`: over some period they come to no less,
namely the one since the bucket was last full. A refill that overflows the bucket
starts such a period; every other one adds to both sides the same.

*Monitoring.* `HealthTruthful` speaks of finished reports. `RunningInv` follows a
request that has read one check and not yet the other: what stood all along is
still there, what is there now was met, and what the first check saw is in the
report. `HistoryInv` keeps the copies in order: the results of a run are published
before they reach a gauge.

*The legacy service.* That the numbers from `min` to `max` are equally likely
comes from the bijection between the words `scale` accepts and pairs of an outcome
and a multiple, as for `Scaling`, here with a rejected word that stays a number.
`ListInv` describes the list while it is drawn. The constants of the proof are any
even word size, any float size, any set of numerals.

*The rate limit.* How much goes out in a second is bounded by a sum (`Allowance`):
what a push begun in an earlier second still wrote, what this second is charged
with, and one part more. `PushInv` and `StageInv` say what `push_all` was called for
at each of its three places, `BrokenInv` why a push ended early: the client is gone,
a second has passed without a byte, or the server stops. `CountInv` adds to
`num_bytes_sent` what `mg_write` has sent and not yet counted.

*The web server.* The invariant has a part for each of its subjects, and together
they are inductive:

- `ThreadsInv` ties `stop_flag` to the master and both to the application: a worker
  the master has joined has ended, the flag is 2 exactly when all of them have.
- `StartInv` says for each step of `mg_start` what is allocated and open, and after
  it that everything is; `FailedStartExact` is a part of it, since a failed start
  never moves again.
- `HandlerInv`: the reference count is at least the number of workers that use the
  handler (`Users`; more when a refused request never gave it back). So a count of
  zero, which `mg_set_handler_type` waits for, means that there is none.
- `SignalInv`: a worker the stopping master has not woken yet has at most one
  signal, and if it has one it sleeps over a filled slot. That excludes a second
  signal for one connection, and a signal left over from the last.
- `OwnerInv`: the socket of the master's offer and those the workers answer for
  (`Holds`: the slot's until it is taken, the client's then) are exactly the open
  ones, each in one place (`Owned`). Five lemmas say what accepting, refusing,
  handing over, withdrawing and closing do to `Owned`; each step of the threads is
  one of these or none.
- `ConnsInv`: who is in `CivetServer::connections`, and nobody once the context is
  dropped. Without a master no connection was ever accepted, which is why `mg_stop`
  may return at once then.

`Pool` is what the threads, the slots, the signals and the flags are for: a
connection is accepted, given to a worker, taken back or finished, and closed by
who owns it. The refinement mapping reads the owner off `Holds`, so `OwnerInv`
carries the proof, one of the five lemmas for each step of `Pool`; the other steps
of the server change no `Holds` and stutter.

*The connection.* None of its properties is inductive. That the bytes delivered
are the content so far (`BodyExact`) follows from where the connection stands in
the stream, and that is spread over eight fields of `mg_connection`. The invariant
(`IInv`) has these parts:

- `SetupInv`: the stream is one of messages (`StreamIs` derives from the
  definition of `Stream` where each header ends, which tokens are content, and that
  each chunk is as long as the size in front of it).
- `KindInv`: types; nothing was received that was not sent, and the buffer holds
  positions of the stream.
- `ServeInv`: `Loaded`, the buffer holds what was received from the request's
  header on and the next byte `mg_read` gives is at `Place`; and `InContent`, that
  place is in the content of the request. For a content of a given length what is
  between its beginning and its end is all payload (`PlainOf`). For chunks the place
  is at a size, inside a chunk with `chunk_remainder` bytes of it left, behind the
  last one, or, behind a wrong size, at a line end that is not where it should be
  (`InChunk`).
- `FreshInv`, `DeliverInv`: nothing has been delivered at first, and then exactly
  the payload up to the place.
- `AnnounceInv` keeps what the answer's header promised against what
  `should_keep_alive` will say at the end; `OrderInv` says where a connection that
  is kept has received to.

`mg_read` of chunks and `discard_unread_request_data` are loops. For the first,
`ReadChunked` is the loop invariant: what the read has gathered is what stands
between the place it began at and its own. A turn either reads data, so that less
is wanted, or a size, so that the next turn reads data; that is why twice the
length bounds the turns. Behind a chunk with a wrong size (`miscounted`) a byte of
content is taken for the line end, or the read fails and the history `misframed`
remembers it; `InChunk` and `ServeInv` have a case for each. Reading a header is the other
half: the parser finds the request line in the first place of the buffer, or behind
one empty line (`HeadPlaced`); what the end of the header is in the stream follows
from `get_http_header_len` having found the *first* empty line. Each action of the
loop has a lemma (`...Keeps`) on values and one that applies it (`...Step`). The theorems are
about `Connection`'s own specification; that a form handler keeps its properties
too is what the run `connection` checks.

Each invariant was checked by TLC on the run's instance before it was proved.

The library's induction theorems take an operator as a parameter, which the
provers cannot instantiate. Where a proof needs induction (the loop of the
queries, links of the chain, the largest element of a set) it takes a smallest
counterexample instead, which well-founded orders have, and removes an element
from it (`LeastExists`, `LargestExists`, `WalkExists`).

Only model-checked:

- everything under fairness (`EveryRequestAnswered`, `EveryCallReturns`,
  `EveryItemFinishes`, `ChangesSeen`, `Answered`, `Served`, `CallsReturn`,
  `EventuallyClosed`), since temporal reasoning about ENABLED is out of the
  prover's reach;
- `JsonTree`, `JsonText` and `Form`, which follow the recursion and the nested loops
  of the code with recursive operators, for which the prover has no SMT backend, and
  whose properties are about what those compute: induction over data;
- the properties of the findings, which do not hold.

## Not modelled

Authentication, JSON and validation of the Go service are stateless and decide
only which requests arrive. Configuration is read once. The dump command is a
sequential loop. The gRPC file declares a service that is not implemented here.
`RandRangeInclusive` and `RandFloat64` are not called by the service. Loops that
read the hardware RNG may block for ever in the code; the models assume that
reading entropy returns. `PostgresStore` and `LoadChain` are constructed by
nothing but tests, so a restart has no state to recover.

Of CivetWeb: files, directories, CGI, SSI, digest authentication and `md5.inl`,
WebDAV, TLS, websockets and the client side, none of which the legacy service
turns on (it sets no document root, password file or certificate); logging; the
Windows branches; the build without ALTERNATIVE_QUEUE. Of cJSON: fractions and
exponents of numbers, which are the C library's `sprintf` and `strtod`.

## Plan

Done: the audit trail, the CSPRNG, the re-seed policy, scaling, the rate limiter
and monitoring of the Go service; the legacy service with its web server, forms
and JSON library, and the limit on the rate of an answer; proofs of every safety property of a run except those of
`JsonTree`, `JsonText` and `Form`.

1. `Form` without recursive operators, as `Connection` is: its loops consume the
   stream, so that their turns are bounded by its length. `InContent` says what
   `mg_read` gives them.
2. The reference count of a handler exactly: its users and the requests that were
   refused with it acquired, which makes `Entangled` exact too.
3. What liveness rests on, as far as it is a property of states: while a request,
   a caller or a socket waits, some thread that can run is named.
