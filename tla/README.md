# A verification project for ruoqa

`ruoqa` is an asynchronous client for the openQA REST API (Rust, `src/src`).
This directory holds TLA+ models of it, the TLC configurations that check them
on small instances, and TLAPS proofs of the properties that matter most.

## The system

| Part | State | Operations | What makes it correct |
|---|---|---|---|
| `Client::execute` with `send_with_retries` (`client.rs` 754-970) | current request, redirects followed, attempt of the hop, start and deadline of the call | one attempt, replay after a response or a transport error, redirect, return | no write applied twice that was not declared replayable; nothing sent after the deadline; bounded requests; every call ends |
| Retry policy (`policy.rs`) | fixed fields and a jitter generator behind a mutex | `backoff_for`, `parse_retry_after`, `is_backpressure`, `validate` | delays within the caps, for every curve and every header |
| Redirects and URL guard (`client.rs` 1078-1201) | none | `guard_request_url`, `redirect_target`, `without_content_headers` | requests stay on the server, below the base path, without userinfo; method, body and headers stay coherent |
| Path resolution (`client.rs` 511-545) | none | `join` | a path cannot change origin or escape the prefix |
| Signing (`client.rs` 984-1018, `auth.rs`) | none | `sign`, `canonical_query`, `apply` | the server verifies what is sent; one authentication scheme |
| Client functions (`client.rs` 547-752) | where the call has got to | `request`, `request_form`, `request_typed`, `request_as`, `send_raw`; dropped by the caller | what a result says of the write is true |
| Responses (`client.rs` 1026-1073, 1206-1292) | bytes read so far | `handle_response`, `read_capped`, `read_truncated`, `classify` | never more than the limit in memory; total classification |
| Shared policy lock (`client.rs` 399-412 and its lock sites) | mutex, poison flag, generator | `lock().unwrap()` in six places per attempt | never held across an await, never nested, no call poisons it |
| Configuration (`config.rs`) | the files it finds | lookup by tier, merge, `resolve`, credential lookup | first non-empty tier wins; later files override; no mixed credentials |
| Builder (`client.rs` 41-397, `secret.rs` 94-137, `tls.rs`) | the settings | `build`, `TlsMode::apply`, `Timeouts` | order of the checks, credential tiers, every accepted setting usable, none dropped in silence |
| Tables (`consts.rs`), errors (`error.rs`), redaction (`secret.rs`) | none | lookups and formatting | tables partition the states |

`execute` is the centre. It takes a prepared request (`join` and `prepare` make it
of a path, or a caller makes it), checks its URL, and hands it to
`send_with_retries`, which signs and sends it, sleeps and repeats as the policy
allows; the response goes through `redirect_target`, which may give the next
request. `request` and its kin wrap that: path in, parsed body out. Clones of a
client share `Inner`: the HTTP client and the policy behind a `std::sync::Mutex`.
Apart from that mutex concurrent calls do not interact. The hard parts are those of
any client of an unreliable network: lost and late answers, requests that outlive
the call, one deadline over nested loops, and counters that restart per hop.

## Modules

```
RetryPolicy  Redirect            CanonicalQuery  RequestPath (EXTENDS Redirect)
      \       /                        |             |
       Execute  --implements-->      Signing         |
          |     WriteContract            \          /
       Client                             Outgoing
          '--uses ResponseContract <--implements-- ResponseBody
PolicyLock      Backoff      ConfigLookup      ServerUrl <- Builder
```

One call:

- `RetryPolicy` - the decisions of `policy.rs` and of `method_retryable` and
  `status_retryable`. Durations are ticks; the jitter is any value up to the
  cap; a `Retry-After` header is what `retry_after_value` makes of it.
- `Redirect` - `guard_request_url` and `redirect_target`. A URL is its origin,
  whether it carries userinfo, its path as segments, and whether it is an
  http(s) URL with a host. "Below the base path" is the code's prefix test with
  the added slash. Headers are kinds: `content-*` and others.
- `Execute` - one call. `pc` follows the code: `hop` is the top of the loop of
  `execute`, `attempt` the top of the loop of `send_with_retries`, `inflight`
  and `sleeping` its two awaits, `settled` the return of a response to
  `execute`, `done` the return to the caller. Each early return is an action
  of its own. Around the call, and external to it: `wire`, the requests the
  server has not yet handled; `Serve`, which applies a write or not as the
  response it chooses allows; `Lose`; `ConnectionFails` and `TotalElapses`, the
  two ways `reqwest` fails; and `Tick`.
- `WriteContract` - what the caller may rely on, without any of this: applied at
  most once unless replayable, success only if applied, an answer in the end.
  `Execute` is shown to implement it (`KeepsContract`).
- `Client` - a whole call of one of `Client`'s functions around an execution:
  refused by `join` or started, executed, its response returned as it is or read
  and parsed, and its future dropped by the caller at any await. `stage` says
  where it is, `result` what the caller got. What `join` and the reader decide
  comes from `Outgoing` and `ResponseContract`: here a refusal is any error that
  fits the URL, and a body read in one step. What is on the wire outlives a call
  that was dropped.
- `PolicyLock` - any number of calls on clones of one client, reduced to what
  they share: the policy's mutex, its poison, its jitter generator. `pc` is the
  lock site a call has reached (`deadline`, `limit`, `statuses`, `method`,
  `retryAfter`, `backoff`), one of its two awaits, or its end. Taking the guard
  and what is done under it are two actions, so every interleaving of two calls
  at two sites happens. What the policy answers is left open, since `Execute` has it:
  every continuation the code has at a site is allowed. A call may be dropped at an
  await. Panics under the guard are those of `started + deadline`
  (`SnapshotOverflows`) and of a caller's `Rng` (`RngPanics`).
- `Backoff` - the policy as a value: presets, setters in any order, `build`'s
  `validate` or its absence, and the wait before every replay. A double is an
  integer up to `FloatMax`, an infinity or NaN, with IEEE multiplication and
  `powi`; a word of the xorshift64* generator is the set of its one bits. It
  justifies the curve, the jitter and the header values that `RetryPolicy`
  takes as given.

The request:

- `RequestPath` - `join`: a path is a sequence of tokens (separators, blanks,
  schemes, dots and escaped dots, userinfo marks, names). `Resolve` is how the
  `url` crate resolves a reference against a base (external); `Join` does it
  against the base with one slash stripped and against `RELATIVE_GUARD` without.
- `CanonicalQuery` - `canonical_query` over bytes, and, apart from it, what the
  server makes of a query before it hashes it (external, as `tests/signing_wire.rs`
  has it). The code scans from the left; the server's side says of each position
  of a query what stands there, so that the two have only the bytes in common.
  `QueryTexts` are the queries that `Url::join` can leave: no tab, line end or
  `#`, and nothing to trim at the end.
- `Signing` - `sign`, `apply`, `signing_string` and the base headers. Of a header
  is kept who set it; a hash stands for the text that was hashed.
- `Outgoing` - these together: `prepare` and `prepare_form`, a caller that edits
  the public fields of a `PreparedRequest`, the guard of `execute`, and any
  number of attempts of the same prepared request.

The response:

- `ResponseBody` - `handle_response` with its two readers. A response is a status
  class, a media type, the number of bytes that arrive, whether the body then
  ends or breaks, and whether it is a valid document. `Chunk` delivers any part
  of what is left, empty frames included. A body that never ends is not
  modelled apart: the readers stop within a chunk of their limit
  (`ReadersStopEarly`), so a body longer than that looks the same to them.
- `ResponseContract` - the outcome as a function of the response, in one step.
  `ResponseBody` is shown to implement it, and `Client` uses it.

Before the first call:

- `ConfigLookup` - `lookup_config_files` and `load_merged`, with a step for each
  look at the file system, and `Change`, somebody else who creates, rewrites
  and removes files between them. A file is a sequence of section and key; its
  values are told apart by the file they come from (`merged`). `Garbled` is
  what the ini parser refuses or the process may not read.
- `ServerUrl` - `resolve` and `netloc` as operators: server, scheme option and
  default to a base URL, and the three section names made from it.
- `Builder` - `build` in the order of its checks, from every setting, merged
  configuration and environment, to a client or an error, the HTTP client that
  comes of the TLS mode and the timeouts (`http`: the roots it trusts, whether it
  verifies, whose timeouts it has) or was injected, and the first signature.
  Strings are classes: `plain`, with a `colon`, `empty`, and `opaque` for what is
  no header value. It takes the merged configuration as given; that the lookup
  may fail is a disjunct of `Resolve`.

`MCExecute`, `MCClient`, `MCOutgoing`, `MCBackoff`, `MCResponseBody`,
`MCConfigLookup` and `MCBuilder` give TLC its requests, responses, paths, policies,
files and settings. `ClientProofs` (with those of `Execute`), `PolicyLockProofs`,
`BackoffProofs`, `OutgoingProofs`, `ResponseBodyProofs`, `ConfigLookupProofs` and
`BuilderProofs` hold the theorems, and `Induction` what several of them rest on.

Definitions called "Variant" are deliberately wrong forms of the definition
that follows them. No specification uses them; they record which mistake each
property catches (`mutants` in `PROJECT.json`).

### Decisions of the model

- *Time* is kept in countdown timers (`budget` for the deadline, `timer` for the
  sleep or the HTTP total timeout), so the state space is finite without a
  horizon and liveness needs no bound on time. `Tick` may run between any two
  steps: a ready task may be polled late, a sleep may overshoot, a thread may be
  preempted between the deadline check and the next one. Ages and history
  counters saturate at the first value that no property tells from a later one.
- *`tokio::time::timeout`* polls the request before its timer. `DeadlineElapses`
  therefore requires that no answer has arrived, and an answer found after the
  deadline is still taken; the tests that follow then refuse to sleep.
- *The server* is trusted only as far as the code trusts it: it has not acted on
  a request answered by 429 or 503 with `Retry-After`, by 401, 403 or 404, or by
  a redirect that asks for the same write elsewhere (307, 308, and 301 or 302 to
  anything but a POST). Behind any other answer, and behind none, the write may
  have been applied. `AtMostOnce` would be false without this: a server that
  commits and then answers 503 with `Retry-After` makes `ruoqa` commit twice.
- *A signature* is made in the loop and is not modelled in `Execute`, since nothing
  there depends on it; what it is made of, and that each attempt makes its own, is in
  `Outgoing`.
- *A look at a file that fails* (`is_file` and `exists` are false on an error, an
  unreadable directory or entry is left out: `config.rs` 106, 126-132, 291) does not
  see what is there. `See` lets every look miss any file and records what was missed in
  `unseen`. So a tier that cannot be read is passed over in silence, and one with a
  `client.conf` that `is_file` missed goes on to its next directory, as the doc of
  `drop_ins` (122-124) has it for the directory; the properties claim nothing of a file
  that some look missed, and what they claim of the others holds whatever is missed.
- *The policy* is constant: no method changes it after `build`. The jitter
  generator's state is abstracted to the set of its results.
- *One look at a directory of drop-ins* is one step. In the code it is `read_dir`
  and an `is_file` per entry; a file that changes meanwhile is seen or not, as
  it is if it changes just before or after, and nothing is claimed of files
  that changed.
- *Paths and userinfo of a server* are left out of `ServerUrl`: section names are
  made without either. The host names that begin with "http" (`HttpLike`) have a run
  of their own, below, for the scheme they get.
- A `Retry-After` date is the distance to it; it is evaluated twice in the code
  (as a signal and as a delay), which can only differ by the time between.
- *Multipliers* of a backoff are integers: overflow, sign, infinity and NaN are what
  can go wrong there, rounding is not. The one multiplication that turns a word of the
  generator into a fraction is a free choice of a wait within the bound.
- *URL resolution* is modelled with what the `url` crate does to the tokens that
  matter: blanks trimmed, tabs dropped, backslashes as slashes, a scheme equal to
  the base's with less than two slashes taken as relative, escaped dot segments
  walked. Ports, IDNA, fragments and file URLs are left out.
- *A call's path* in `Client` is the URL it amounts to, since `Outgoing` has the way
  there; an argument that `join` refuses for its form is one of `PathErrors`, and a
  body that `serde_json` does not write is `RefuseBody`: `Error::Parse` with nothing
  sent, the same error as that of an answer that does not parse. A `Parse` therefore
  says that the write was done or that nothing was ever sent, and `ResultsAreTrue`
  claims no more of it.

## What the runs check

| Run | Bounds | Shows |
|---|---|---|
| `execute_writes` | POST, PUT; 2 retries, 1 redirect, deadline 3, HTTP timeout 1 or none, backoff and header caps 2; 7 responses | `AtMostOnce`, `NoLateWrite`, `NeverSleepsThroughDeadline`, `RetryAfterHonoured`, `SentInTime`; refinement of `WriteContract`, liveness included |
| `client` | 4 GET URLs, POST and PATCH; 1 retry, 2 redirects to 5 targets, HTTP timeout 1 or none, no deadline, `Retry-After` not honoured; bodies of 0 to 2 bytes, limit 1; dropped futures | `OnlyGuardedUrls`, `CoherentRedirects`, `SendsBounded`, `NoEarlySurrender`, `ResultsAreTrue`, `ResultIsFinal`, `EveryRequestEnds` |
| `outgoing` | about 20000 paths, 1400 queries, 3 ways to authenticate, 3 header edits, 4 URL edits | `StaysBelowBase`, `DotsAreWalked`, `PathsMeanOneThing`, `ServerVerifies`, `MeaningKept`, `HeadersAreRight` |
| `backoff` | both presets, six multipliers, 8 attempts, doubles up to 60, durations up to 20, words up to 15 s; the real shifts at 64 bits, two seeds | `WaitsAreCapped`, `CurveIsExponential`, `WaitsAsAsked`, `GeneratorRuns` |
| `policy_lock` | 2 calls, 2 retries, 1 redirect, panics in the sum and in the `Rng` | `NoGuardAcrossAwait`, `JitterIsNotShared`, `PoisonStopsReplays`, `EveryCallEnds` |
| `policy_lock_overflow` | as `policy_lock`, 1 retry, without the `Rng` panic | a violation of `PanicsOnlyIfPoisoned`, below |
| `response_body` | bodies of 0..8 bytes, chunks of 0..3, limit 4, preview 2; 9 media types | `BufferBounded`, `TextNeverFails`, refinement of `ResponseContract` with liveness |
| `config_lookup` | a user's directory and the system tier, two drop-ins each; 2 files at first, one that others change any number of times, any look that misses any file; 5 states per file | `TypeOK`, `MergedInOrder`, `FirstTierWins`, `NothingStableIsLost` |
| `builder` | servers with and without scheme and port, 6 pairs, 3 usernames, 10 configurations, 4 environments; every TLS mode, timeouts, injected client | `PairsAreWhole`, `TokensStayPrivate`, `TransportIsAsAsked`, `DefaultServerHasItsKeys` |
| `builder_token`, `builder_half_pair`, `builder_httpd` | as `builder`, with fewer settings | violations, below |

*execute_writes.* Two retries are needed for a first replay whose own outcome is
replayed or given up; one redirect for a write whose hop changes method. The
responses are a success, a failure that may have been committed, a `Retry-After`
of zero and one above the cap, a 307 that replays the write, and 303 redirects
into the prefix and to another origin. A deadline of 3
with waits up to 2 lets a call sleep once in full and be refused the second
sleep, and lets a sleep end before, at, and after the deadline. Both values of
`retry_non_idempotent` are initial states, and so are HTTP clients with a total
timeout and without one (a caller's own): on a silent server the call of the second
kind is ended by its deadline alone, and `KeepsContract` asks that it is.

*client.* Two redirects make a chain whose middle hop is the bad one: to a path that
only shares the prefix's letters, to another origin, with userinfo, and to a URL
that is none of the web. There is no deadline and `Retry-After` is not honoured,
so this run has the half of the policy that `execute_writes` leaves out: only
the HTTP timeout ends a call on a silent server, and `EveryRequestEnds` claims
nothing of a call without one. Bodies of 0, 1 and 2 bytes are
below, at and above the limit, whole or broken, valid or not. A result is
compared with what the server did, now and later; a call may end with each of the
errors that `prepare` gives.

*outgoing.* A path has a front (slashes of both kinds, with blanks and tabs between
them, schemes with up to two slashes, behind a slash or not), an authority (none,
the client's own host, another, the host of `RELATIVE_GUARD`, with userinfo) and a
tail of up to three names, separators, dots and escaped dots, or up to four below
the prefix; all combinations are checked. A query has up to three bytes of the nine
that have a meaning, and values up to four of the bytes of an escape, so whole, cut
and nested escapes (`%256B`) occur. Each attempt signs the prepared request anew.
A caller's header edits include a key of its own: it stays, beside a hash made with
the client's secret, and the server answers 403 (`secret.rs` 80-83), so
`ServerVerifies` says that a signed request is accepted exactly if there is none.
A call with a body that does not serialize ends in `Error::Parse` after `join`
(`client.rs` 563).

*backoff.* `FloatMax` is 60 and multipliers reach 7, so three attempts overflow a
double, `DurationMax` overflows before it, and exponents pass `ExponentMax`. A
zero backoff with an infinite power is NaN, and the delay is then the cap, not
zero: `CurveIsExponential` states that exception (`policy.rs` 313 says that the
curve "saturates at the cap it would have hit anyway", which a zero curve would
not). The generator is the real one, bit by bit, with the seed that replaces zero.
`WaitsAsAsked` bounds a wait from both sides: text, a past date and a negative number
leave it within the backoff, and what is asked for makes it no longer than the cap
and the backoff do.

*builder.* The first section of a configuration is the default server. Its header
has no scheme, or one, with and without a section for the same host that has both
halves or one; or it is misread, or has a default port, which `DefaultServerHasItsKeys`
excludes by name: `Url` drops that port, so such a section never finds its own keys.

*config_lookup.* Two files that stay and one that comes and goes are the smallest case
of a merge that is disturbed: the third may hide the others, end the scan of its
directory or of its tier, or be gone when it is loaded. The system tier is the
only one with two directories, so the rules for leaving a directory and for
leaving a tier need both tiers. This run checks the type invariant with the rest; those of
the other modules are proved. `config_lookup`, `builder`, `backoff` and `outgoing` model
synchronous code that ends by construction (a build, a policy asked for its
waits, a request on its way out); they have no fairness and do not ask for deadlocks.

*response_body.* Bodies of 8 bytes run two chunks past either limit; chunks of 3 end
before, at and after a limit of 4 and step over a preview of 2. The deadline of
the retry policy ends with `execute` and does not bound the reading of the body,
as `policy.rs` 143 says; only `Timeouts` does.

*policy_lock.* Two calls give a holder and one that waits, two retries a second round of
every site and one after it, and one redirect brings a call back to the `limit`
site; the theorems are about any number of calls. A call that sleeps when another one
poisons the mutex takes no lock to sign and send (`client.rs` 874-879), so it sends
once more before it panics at the next site: `PoisonStopsReplays` allows one such
attempt per call (`resent`) and no answer that reaches a caller.
A backoff of zero draws nothing from the generator (`policy.rs` 115).

*Fairness.* In `Execute` and `Client` the task of the call is polled when it is
ready (`WF(Call)`, `WF(CallerSide)`), the HTTP timeout fires (`WF(TotalElapses)`)
and time passes (`WF(Tick)`). Nothing is assumed of the server or the network: the
runs include the server that never answers. `EveryRequestEnds` rests on the HTTP
timeout alone; the liveness of `KeepsContract` holds for calls that have only the
deadline. A call with
neither (a caller's own `reqwest::Client` without one) may wait for ever and is not
claimed to end. In `ResponseBody` the reader is fair (`WF(Progress)`): the server
sends something or the read timeout breaks the body; a server that sends empty
frames for ever is excluded; `Client` reads a body in one fair step for that reason.
In `PolicyLock` a call that holds the guard or whose await is over runs on
(`WF(Proceed)`; that attempts end is `EveryRequestEnds`), and a call that keeps
asking for a mutex that is released again and again gets it (`SF(Lock)`), which the
futex lock of the standard library does not promise but any scheduler provides;
without it a call could starve behind its clones.

`Tick` is always enabled in `Execute`, which therefore cannot deadlock in TLC's
sense; that nothing gets stuck is what its liveness says. `PolicyLock` has no
clock and stops when all calls have ended, so its runs do not ask for deadlocks;
a real one would break `EveryCallEnds`.

### Disagreements with the documentation

The doc of `execute` says of panics: "Never in practice: only if the
retry-policy mutex is poisoned by an earlier panic elsewhere in the client"
(`client.rs` 784). `policy_lock_overflow` refutes it: `started + d`
(`client.rs` 802) is a panicking addition, `deadline` is any `Duration` (`validate`
looks at `multiplier` only), and the guard is a temporary of that very
statement. With `Duration::MAX` as deadline the first call panics on a healthy
mutex, and every call of every clone panics after it. `checked_add` outside
the guard's statement would do.

`bearer_value` panics "never in practice: `build` already rejects" what is no
header value (`secret.rs` 124). `builder_token` refutes it: `validate_token_parts`
(`client.rs` 378) looks for empty parts and colons, so a username with a control
character other than a tab passes and the first signature panics. The HMAC scheme
does not have this gap (`HmacIsUsable`): its header is made in `build`.

The README of `ruoqa` (113) calls "a half-set pair from any tier" a build error.
`builder_half_pair`: in `client.conf` it is none, because `section_credentials`
(`config.rs` 328) ignores such a section before `from_parts` could see half a
pair. The doc of `lookup_credentials` says so, and so do lines 104-105 of the same README:
both parts must be present for a section to count. Line 113 says otherwise.

"The scheme defaults to `https`, except for loopback hosts" (README 119).
`builder_httpd`: a server such as `httpd:9526` begins with "http" and parses as
a URL of scheme `httpd` (`config.rs` 196), so the base URL is `httpd://9526`, and
every request of that client is refused by the URL guard.

Three smaller ones have no run of their own. "An absolute URL or network-path
reference is rejected even when it happens to resolve to that origin or prefix"
(`client.rs` 507-509), but not behind a slash: `join` strips it before it resolves a
path against the base, and hands the whole path to `RELATIVE_GUARD` (`client.rs`
524). What the slash hides from the guard is taken if it names the client's own
host: "/https://host/openqa/api", and "/ //host/openqa/", where the blank is trimmed
once it is in front. Without their slash both are refused, so the slash is not
neutral there either (`README.md` 299-301). `SlashHides` sets these paths apart in
`PathsMeanOneThing`, which says that there are no others but those that name the
guard's own host; as an invariant of its own `PathsAreRelative` fails of them in
`MCOutgoing`. Nothing is sent to another place by this (`SentBelowBase`). `sign`
works on copies of URL and headers and `execute` on a borrowed request, so a caller
that looks at `prepared.url` afterwards sees the query it wrote, not the rewritten
one of `client.rs` 980-983 and `README.md` 354-357 (`Attempt` leaves `prepared`
unchanged). And the NaN of a zero backoff, above.

## What is proved

The first part of `ClientProofs` proves of `Execute`, with TLAPS, for every value of
the constants allowed by `PolicyAssumption` (`RetryPolicy`) and `ExecuteAssumption`
(`Execute`) - types, a multiplier of at least one as `validate` demands, GET safe
and POST not - and for calls of any length:

| Theorem | States | Inductive invariant |
|---|---|---|
| `TypeCorrect` | `[]TypeOK` | itself; it also fixes which outcomes go with which `pc` |
| `RequestsStayHome` | `[]OnlyGuardedUrls` | `GuardedHop`: between the guard and the end of a hop the current URL is a guarded one |
| `SleepsEndInTime`, `NothingSentLate` | `[]NeverSleepsThroughDeadline`, `SentInTime` | `DeadlineAccount`: `elapsed + budget = Deadline` |
| `WritesAtMostOnce`, `NothingLeftBehind` | `[]AtMostOnce`, `[]NoLateWrite` | `Tracked` and `WrittenOnce`, below |
| `CallKeepsContract` | `Contract!SafeSpec` | the same; each step is a step of the contract or a stutter |
| `RequestsAreBounded` | `[]SendsBounded` | `Counted`: requests of earlier hops and of this one, the latter tied to `attempt` |
| `ReplaysArePatient` | `[]RetryAfterHonoured` | `Patient`: what has passed and what is left of a sleep cover the header |
| `FailuresAreEarned` | `[]NoEarlySurrender` | `Persistent`: `Counted`, and why a replayable response settled |
| `RedirectsAreCoherent` | `[]CoherentRedirects` | `Carried`: the current request and everything on the wire |

*The argument for at-most-once.* `AtMostOnce` is not inductive: a state with the
write applied once and another copy on the wire satisfies it. `WrittenOnce` adds,
for a write that may not be replayed, that there is one copy on the wire at most
and none once it was applied (`OneCopy`), and that once it was applied the call
is in no position to send it again: it still waits, or has ended, or holds a
response behind which the write may have been applied (`NoReplay`). The last
case is where the code's decisions enter. Such a response is no backpressure, so
`status_retryable` is false for a method that is not retryable
(`RetryMeansRefused`); and if it is a redirect that is followed, the next method
is GET (`RedirectAfterWrite`). `Tracked` supplies that the packet of the awaited
attempt carries the current request, and that redirects turn methods only into
GET, so a write that was not replayable does not become so.

`PolicyLockProofs` proves, from `LockAssumption` (types of the constants), for
any set of calls and both kinds of panic allowed:

| Theorem | States | Inductive invariant |
|---|---|---|
| `TypeCorrect` | `[]TypeOK` | `ReplayLeft`: a call on its way to a replay has one left, else `Wake` could pass the limit |
| `GuardIsShort` | `[]NoGuardAcrossAwait` | `GuardInv`: who holds the guard is at a site, and a poisoned mutex is not held |
| `PoisonIsFinal` | `PoisonStopsReplays` | `GuardInv`, and `ResentInv`: after its one attempt on a poisoned mutex a call waits, is at a site that will panic, or has ended |
| `DrawsAreDistinct` | `[]JitterIsNotShared` | `DrawInv`: the generator is past every draw handed out |

`ResponseBodyProofs` proves, from `BodyAssumption` (the limits are naturals, a chunk
has at least one byte), for every length and every cut: `TypeCorrect`,
`BodiesAreBounded` (`[]BufferBounded`), `ReadersStopEarly` (`[]StopsEarly`),
`TextIsSafe` (`[]TextNeverFails`) and `ReaderKeepsContract` (`Contract!SafeSpec`).
The invariant adds that a running reader's buffer is exactly what it has
received (`Account`) and that a finished call has the expected outcome (`Settled`).
The limit test of `read_capped` then decides the length of the whole body: a
chunk that does not fit proves that more than `Limit` bytes arrive, and a body
that ends without one has at most `Limit`.

`BuilderProofs` proves, from `ServerAssumption` and `BuilderAssumption` (types of
the constants, `localhost` a loopback host), for every set of settings,
configurations and environments: `TypeCorrect`, `CredentialsAreWhole`
(`[]PairsAreWhole`), `TokensAreSafe` (`[]TokensStayPrivate`), `HmacIsUsable`, that a
client without a username can sign, `TransportsAreAsked` (`[]TransportIsAsAsked`)
and `DefaultServerIsKeyed` (`[]DefaultServerHasItsKeys`). The invariant says of each
check what holds from there on (`PairsTaken`, `TokenChecked`, `KeyChecked`; for the
HTTP client `TransportMatches`; for URL and credentials `Resolved`); that half a
pair in a tier below a complete one cannot slip through is `WholeTiers`.
`DefaultServerIsKeyed` follows the name of the first section through the scheme and
the port that a URL takes on and drops, to the names made of that URL: its header is
one of them (`OwnNameLookedFor`): the first if it has no scheme, else the second, which
counts if no section with both halves has the first (`PairFound`).

The second part of `ClientProofs` proves, from `ClientAssumption` and those of `Execute`:

| Theorem | States | Argument |
|---|---|---|
| `CallIsExecution` | a call is an execution with stutters | every step of `Client` is one of `Execute` or leaves it alone; the invariants of the first part carry over (`Inherited`) |
| `CallsWriteAtMostOnce`, `CallsStayHome` | `[]AtMostOnce`, `[]OnlyGuardedUrls` | `Inherited`; a dropped call sends nothing more |
| `ClientTypeCorrect` | `[]ClientTypeOK` | `Staged`: which stage goes with which state of the execution, and a result with its outcome |
| `ResultsAreFinal` | `ResultIsFinal` | behind a result that is not doubtful no copy of a write that is not replayable is left on the wire |
| `ResultsTrue` | `[]ResultsAreTrue` | `ReadSuccess`: an answer that is read as success comes from a server that has applied the write; `ForeignUnsent`: the first guard precedes the first attempt, and the redirect's own errors have other names |

`OutgoingProofs` proves, from `OutgoingAssumption` (types; the base URL and the URLs of
callers are parsed ones, so their paths are walked; a query is one of `QueryTexts`),
for every base URL, path, query and set of headers:

| Theorem | States | Argument |
|---|---|---|
| `SentBelowBase` | `[]StaysBelowBase` | `SentAsPrepared`: what is on the wire is the signed form of what is prepared now, and was guarded; a caller cannot edit a request that `execute` has borrowed |
| `HeadersRight` | `[]HeadersAreRight` | the same; `SchemesAreApart` and `HeadersAreKept` are its halves |
| `PathsAreWalked` | `[]DotsAreWalked` | `FromCall`, below, and `ResolveWalks` |
| `PathsAreUnambiguous` | `[]PathsMeanOneThing` | `FromCall` and `AcceptedLocal` |
| `QueriesKeepTheirMeaning` | `[]MeaningKept` | `CanonicalKeepsPairs` and `ParsedPairs` |
| `SignaturesVerify` | `[]ServerVerifies` | `CanonicalLikeServer`, twice: the server writes the query on the wire anew, and that changes nothing |
| `TypeCorrect`, `SignaturesReplaceStale` | `[]TypeOK`; stale signatures go | `SentAsPrepared` |

`FromCall` adds to `SentAsPrepared` that the prepared request is what `join` made of the
call's path, or has a URL that was parsed, and that its query is the call's. The rest is
about the operators, for every text:

- *Queries.* `DecodedIsServerDecoded`: the scan of `encode_canonical` from the left
  decodes what the positions say, by induction from the end of a text. What is
  decoded can be cut wherever no escape is cut (`DecodedApart`), so decoding takes
  back what encoding wrote, byte by byte (`DecodedEncoded`). Every query is one
  piece, or a query, an ampersand and a piece (`QueryInduction`); along that, `Split`
  finds the server's pieces (`PiecesLikeServer`) and what is written of pairs
  is read as those pairs (`PairsOfAllWritten`). `ParsedPairs` is the url crate's part: the
  escapes it adds are decoded again, and it makes no escape of a stray percent
  sign, since the bytes it escapes are no hex digits (`ParsedNoEscape`).
- *Paths.* `WalkWalked`: walking keeps a path free of dot segments, by induction
  over the segments. A cleaned reference is local or not (`Local`). A local one
  gives the base's origin and a path that depends on the base's path only
  (`ResolveLocal`); any other gives a host of its own tokens, whatever the base
  (`ResolveOther`). So a path that the guard's base keeps on the guard's host is
  local, or names that host (`ContributesLocal`); behind its slash it is local
  still, unless the slash hides something (`SlashLocal`).

`Induction` replaces the library's theorems whose parameter is an operator: what is
to be shown by induction becomes membership in a set (`SetInduction`,
`SetInductionTo`, `StrongInduction`, all from the well-foundedness of the order of
the natural numbers). A recursive function is the one function that satisfies its
equations, so each proof first shows that one does (`Recursion`, `RecursionOnNat`),
then that what `CHOOSE` picks agrees with it.

`BackoffProofs` proves, from `BackoffAssumption`, for every policy, validated or
not: `TypeCorrect`, `WaitsCapped` (`[]WaitsAreCapped`) and `HeadersHonoured`
(`[]WaitsAsAsked`); and for those that `build` accepted `CurveExponential`
(`[]CurveIsExponential`). The invariant of the latter adds that a policy stays what
it was when it was checked. `powi` on doubles is the integer power as long as that
is a double, and infinite from there on (`PowerIsExp`), since powers of at least one
never fall again; and where the exponent is capped, the power has overflowed
already, or the multiplier is one (`CappedExponent`). `TypeCorrect` has the
generator: for any width, shifts and seed it never reaches the zero word. A word
xored with itself shifted right keeps its highest bit, since a shift moves every bit
down, and shifted left its lowest; so no step of `next_u64` makes a word with a bit
into one without.

`ConfigLookupProofs` proves, from `LookupAssumption` (types of the constants, no tier
empty, no drop-in called "client.conf"; a directory may be in several tiers), for any
tiers, drop-ins and contents and for others who change files at any time:

| Theorem | States | Inductive invariant |
|---|---|---|
| `TypeCorrect` | `[]TypeOK` | itself: where `next` is |
| `FirstTierAlone` | `[]FirstTierWins` | `ScanInv`: the tiers before this one had nothing that stayed and was seen, all directories before `dir` were looked through, and only a client.conf ends a tier early |
| `StableFilesAreMerged` | `[]NothingStableIsLost` | `ReadInv`: of the files listed, those before `next` that nobody touched and every look saw were read |
| `MergesInOrder` | `[]MergedInOrder` | `OrderInv` (a listed file is of an earlier directory, or the client.conf of this one), `MergeInv` (the values of entries), `SectionInv` (no section comes of files without entries) |

What makes these provable against somebody who changes files, and against looks that
fail, is that "stable" only ever becomes false (`StableBefore`), so a step cannot add
to what is claimed. What `files.sort()` and the order of new sections give is stated by what
the result is (`InOrderOf`), not by how it is computed, and needs no induction.

*Only model-checked:* `GeneratorRuns` of `Backoff`. That no word is its own
successor is true of the real shifts and width and not of all, so it would take a
computation over 64 bits, which TLC's run does along the generator's path from two
seeds. Liveness under fairness (`EveryCallEnds`, `EveryRequestEnds`, the liveness
halves of both `KeepsContract`) is beyond the prover. Every invariant that a passing
run checks is stated by a theorem.

## Plan

The models cover the components listed above. What would add most from here:

1. Theorems: that `next_u64` maps no two words to one, so that the generator returns to its
   seed; how `NothingStableIsLost` and `DefaultServerIsKeyed` combine to a statement about
   files on disk.
2. `Client` over `PolicyLock`: two whole calls on clones. They share the mutex
   only, and `PolicyLock` leaves open what the policy answers, so this would add
   states and hardly behaviours.
3. `config_dirs_from_env`, which makes the tiers that `ConfigLookup` takes as a
   constant.

## Not modelled

The string tables of `consts.rs` and the functions that look a string up in them,
formatting and redaction (`Debug`, `Display`), logging: no state, no ordering, and
the unit tests compare every entry. Whether a TLS handshake succeeds is rustls's;
which roots and options the client hands it is in `Builder`. What `reqwest`,
`hyper`, `tokio`, `url` and the openQA server do inside is external and appears
only as the outcomes `ruoqa` sees. The bytes of a body and of a SHA-1 are not
modelled. `DefaultRng` is modelled in `Backoff`; elsewhere it is any source that
keeps the bound its trait documents.
