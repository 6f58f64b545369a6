# Aret in TLA+

Aret is a small news recommender. A crawler fills the Tera table WebTable with
pages. The page parser (`src/page_parser/ec.cc`) extracts keywords from them and
fills TagTable. An nginx 1.4.7 with the Aret module
(`src/nginx-1.4.7/src/aret/`) serves two locations: `/recommend`, a list of
links chosen from TagTable by the user's profile and a rotating cursor, and
`/view`, a page, the viewing of which is recorded in the profile (a row of
WebUserTable). nginx is part of the repository; most of the code is its own.

The project has three layers: Aret's components, with proofs; the parts of nginx
under every Aret request (connections, event loop, processes, timers, locks),
partly with proofs; and further parts of nginx that a server in front of Aret
uses (balancers, upstream requests, caches, resolver, mail proxy, configuration
structures, filters), model-checked.

## Modules

Aret:

| Module | Code | State and actions |
|---|---|---|
| RecordActions | `ReEngine::RecordActions` | `userTable[t]` is the column `tag:t`; one step per table call of a worker; `WrapInt` is the C++ int; `seen`, `history` record what was asked for |
| ViewCounter | (abstract) | a view takes effect at one instant and completely |
| Recommend | `GetRecommend`, `GetUrlForTag`, `RandomRecommend`, `Mutex` | `last_rand`, the mutex, the result vectors of each caller; one step per table call; the parser adds rows meanwhile |
| PageParser | `main` of `ec.cc` | cursor, slice and record of each parser; one step per table call; crawler and kills are actions |
| HttpRequest | content handlers, `ngx_http_request.c`, header and write filter, special responses, worker exit | one record per connection; an event handler with all it calls is one step; functions are operators from a connection to the set of its possible results |

Under every request:

| Module | Code |
|---|---|
| EventLoop | `ngx_process_events_and_timers`, accept mutex, `ngx_event_accept`, connection pool, posted events, epoll |
| ProcessCycle | master loop, table of children, channels, signals, deaths, reload, quit, terminate |
| Timers, RbTree | `ngx_event_timer`, `ngx_rbtree`, with a clock that wraps around |
| Shmtx | `ngx_shmtx` with atomic operations and a semaphore, one step per atomic access |
| EventMethods | select, poll, kqueue, /dev/poll, event ports, rtsig |
| Output | output chain, copy filter, write filter, the send chains of five systems |
| HttpParse, RequestHeader | the parsers of `ngx_http_parse.c`; reading in pieces, large buffers, pipelining, virtual hosts |

Beside Aret:

| Module | Code |
|---|---|
| Peers, Balance | round robin, least_conn, ip_hash, backup groups |
| Upstream | `ngx_http_upstream.c`, `ngx_event_connect.c`, keepalive connections |
| FileCache, OpenFiles | response cache, cache of open files |
| Resolver | `ngx_resolver.c` |
| MailSession, MailProxy | `src/mail` |
| Script | script engine, rewrite module, indexed variables |
| Locations | location trees, phases, redirections, try_files, error pages |
| ServerNames | listen directives, server name hashes, choice of the server |
| Networks | address texts, radix trees, geo, realip, access rules |
| Filters | conditional requests, headers, ranges, chunks, choice of a coding |

The MC modules instantiate these. MCAret, MCReading and MCServers are sums: the
variable `focus` names the component a behaviour is about, and the variables of
the others stay "off" (or as they are). A sum asks each component's own
questions in one run; it composes nothing. MCAret is HttpRequest with instances of
Recommend and PageParser, MCUpstream is RecordActions with one of Upstream. Components do interact inside the modules: crawler
and parsers over the same tables in PageParser, parser and callers in Recommend,
handlers, filters, timers and worker exit in HttpRequest, workers, kernel and
accept mutex in EventLoop, requests, balancer and connection cache in Upstream
(which extends Peers).

An operator whose comment says `Mutant:`, or that stands before a definition under
a similar name and is used nowhere, is a deliberately wrong variant of that
definition: with it in its place the property it is meant for fails.

## Runs

| Run | Instance | Shows |
|---|---|---|
| shared_state | RecordActions: 2 workers, 3 calls, all faults, `IntMax` 2. Upstream: 2 requests | RecordActions implements ViewCounter while calls neither overlap nor fail, no step forgets a tag; an upstream connection has exactly one owner, requests end |
| recommend_sweep | 2 callers, 5 keys, a profile with a wrapped counter | result vectors parallel; a sweep passes over no row; every visible row is shown again and again |
| parser_crash | 1 parser, 2 runs, 2 rows of 2 versions, kills, failing scans and writes | links of TagTable resolve, tags are indexed; no version of a page is lost; runs end |
| aret_instances | 1 caller with wrapped counters (in one profile to a sum of zero) and failing scans; 2 parsers, an unwanted row, charset marks; 2 connections with all faults | labels follow the rows they are shown with; complete runs of the parser; whole responses |
| process_cycle | five configurations of up to 2 workers and the cache processes, with up to 3 signals or 3 faults; two let a crash and failing starts meet | no child is forgotten; TERM ends everything, unless the master counts a child where none is left |
| event_loop | 2 workers, 2 connections each, 2 clients | no event reaches the next user of a connection; every arriving connection is accepted |
| shmtx_zone | 3 processes, 4 rounds, 1 death | mutual exclusion; while nobody has died no wake-up is lost, some waiter gets the lock whenever one waits, and all do once callers stop coming |
| timers | trees of 10 nodes, clock modulo 22 | the tree stays balanced in every rebalancing case, timers fire neither early nor late |
| reading | 8 components | requests understood however they are split; the mail proxy asks what the client said and relays what is sent; peers get their weights' shares while no attempt fails; no name lookup is stranded but by what an alias does to it; cache nodes and descriptors have their owners; output flows; no event is lost |
| servers | 5 components | scripts mean their directives and fit their buffers in all but two cases; location, server and network are those the rules name; access is checked before content; urls and entities are read as written |

Two runs end in a counterexample, each a disagreement between the code and what
the repository says (see `findings` in `PROJECT.json`):

- **record_lost**: two overlapping views, one is lost, no failure involved.
- **http_cut**: the buffer holds `err + content` but is cut to `content.size()`
  bytes, so a page loses its end by the length of the debugging text.

**Bounds.** `IntMax` 2 puts overflow within three calls. The keys of TagTable hold
a keyword that is a prefix of another, one with dashes, and one beyond `"~"`;
`Num` 4, `Top` 2, `Cap` 2 stand for 10, 5, 2 and keep the case of more tags than
`Top`. In HttpRequest a body of 2 units and `Postpone` 3 give postponed headers
and writes that stop in the header, after it and in the body. In EventLoop two
connections with two clients let a structure be freed and taken again within a
batch. `Wrap` 22 and a start at 18 put the clock's wrap between any two timers, and the ten nodes are enough for every case of insertion and deletion. `OffWidth` 8 stands for the 64 bits of an off_t, so that ranges of 127 and 128 lie on both sides of its limit. `maxFaults` and `faults` of a configuration of ProcessCycle bound what fails in one behaviour.
Scaled numbers of nginx: `MaxUriChanges` 3 (10), `BaseEntries` 1 (100000),
`Preallocated` 1 (6), keepalive and cache sizes of one or two. EventMethods was
also checked by hand with 3 descriptors and 7 handled events (579625 states).

**Deadlock** is not checked where the system may stop: a worker that has exited,
a batch job that has ended, a bounded number of signals or clients. It is checked
in recommend_sweep and event_loop.

**Fairness.** Recommend: a call that has the mutex goes on, and requests keep
coming. PageParser: a running process runs. EventLoop: a worker's loop runs, and
the timer of an accept put off fires after some turns (strong, because it is
enabled only where the loop looks at its timers, and a turn may come too early). ProcessCycle: children run
their loops, the master's timer fires. Shmtx: a process that is alive steps.
Upstream: the loop runs handlers, a timer that is set again and again fires at
some time, the resolver answers or times out. Nothing is assumed of clients and
servers.

**Symmetry** is used where only safety is checked, on parsers and workers, which no
definition tells apart.

## Proofs

Every theorem holds for all values of the constants that satisfy the named
assumptions, with any number of processes, rows, connections or bytes. TLC
checked the inductive invariants on small instances before they were proved.

**RecordActions** (`RecordActionsProofs`): type correctness; `ProfileNeverInflated`
by `CopiesBounded` (a worker's copy of the row is bounded by what was asked for,
too); `SerialCallsExact` by `SerialCopies` (while the history is serial at most
one worker records, and its copy is the row); `InterestNeverForgotten` when a
write merges cells; and `ImplementsCounter`, the refinement of ViewCounter step by
step, from `SerialCopies`.

**Recommend** (`RecommendProofs`, `RecommendLists`). `SweepInv`: the mutex keeps
`last_rand` still between a scan and the loop over its slice, a slice has no gap
up to its last row, the table is in order and only grows. It gives
`NothingPassedOver` and `NoneRepeated`. `ListsInv`: every tag still planned may add
`Cap` rows, and `Top * Cap <= Num` (in the code 5 * 2 <= 10); it gives
`ListsParallel` and `RowsLabelled`: the label of a row given in turn is the whole keyword of
its key, that of a row picked by tag is what the cut at dashes leaves of the tag
(`LabelOf` says what that is, so that a tag with two dashes or a leading one is shown shortened). The CHOOSE that cuts a slice at `Cap` rows needs
a well-ordering lemma.

**PageParser** (`PageParserProofs`, `PageTags`). `PagesInv`: the oldest version of a
page never changes, a record that a parser holds is not ahead of its row, and a
parser that writes tags has the keywords of the oldest version. It gives
`LinksAlwaysResolve` and `NoVersionLost`. `IndexInv`: tags of rows and of records
are indexed, no row of TagTable is newer than every parser's clock, and only two
parsers in the same microsecond clash. It gives `TagsAlwaysIndexed`. `CoverInv`
accounts for cursor and slice: every row visited is complete or is being written;
it gives `RunsComplete`.

**Shmtx** (`ShmtxProofs`): `Exclusion` by ownership of the lock word; `Wakeups` by a
count: every process that counted itself as waiting is matched by a unit of the
wait counter, of the semaphore, or by a process that is about to post.

**EventLoop** (`EventLoopProofs`). `LoopInv` holds per worker that descriptor, free
list and queue of idle connections agree about every connection (`PoolInv`); that
the instance bit of a structure equals the one in a batch's event until the
structure is taken again, and differs after it was taken once (`BatchInv`); and
that accept events are queued only under the accept mutex (`Covers`). It gives
`NoHandlerMisfires`, `PoolStaysConsistent`, `MutexCoversAccepts`. Two facts the
proof needed and the code shows: the one bit tells apart a structure that was
taken once in a batch, not twice; and while a worker waits in epoll for accept
events it holds the mutex even after an earlier EMFILE.

**HttpRequest** (`HttpRequestProofs`). What went out and what waits are one stream,
`wire \o out`, that only grows at its end; `SendChain` moves the border. Handlers
and error pages add one header and one body to it (`Outcome`, `Handled`);
finalization ends a request only when nothing waits. `HttpInv` states this for
every connection together with its timers. It gives `ResponsesComplete`,
`OneHeader`, `EveryWaitTimed`, `GracefulExit` (from the timers and the guard of
the worker's cycle) and `RequestsBounded`. The hypothesis `Settings` says that
sizes are numbers, `keepalive_requests` is at least 1 and a header is shorter than
`postpone_output` (`Postpone >= 2`), as with the default of 1460 bytes. Without
the last one `ResponseComplete` fails, which TLC shows for `Postpone` 1: the
handlers return on `NGX_AGAIN` from the header and never send the body. The proof
also showed that only the error page after a HEAD header leaves output delayed
without a timer, and there nothing is buffered and the connection is not kept.

Theorems about properties that no run lists (`NoPhantomViews`, `SerialViewsExact`,
`NoRepeatInSweep`, `PoolConsistent`, `PostedAreOpen`,
`AcceptUnderMutex`, `WaitsAreTimed`, `ExitDropsNothing`, `HeaderOnce`, `TypeOK`)
need no run; they were model-checked on the instances of the runs beforehand.
`LabelsFollowRows` and `RunComplete` are checked by aret_instances on its instances.

Assumptions are the named ASSUMEs of RecordActions, Recommend, PageParser, Shmtx and
EventLoop, and `Settings`.

**Only model-checked:** all liveness (`EveryRowShown`, `RunsEnd`, `TerminateEnds`,
`BacklogDrained`, `LockGranted`, `RequestsEnd`), since fairness and ENABLED are
beyond the prover; `NoChildForgotten`, whose model folds over the table of
children; everything about trees, texts and compiled structures (Timers and the
modules of the runs reading and servers), whose operators are recursive, so that
their results need induction over data; and `ConnectionsOwned`.

## What the models show of the code

Behaviour that the models keep, with what the properties except because of it:

- Networks: a geo range below all others of its 64K block is appended at its end, so
  that a later nested range can be shadowed (`GeoByRule` speaks of ranges written
  in order, as `InOrder` says); removing ranges steps unaligned; ranges that reach 255.255.* wrap;
  an emptied block keeps a dangling pointer; the binary base is made even after a
  bad line, loses default and proxy lines, and an edit in the same second is not
  noticed (`raced`; `GeoByRule` judges neither it nor blocks with such lines, which are not `plain`, nor the clients of a unix socket). geo reads a unix path as an address; `1::2:` is an address; a leading
  separator makes X-Forwarded-For unreadable.
- Locations: a prefix location inside a regex location is never matched; `^~` of a
  nested location does not stop the outer regexes; the access code of an
  unfinished `satisfy any` outlives an internal redirect (it denies); try_files
  cuts a trailing "/" off its last parameter.
- ServerNames: ".a" after "*.a" is logged as ignored and still reserves "a"; ".a"
  after "a" is ignored as a whole.
- RecordActions: a write after a failed read starts its counters from nothing.
  `InterestKept` says that no tag is forgotten, not that a counter is not set back;
  counters are exact only while calls neither overlap nor fail.
- Recommend: the cut that is meant for row keys shortens tags with dashes, too.
- HttpRequest: `ResponseComplete` leaves out HEAD, after which an error page may follow
  a header.
- ProcessCycle: `live` is set after a new generation was started, whether or not a
  fork succeeded, so a master can wait for the death of a child it does not have
  (`Deluded`, excepted in `TerminateEnds`).
- Shmtx: a newcomer may take the lock before a woken waiter, so nothing bounds how often
  one waiter is passed over while callers keep coming; a process that dies after it
  was woken takes the wake-up with it (both liveness properties leave deaths out).
- Peers: how failures lower effective weights and successes raise them again is
  modelled; `SharesFollowWeights` judges histories without a failure only.
- Script: `is_args` is not reset at the end of a rewrite, so a later capture can be
  escaped although its length was computed without (`stale`); and the estimate for
  a replacement without variables counts an escaped character once though it is in two
  nested captures. `RoomSuffices` says that nothing else overruns a buffer;
  `CodesMeanDirectives` leaves out what these two spill.
- Output: EINTR goes on without resetting `send` (`interrupted`); a file cut at the
  sendfile limit leaves last_buf on its first part.
- EventMethods: event ports drop the interest after a report;
  `ngx_handle_read_event` deletes an active unready oneshot event.
- Resolver: when a name turns out to be an alias, `ngx_resolver_process_a` takes the
  contexts behind the first along to the target's node, their names unchanged, if the
  query for the target is sent (`moved`); otherwise they are in no list, nor is the
  first if that query fails (`lost`): both are excepted in `NothingStranded`. A context
  that joins a lookup has no timer of its own; an unexpected type spoils the answers
  after it; a failed connect of the UDP socket leaves a half-open connection.
- FileCache: the second allocation does not look the key up again; the size drifts;
  an update clears `updating` even if another request set it; it is done whether or not
  the rename and the look at the new file succeeded, with a size of 0 if not.
- MailSession, MailProxy: "Auth-Wait" with APOP or CRAM-MD5 asks again without a
  password (`crashed`); a literal of length 0 takes one character; pipelined
  commands are dropped; the relay ends when the client closes although bytes of
  the server are buffered.
- Filters: a suffix range longer than the entity has a negative start, and gives the
  whole entity because the test of the total length declines it; the numbers of a range and their sum are off_t that
  nothing checks, and once the sum has wrapped the test of the total length rejects
  nothing (`ClientReadsEntity` judges requests that are `Countable`).
- Upstream: a TLS handshake on a connection that was established at once has no
  timer; a server that answers before it has the request may leave the request
  untimed (`Untimed`, excepted in `RequestsEnd`).

## Not modelled

Tera, pk and the crawler beyond their use (external): whether a write merges
cells is the constant `MergeWrite`, whether an empty scan fails is
`EmptyScanFails`. Location configuration of the Aret module, `parse_args`, `GetHtml`;
the sample and the script of `page_parser`. Of nginx: request bodies, TLS and
SPDY, subrequests, aio of the event loop, the processes of a new binary, configuration parser,
the protocols of upstream servers (proxy, FastCGI, SCGI, uwsgi, memcached), SSI,
mp4, dav, image and xslt filters, request and connection limits, pools and slabs,
logging. Regular expressions are external: a prefix with
captures, side by side or nested, in Script, a suffix in Locations. How zlib streams through buffers, charsets and the length
pass of the header filter are left out of Filters; vnode, AIO and timer events out
of EventMethods; TCP_CORK, failing reads and truncated files out of Output;
disable_symlinks and vnode events out of OpenFiles; the format of cache files out
of FileCache; SSL sessions per peer out of Peers; address families and socket
options out of ServerNames.
