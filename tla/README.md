# A TLA+ model of mbed TLS for NewtonOS

This directory holds TLA+ specifications of the NewtonOS port of mbed TLS: what
the port adds around the mbedtls library so that NewtonScript programs and
communication endpoints can use it. The library itself is a submodule that is
not part of the repository; it appears here as environment, by what the port's
code gives it and expects back.

Contents

1. The system: components, state, interactions, hard behaviours
2. Modules, and how they correspond to the code
3. Runs: what TLC checks, bounds, fairness
4. Proofs
5. Assumptions about code that is not in the repository
6. Findings and observations
7. What is not modelled
8. Plan

## 1. The system

| Component | Code | State | Operations |
|---|---|---|---|
| TLS connection end | `Protocol/PMbedTLSConnectionEnd.cpp` | flags `mSSLEnabled`, `mUpgradable`, `mSSLConfigured`, `mEstablished`, `mClosing`, `mPeerClosed`; send buffers `mSendBuffer`, `mPutDataBuffer`; receive buffers `mGetDataBuffer`, `mSSLRecvBuffer`; the client's read buffer `mSSLReadBuffer`; pending flags and sticky errors | the `...Start` requests of the client, the `...CB` completions of NIE, `HandleRequest` for TLS events, the send/receive/timer callbacks of mbedtls |
| Low-level bindings | `Protocol/PMbedTLS.cpp`, `NTKModule/mbedTLSInterface.cpp` | C structures behind NewtonScript binaries, the locks of binaries in use, the weak array `mPointers`, NewtonScript callbacks in RefStructs | about a hundred native functions, the destructors, the callbacks |
| Package | `NTK Projects/mbedTLS.f`, `Common/PMbedTLSInterface.cpp`, `PMbedTLS::InstallConnectionEnd`, `RemoveConnectionEnd` | the class registry, two names in the name server, the slot `connectionEndInstalled` | install and remove scripts, `ImportDisabled`, a procrastinated call |
| Entropy collector | `NTK Projects/mbedTLS.f` | pen samples, `prefs.entropy`, `prefs.nvSeed` and the soup entry behind them, the delayed-send chain | tick, pause, resume, rate, `GetEntropyData`, `NVSeedRead/Write` |
| Newt task services | `Protocol/NewtonBindings.cpp`, `Protocol/mbedTLSEvents.cpp` | events in the Newt task's port, callers that wait | seven services, called directly in the Newt task and by RPC elsewhere |
| Options and root certificates | `PMbedTLSConnectionEnd.cpp`, `PMbedTLS.cpp` | hostname, verify mode, CA chain and its heap, the two certificate soups | options, `SSLConfigure`, `ListRootCertificates`, `GetRootCertificate` |
| Timer | `PMbedTLSConnectionEnd.cpp` | two deadlines of 32-bit milliseconds | the set and get callbacks of mbedtls, the tick of the tool |
| Event handler proxy | `Protocol/TAEventHandlerProxy.*` | an object the ROM can use, with a pointer to the C++ object | construction, delivery, destruction by either side |
| Calendar | `NewtonBindings.cpp` | none | `mbedtls_platform_gmtime_r`, `TimeToLocal1904Minutes` |

How they interact. An endpoint asks NIE (the Newton Internet Enabler) for a
connection end named `PInetToolCE`; the package has put its own class in that
place and keeps NIE's class info to create the real one behind it. The TLS
connection end then sits between two asynchronous partners. The client calls
`ConnectStart`, `PutBytesStart` and so on and is answered through
`mInetCECallBack`; NIE is called the same way and answers through the `...CB`
methods, either inside the call or later from the tool task's event loop.
mbedtls is a synchronous library: it pulls bytes through `SSLRecvCallback`, which
says "want read" when NIE has none, and the connection end has to run mbedtls
again when NIE's answer comes, by posting a TLS event to its own port. While it
is configured, mbedtls needs entropy, a seed, the time zone and the root
certificates from NewtonScript, which runs in another task: the services send an
event there and block until the reply. Independently, NewtonScript programs can
drive mbedtls through the bindings, with structures that are freed by the
garbage collector.

What is hard. The asynchrony between three parties (client, NIE, mbedtls) with
re-entrant completions; wake-ups that can be lost; buffers shared with NIE that
are deleted on Close; flags that must be reset for the next connection or the
next use (upgrade of a clear connection); failures in the middle (a failed Put,
a rejected certificate, a failed registration, an exception in a handler);
packages that come and go in any order; resets of the device between two writes;
a garbage collector that runs between any two steps.

What makes each part correct:

- **sending**: what mbedtls writes reaches NIE once, in order, and never stalls;
- **receiving**: mbedtls gets the peer's bytes once, in order, and a wait always
  has a wake-up behind it;
- **connection end**: every request of the client is answered once, a new
  connection finds nothing of an old one, nothing refers to freed buffers,
  decrypted bytes are not lost, clear and TLS transfers do not mix;
- **bindings**: no structure is freed twice or used after it was freed, and no
  destructor outlives the package, but for the cases section 6 lists;
- **package**: NIE gets its connection end back, ours never outlives its code;
- **entropy**: no entropy is used twice, collection does not die silently;
- **services**: every call ends, and a handler writes only to the memory of a
  task that waits;
- **trust**: a root that the user disabled is not trusted, authorities of the client
  replace the roots, the certificate is checked against the name the client gave, and
  the task is not left in the heap of the roots;
- **native calls**: what mbedtls has a pointer to does not move, and no lock
  outlives its call;
- **certificates, dates, timers, handlers**: each function computes what its
  interface says, at the edges too.

`PROJECT.json` lists the hazards in detail, each at its line, with the
properties that cover it.

## 2. Modules

| Module | Models | Notes |
|---|---|---|
| `ByteStream` | (abstract) a reliable byte stream | what either direction promises |
| `TransportLink` | the two variables both directions share | |
| `SendPath` | `SSLSendCallback`, `PutCompleteCB`, the send part of `SSLConfigure`/`SSLUnconfigure` | refines `ByteStream` |
| `RecvPath` | `SSLRecvCallback`, `GetCompleteCB`, TLS events, the receive part of `SSLConfigure`/`SSLUnconfigure` | refines `ByteStream` |
| `ConnectionEnd` | the whole connection end with its client | composes `SendPath` and `RecvPath` on shared variables; checked to drive both as they specify |
| `Trust` | hostname, verify-mode and CA options, `SSLConfigure` step by step, `ListRootCertificates`, `GetRootCertificate` | with a user who edits the soup between the RPCs |
| `SSLTimer` | the timer callbacks, `HandleTimerTick` | on a wrapping clock |
| `CObjects` | the bindings, as far as the life of structures goes | with the garbage collector |
| `NativeCalls` | the bindings as calls: locks, callbacks, exceptions | one row per binding |
| `X509Chain` | certificates by index; the peer-certificate option | |
| `Calendar` | the two date conversions, `GetGMTDelta` | pure, against a reference calendar |
| `HandlerProxy` | `TAEventHandlerProxy` on both object layouts | |
| `Packaging` | package scripts, singleton, class registration | with NIE coming and going |
| `Entropy` | the entropy collector and its persistent state | with resets and store failures |
| `NewtServices` | the RPC services | extends `Entropy`, whose operations two of the services are |
| `SendPathProofs`, `RecvPathProofs` | theorems about the two halves | each extends its half |
| `ConnectionEndProofs` | theorems about the connection end | takes the theorems of the two halves over by `INSTANCE` |
| `CObjectsProofs`, `PackagingProofs`, `ServicesProofs`, `TrustProofs` | theorems about these components | `ServicesProofs` is also about `Entropy` |
| `LibraryProofs` | theorems about `NativeCalls`, `X509Chain`, `Calendar`, `SSLTimer` and `HandlerProxy` | |
| `MC...` | instances for TLC | `MCTransport` runs the two halves, `MCNewtTask` `Packaging` and `NewtServices`, `MCLibrary` the five small modules, each behaviour being one of one part |

### Sending and receiving

Bytes are numbered in the order they were written, so that loss, duplication and
reordering show as a wrong number. `CBufferList`s are sequences of bytes; the
code always moves all segments of `mSendBuffer` at once, so segments need not be
told apart. `putPosition` is the read position of `mPutDataBuffer`, which NIE
advances (`AtEOF` in the code).

In `SendPath` a step is a whole call of `SSLSendCallback` or `PutCompleteCB`:
`PutBytesStart` of NIE is the last thing each does to this state, so an answer
given inside it and one given later are the same step.

`RecvPath` cannot do that: `GetBytesImmediateStart` may answer inside the call,
and `SSLRecvCallback` goes on after it. `recvPc` is the place in the code
(`"fetch"`: `SSLRecvCallback` is called; `"inner"`: in NIE's call; `"copy"`:
after it). mbedtls is represented by what it misses (`want`) and what the last
fetch returned. When less than the buffer is copied, the code's `BlockMove`
(line 1443) starts at the wrong place: `RestOfBuffer` models this by garbage
bytes, and `NeverOverfetch` is the reason why it never shows.

### The connection end

One action per request, per completion and per step of mbedtls. `ctl` says which
mbedtls call the tool task is in. `pending[r]` counts the client's requests minus
the completions it got: it is an integer so that an answer to no request shows
as -1. mbedtls' handshake is "send a flight, fetch `HsRecords` records"; a read
fetches records, each with 0 or more bytes of application data.

The client follows the endpoint rules: one control request at a time; one Put
and one Get at a time; no transfer outstanding when it upgrades (as the STARTTLS
test does); it may close at any time. Requests the code only forwards are one
action with the request as a parameter (`ForwardOps`).

### Trust

In `ConnectionEnd` `SSLConfigure` is one step that succeeds or fails. `Trust` opens
it: seed the generator, switch to the heap of the roots, ask for the size of the
list, ask for the list, ask for each certificate (again with a larger buffer when
it did not fit), switch back, finish. `pc` is the place. Each RPC is a step, so the
user may edit the union soup between any two. An entry is a tag, a trust flag and
a size; a list is the sequence of tags that fit into the buffer, and `torn` says
that the last one was cut off, in which case the memory behind the buffer decides
what name the code reads (`TornName`: any, or none). `CursorStep` is the argument of
`CursorMove` in the second loop of `ListRootCertificates`, `MAKEINT(1)`, as the number
it is.

`SSLConfigure` may run again on an instance that is configured or was: `ConnectStart`
does not look (lines 212-214). The ssl context and the CA chain live as long as the
instance. So the chain is only added to, and `mbedtls_ssl_set_hostname` is called only
when there is a name (line 1566): without one the context keeps what it has. Only
`Delete` empties both. An exception in `ListRootCertificates` comes back as its data
(line 343): a negative one ends `SSLConfigure`, a positive one is taken for the size of
the list (`ListMistaken`, with the sizes in `WrongSizes`).

`history` is what the properties remember: the name given since the last configuration
and the one before, what was in the chain and what was loaded, which tags were disabled or
overridden during all of the loading, and which of the documented exceptions happened.

### The bindings

`CObjects`: an element of `Obj` names a NewtonScript binary and the C structure
allocated for it. `ptr`, `dtor` and `mem` are the binary's two fields and the state of
the memory; `links` are pointers mbedtls keeps from one structure to another;
`callbacks` are the NewtonScript functions in RefStructs, as the objects their
closures refer to. Binaries for structures that mbedtls owns (`SSLGetPeerCert`,
the SNI and verify callbacks) have a destructor that does nothing. They point to the
running ssl context, to a certificate of the CA chain, or to a certificate of the peer,
which belongs to the session: it is memory of its own (`mem` is `"lent"`, and `links` has
its lender) and is freed with the context, by `SSLSessionReset`, or when a handshake or a
renegotiation replaces the session (`"ended"`). An allocation throws on a full heap at
two places: at `AllocateCObjectBinary`, when the structure exists and has no binary
(`"orphan"`), and at `AddArraySlot` (line 2150), when the binary has its pointer and its
destructor and no slot. `threw` remembers both; thrown in a callback of mbedtls, it
unwinds the call. `stack` holds the ssl contexts of the mbedtls calls in
progress, since callbacks may use any binding again.

`NativeCalls`: a binding is a row: whether it converts an argument before it locks,
what it locks in which order (the nested `WITH_...` macros), what happens under the
locks (nothing that throws, a conversion, a call of mbedtls that may call back,
`ThrowMsg("Unimplemented")`) and whether `CastOrThrowError` converts the result. The
rows follow the code also where it is odd: `SSLSetSession` locks its context twice,
`SSLConfRng` locks nil. The trampolines of the native module are the `Call` actions. A
frame holds the addresses given to mbedtls; the collector moves what is not locked;
an exception passes frame after frame.

`X509Chain` walks node by node, so that the end of the list and the end of the index
can meet in any order; an accessor throws when a name or number is too long for its buffer. `Calendar` keeps the code's arithmetic with its 32-bit width
(a number is a pair of 16-bit halves, since TLC's integers are 32-bit themselves);
an uninitialized offset is a choice from `Garbage`. Its clock counts from 1 January 1904,
24 107 days before 1970, and not from the constant the code uses. `SSLTimer` has `Wrap` for 2^32.
`HandlerProxy` has the words of the object in the layout of either system and lets the
Gestalt call fail.

### Package, entropy, services

`Packaging`: a call of `InstallConnectionEnd` is a set of possible outcomes, one per
early return, and each is chosen when the corresponding registration fails.
`failed` remembers which did, so that properties can say what holds in spite of
it.

`Entropy`: a sample of the pen is a number; `prefs.entropy` is the sequence of
samples packed in it. `soup` is what a reset would read back.

`NewtServices`: `port` is the Newt task's queue, `waiting` what each task waits for.
Handlers of four of the services let NewtonScript exceptions through and do not
reply then (`AEHandlerProcThrows`).

## 3. Runs

| Run | What it shows | Distinct states |
|---|---|---|
| `transport` | Each half on its own. Sending: nothing stranded, silent after a failure, every byte taken. Receiving: never more asked than missing, no lost wake-up, waits end. Both implement `ByteStream` | 10 262 |
| `ce_connect` | SSL connections, two in a row on one instance or on two, with failures of configuration, handshake and receiving: requests answered once, decrypted bytes conserved, fresh state, no dead session run again, every Connect and every Get answered | 735 338 |
| `ce_faults` | Clear connections, upgrades and SSL connections with every failure, closing at any moment: nothing dangling, clear and TLS never mix, both halves driven as specified | 358 493 |
| `ce_upgrade_rejected` | violation, see 6 | |
| `ce_put_failure` | violation, see 6 | |
| `ce_clear_then_tls` | violation, see 6 | |
| `objects` | No double free, no destructor after the package and nothing left when it goes but where an allocation threw; no pointer into freed memory, for clients that keep what they link, but to certificates of a session that is over | 755 398 |
| `newt_task` | NIE restored, our class only with our code and NIE, saved class info never stale, TLS becomes available; entropy used once, collector alive, handlers write only for waiting tasks, calls end | 393 052 |
| `trust` | No root but those kept and those loaded, none of the latter disabled or overridden; the client's authorities replace the roots, the right name, the heap given back, loading ends | 851 795 |
| `roots_added` | violation, see 6 | |
| `roots_disabled` | violation, see 6 | |
| `library_calls` | Pointers pinned and locks balanced; certificates by index; dates; timers; event handlers | 227 073 |

### Bounds

- `transport`: 5 bytes in chunks of 1 or 2 one way: a batch goes out, another piles up
  behind it, a third starts while the second is put, and NIE takes parts of each.
  4 bytes, fetched by up to 3, the other way: a fetch is answered in up to three
  parts, inside the call and later.
- `ce_*`: a handshake of one record and two flights needs 2 or 3 bytes each way; one
  more record carries data, and `MaxWritten` keeps room for a close_notify. Two
  connections suffice for what one leaves to the next. Gets of up to 2 bytes with
  thresholds 0 and 2 make a Get that is completed by two records. `Uses` and
  `Faults` select the environment: a run with all uses, all faults, reuse and big
  Gets at once is out of reach, so `ce_connect` has the long SSL-only behaviours and
  `ce_faults` the mixed ones.
- `objects`: three objects, one initial slot in the weak array (10 in the code), so
  that both reuse and growth happen, and growth throws; nested calls of depth 1; objects
  are symmetric. A behaviour is one of three clients: one that builds what a server needs
  (`"server"`: fewer kinds, callbacks), one that uses every kind of structure and
  the other callbacks (`"all"`), or one that verifies against a CA chain (`"verifier"`:
  a context, a configuration, its chain and a fourth binary for what the callback sees).
- `newt_task`: a behaviour is one of packages or one of services and entropy. Packages:
  no bound but on lost singletons. Services: 4 samples, batches of 3 (64 in the code) that leave an odd
  sample, requests of 1 byte, 2 tool tasks, three services, one of each sort:
  changing entropy, changing the seed, guarded against exceptions.
- `trust`: two built-in roots, two tags the user may add (one overrides a built-in, the
  other is longer), certificates of two sizes, one of them empty; two edits, so that
  an entry can appear between the size and the list, or change between two calls for
  the same certificate; two connections of one instance, each configured any number of
  times. A behaviour has either names or edits (`scenario`): the two meet only in that both
  belong to `SSLConfigure`, and the proofs are about behaviours with both.
- `roots_added`: two entries of the user: with one the step of the cursor does not show.
- `roots_disabled`: one edit between two configurations, and nothing fails.
- `library_calls`: three native calls inside each other, one C object and two plain
  binaries, which may be the same argument twice; chains of up to 3, indices from -2
  to 4; every day of 2^32 seconds in a zone east and one west of Greenwich; a
  clock that wraps after 16; three handlers on both systems.

Deadlock is checked, except where everything may end: `objects` (all objects used),
`newt_task` (bounds reached), `library_calls` (the calendar is at
its last day).

### Fairness

- `SendFairness`: NIE, while it is up, goes on taking bytes from the buffer it holds and
  completes the Put. Nothing in the port could make progress otherwise.
- `RecvFairness`: the tool task runs to its next wait; its event loop handles a posted
  TLS event; NIE answers a Get when it has bytes or knows the stream is over.
- `CEFairSpec`: the same, plus NIE answers control requests, and the peer does not stay
  silent for ever. The last is needed: the code sets no timeout on a stream, so a
  silent peer is waited for without end. The client is under no fairness.
- `PkgFairSpec`: scheduled calls run.
- `SvcFairSpec`: the Newt task's event loop takes events from its port. The callers and
  the collector are under no fairness.
- `TrustFairSpec`: the tool task runs on in `SSLConfigure` and its RPCs are answered
  (`NewtServices` is about when they are). The user and the client are under no fairness.

## 4. Proofs

Every theorem holds for all values of the constants that satisfy the assumptions
named in the modules (`SendBounds`, `RecvBounds`, `CEConstants`, `ObjectAssumption`,
`PackagingAssumption`, `CallsAssumption`, `ChainAssumption`, `CalendarAssumption`,
`TimerAssumption`, `ProxyAssumption`, `EntropyAssumption`, `ServicesAssumption`,
`TrustAssumption`): they say that bounds are numbers, that sets of uses, faults and
services are among those the model knows, that special values differ from ordinary ones,
and that `LastDay` is at most the last day 32 bits of seconds can hold. TLC evaluates each of
them on the runs. A theorem that needs more says so in its statement (`ASSUME`), and
the text below says why.

All 28 invariants the passing runs check are theorems, three of them under a
hypothesis (`NoLostWakeup`, `RunsOnLiveSession`, `CompletionsMatchRequests`); so are all
properties of single steps, and both refinements of `ByteStream`.

### Sending

| Theorem of `SendPathProofs` | Statement |
|---|---|
| `SendTypeCorrect` | `SendSpec => []SendTypeOK` |
| `SendInOrderAlways` | `SendSpec => []SendInOrder` |
| `OneInnerPutAlways` | `SendSpec => []OneInnerPut` |
| `NothingStrandedAlways` | `SendSpec => []NothingStranded` |
| `QuietAfterErrorAlways` | `SendSpec => QuietAfterError` |
| `SendRefinesStream` | `SendSpec => SendImplementsStream` |

The inductive invariant is `SendInv`. `NothingStranded` alone is not inductive: that
a Put is outstanding whenever bytes wait depends on `mSendPending` being true
exactly while NIE holds a Put (`PendingMatches`; NIE going down drops the Put and
leaves the flag set, which is why the clause has `nieUp`), and on the buffers being
empty when it is false (`IdleIsEmpty`: otherwise the next write would append to a
buffer with an old read position). `SendInOrder` gives each byte its number by its
place: the taken bytes, the rest of `mPutDataBuffer`, then `mSendBuffer`. The
refinement follows: `NIETakes` appends the next number to `wire`, and no other
action touches it except `SendConfigure`, which restarts the stream.

### Receiving

| Theorem of `RecvPathProofs` | Statement |
|---|---|
| `NeverOverfetchAlways` | `RecvSpec => []NeverOverfetch` |
| `NoLostWakeupAlways` | `~SyncEOF` implies `RecvSpec => []NoLostWakeup` |
| `CopyAlwaysEmptiesBuffer` | `RecvSpec => CopyEmptiesBuffer` |
| `RecvRefinesStream` | `RecvSpec => RecvImplementsStream` |

`RecvInv` says where `SSLRecvCallback` may be (`PlaceOK`), that `mRecvPending` tells of the
Get NIE holds and, on a connection that is up, of nothing else (`GetsOK`), that a fetch
which was told to wait has a Get or an event behind it (`WakeOK`), and which byte is
where (`OrderOK`). `NeverOverfetch` and the order need each other: a rest in
`mSSLRecvBuffer` would be moved wrongly by the `BlockMove` of line 1443, and there is
never a rest because NIE was never asked for more than `want`.
`CopyAlwaysEmptiesBuffer` states just that. `NoLostWakeup` has the hypothesis `~SyncEOF`
because it is false without (see 6).

### The connection end

| Theorem of `ConnectionEndProofs` | Statement | Hypothesis |
|---|---|---|
| `LinkInvariant` | `CESpec => []LinkInv` | |
| `NothingAlwaysDangling` | `CESpec => []NothingDangling` | |
| `ClearNeverEverMixes` | `CESpec => []ClearNeverMixes` | |
| `AlwaysDrivesSendPath`, `AlwaysDrivesRecvPath` | `CESpec => DrivesSendPath`, `CESpec => DrivesRecvPath` | |
| `OutgoingInOrder` | the three invariants of the sending half, in the connection end | |
| `IncomingNeverOverfetched` | `CESpec => []Recv!NeverOverfetch` | |
| `WaitersAlwaysWoken` | `CESpec => []Recv!NoLostWakeup` | `~SyncEOF` |
| `StreamsBothWays` | the connection end implements `ByteStream` in both directions, and `QuietAfterError` | |
| `AppDataAlwaysConserved` | `CESpec => []AppDataConserved` | |
| `AlwaysFreshConnection` | `CESpec => []FreshConnection` | |
| `GetsAlwaysFit` | `CESpec => [][GetsFit]_vars` | |
| `AlwaysRunsOnLiveSession` | `CESpec => []RunsOnLiveSession` | `"put" \notin Faults` |
| `RunsLiveUnlessPutFails` | `CESpec /\ [][~PutFails]_vars => []RunsOnLiveSession` | |
| `DirectRequestsAlwaysMatch` | `CESpec => [](\A r \in DirectRequests : pending[r] \in {0, 1})` | |
| `DirectRequestsServed` | `CESpec /\ [][~PutFails]_vars => []DirectServed` | `~SyncEOF` |
| `CompletionsMatchUnlessStray` | `CESpec /\ [][NoStrayAnswer]_vars => []CompletionsMatchRequests` | `OneKind` |
| `HandshakesConnectedUnlessStray` | `CESpec /\ [][NoStrayAnswer]_vars => []HandshakeOnConnection` | `OneKind` |
| `ConnectsServedUnlessStray` | `CESpec /\ [][NoStrayAnswer]_vars => []ConnectServed` | `OneKind`, `~SyncEOF` |
| `CompletionsAlwaysMatch` | `CESpec => []CompletionsMatchRequests` | `PlainUse` |

Six invariants build on each other.

- `LinkInv`: which requests NIE may hold in each state of the link, and when SSL is
  configured. A close overtakes everything and is alone; a clear connection that is
  being made stays clear; NIE holds transfers of the client only on a clear connection.
- With it every action maps to an action of either half or leaves it alone. So the
  connection end implements `SendSpec` and `RecvSpec`, and the theorems of their proof
  modules carry over (`SendProved`, `RecvProved` are instances of those modules on the
  connection end's variables). This is the composition: nothing about bytes or wake-ups
  is proved twice.
- `ReadInv`: a read has a buffer, and what is in it fits. `GetsFit` follows: however many
  records and TLS events it takes, a Get is answered with no more than its buffer holds and
  no less than its threshold, unless the session ended.
- `SessInv`: whose a TLS session is. A session that is configured and not closing is
  waiting for its connection or given up (`Quiet`), established on a connected link
  (`Established`), or has a Connect or an enable option of the client behind it
  (`Busy`). `FreshConnection` needs this: a Connect may follow any history of failed
  handshakes, disconnects and late events, and each must have left the session in one
  of these states.
- `LiveInv`: a session that mbedtls has finished with is marked as closing. This is false
  when NIE fails a Put of a connection that is up: `PutFails` resets the session without
  the mark. Hence the hypothesis, as a constant (`"put" \notin Faults`) or, weaker, about
  the behaviour: the step does not happen, whatever else fails.
- `AskInv`, without any hypothesis: what NIE holds, the client waits for, and the other way
  round; a read has a Get behind it, and a Get that waits has a read, a TLS event or an inner
  Get. So `DirectRequests`, which are all but a Connect and the enable option, are answered
  once and only when made, for every client and every failure. A Put that fails on an
  established session forgets the Get of that session (`ReadLost`): nothing answers it until
  a disconnect or a close. As long as that does not happen a session that is over is closing
  (`OverStep`), and a closing one leaves behind only a Get that NIE or a disconnect answers
  (`ClosingAnswers`). With the wake-ups of the receiving half (`WaitersAlwaysWoken`) and
  `ConnectedIsUp` no request is forgotten then (`DirectServed`): this is the safety behind
  `GetEnds`.
- `OwnInv`: a Connect and an enable option are answered by a handshake, which has to know
  whose it is. `mUpgradable` tells an upgrade from a Connect (`RightAnswer`), a session has
  one of them behind it (`OwnSession`), and the one that waits has a handshake under way
  (`HandshakeServed`). It is inductive as long as two steps do not happen
  (`NoStrayAnswer`: a Put of a connection that is up fails; the handshake of an upgrade
  fails), for an instance that serves one connection or only SSL ones (`OneKind`). These
  three exceptions are the findings `ce_put_failure`, `ce_upgrade_rejected` and
  `ce_clear_then_tls`: the theorem says that nothing else goes wrong with completions,
  upgrades included. A hypothesis on steps rather than on `Faults` lets everything
  else fail. `CompletionsAlwaysMatch` is the corollary whose hypothesis (`PlainUse`) is only
  about constants.

### The bindings

`CObjectsProofs` is for every set `Obj`, any kinds, slots and depth:

| Theorem | Statement |
|---|---|
| `ObjInvariant` | `ObjSpec => []ObjIInv` |
| `NoDoubleFreeAlways` | `ObjSpec => []NoDoubleFree` |
| `EveryBinaryRegisteredAlways` | `ObjSpec => []EveryBinaryRegistered` |
| `NoStrayDestructorAlways` | `ObjSpec => []NoStrayDestructor` |
| `NothingLeftBehindAlways` | `ObjSpec => []NothingLeftBehind` |
| `NoDanglingAlways` | `ObjSpec => []NoDangling` |

`ObjIInv` strengthens the first ones: an armed binary points to its own structure, which is
live (`OwnerIsLive`: this is what makes the owner unique, and a double free
impossible), every live structure has an armed binary in the heap (`LiveIsOwned`,
so that Delete, which walks the binaries, frees all that are registered), what an
allocation that threw leaves is in no slot and out of reach of NewtonScript
(`ThrewUnreached`, `OrphanThrew`: so it stays the exception it is in
`EveryBinaryRegistered`, `NoStrayDestructor` and `NothingLeftBehind`), a binary without a
pointer has the harmless destructor (`NullIsDisarmed`), slots of the weak array hold
binaries of the heap (`SlotsInHeap`), fresh names are used nowhere (`FreshIsUnused`),
and calls in progress exist only while the package is installed
(`CallsNeedPackage`). The lemma `Registering` is about the search for a nil slot:
the new binary gets exactly one slot and no other binary loses its own. None of them
needs the client's discipline. `NoDangling` does, and states it (`KeepsLinked`); its
invariant `KeptInv` says that whatever a reachable binary needs is that binary or one
NewtonScript holds. A certificate on loan needs its lender; once its session is over the
client cannot keep it alive by keeping anything, and the theorem excepts it. A callback in a RefStruct is not enough: the structure it is
registered in may be collected.

`LibraryProofs`:

| Theorem | Statement | Inductive invariant |
|---|---|---|
| `PointersAlwaysPinned` | `CallsSpec => []PointersPinned` | `CallsInv`: the lock count of a binary is the number of places of frames that hold it (cardinality of a set, so that an argument given twice counts twice) |
| `AccessorAlwaysExact` | `ChainSpec => []AccessorExact` | `ChainInv`: what is left of the index is the distance to the certificate looked for |
| `TimerAlwaysExact` | `TimerSpec => []TimerExact` | `TimerInv`: until something wraps, the deadlines are the delays asked for plus the time they were set |
| `HandlersAlwaysSound` | `ProxySpec => []HandlersSound` | `ProxyInv`: an object in the chain is as its proxy prepared it, for the system there is |
| `CalendarAlwaysExact`, `CalendarAlwaysExactAllDay` | `CalSpec => []CalendarExact`, and the same for every second of the day | `CalInv`: the reference date, which counts days one by one, is the date the code computes from the number of the day |

The calendar's argument: the code's arithmetic on 32-bit words, written on pairs of 16-bit
halves, is arithmetic on integers as long as the result fits; counted from 1 March of the
year 0, a day is an era, a year of the era and a day of that year, each in its range
(`YearOfEra` has to be right at the ends of the 4, 100 and 400 years); and adding one
to the day of the year is adding one to the date (`MonthOfDay`). The theorem is for any
set of zones the assumption admits and any garbage in the uninitialized offset. The clock is
defined without the code's epoch, so the theorem is about its value too: the result is the
time 3 039 seconds later, which after 23:09:20 is on the next date.

### Package, services, trust

| Theorem | Statement | Inductive invariant |
|---|---|---|
| `NIEAlwaysRestored`, `OursAlwaysNeedsPackage`, `SavedAlwaysReplaced` (`PackagingProofs`) | `PkgSpec => []NIERestored` and so on | `PkgInv`: class info is kept only while the slot says so and our class is in place or failed to get there; our class only with NIE's kept behind it. `Sound` says what every early return of `InstallConnectionEnd` and `RemoveConnectionEnd` leaves |
| `TLSAlwaysOnItsWay` | `PkgSpec => []OnItsWay`: with both packages there and nothing failed, our class is in place or the call that puts it there is scheduled | `WayInv`: the slot does not claim an installation that did not happen, and the package listens for NIE |
| `EventsAlwaysHaveOwners` (`ServicesProofs`) | `SvcSpec => []EventsHaveOwners` | with the types of the port |
| `CallsAlwaysServed` | `SvcSpec => []CallsServed`: a task that waits has its event in the port, unless NewtonScript threw for it, and is never the Newt task | the same |
| `CollectorAlwaysAlive` | `SvcSpec => []CollectorAlive` | `CollectorInv`: the slot that says a send is scheduled is right |
| `EntropyAlwaysUsedOnce` | `SvcSpec => []EntropyUsedOnce` | `EntropyInv`: the numbers of the samples increase from what was handed out, to `prefs.entropy`, to what is not packed; and what a reset would read back is newer than anything handed out |
| `HeapAlwaysRestored` (`TrustProofs`) | `TrustSpec => []HeapRestored` | `HeapInv`: the heap of the roots exactly while they are loaded |
| `CAAlwaysReplacesRoots` | `TrustSpec => []CAReplacesRoots` | `CAInv`: after a first authority no option turns loading on again |
| `NameAlwaysAsGiven` | `TrustSpec => []NameAsGiven` | `NameInv`: the instance has the name given since the last configuration, the context the one before, unless an unconfigured connection left one |
| `RootsAlwaysAsDocumented` | `TrustSpec => []RootsAsDocumented` | `RootsInv`: the chain is what was kept and what was loaded; while roots are loaded, what the history says of the soup is true of the soup; without interference a built-in root that is due is in the list or in the chain |
| `LoadAlwaysAdvances` | `TrustSpec => [][LoadAdvances]_trustVars`: a step of `SSLConfigure` goes on to the next part, takes a name off the list, or makes the certificate buffer larger, up to the largest certificate | `LoadInv`: the types of what is left to do |

The last two rest on lemmas about the lists: which names `ListRootCertificates` visits
and which of them fit into a buffer of the size asked for before.

### Only model-checked

- Liveness, since the prover does not treat fairness. For each property there is a theorem
  about the safety it rests on, that what has to happen is always under way:

  | Checked by TLC | Proved |
  |---|---|
  | `AllBytesTaken` | `NothingStranded`: untaken bytes have a Put behind them |
  | `WaitEnds` | `NoLostWakeup` |
  | `GetEnds` | `DirectServed`, as long as no Put fails |
  | `ConnectEnds` | `ConnectServed` |
  | `TLSBecomesAvailable` | `OnItsWay` |
  | `CallsEnd` | `CallsServed` |
  | `LoadEnds` | `LoadAdvances` |

- What the five violation runs show: a counterexample is a proof already.

## 5. Assumptions about code outside the repository

- **NIE**: it completes each transfer at most once; its `CloseStart` lets go of every
  transfer before it returns (completing some of them, perhaps) and answers none
  later; it takes bytes in order. It reports the end of the stream only from the
  event loop, not inside `GetBytesImmediateStart` (`SyncEOF = FALSE`).
- **mbedtls**: it asks `f_recv` for no more than a record still misses; it does not
  call `f_send` again after an error without a new write; at the end of the stream
  `mbedtls_ssl_read` returns 0 or `MBEDTLS_ERR_SSL_CONN_EOF` (`EOFReturns`).
- **Endpoint framework**: it ends the client's transfers that a disconnect or close
  overtakes. A client that disconnects from a TLS connection, turns SSL off and connects
  again does so on a new instance: the code would keep the old session configured on the
  clear connection, which `NIEUp` rules out.
- **Package manager**: `ImportDisabled` runs before NIE's class disappears, and scripts
  do not interleave.
- **Garbage collector**: RefStructs and the stack are roots; weak array slots of
  collected objects become nil; it runs only when NewtonScript allocates, and a
  locked binary stays where it is.
- **Exceptions**: the data of an exception that `ListRootCertificates` returns is an error
  code or a pointer; a positive one is taken for a size, which is not 0 (`WrongSizes`; a
  buffer of no bytes would be read past its end at once). The `return`s from inside
  `newton_try` in `GetRootCertificate` (`PMbedTLS.cpp:231`, 235, 242), which leave an
  exception handler behind unless the toolkit's macros prevent it, are taken to work.
- **Memory**: `mbedtls_ssl_set_hostname`, whose result the code ignores, finds the memory
  it needs.
- **`unwind_protect`** (Newton toolkit): its `on_unwind` part runs at the end of the block
  and on an exception, not on a `return` from the block. `UnlockRefArg` of something that
  is not a binary does nothing.
- **Soups**: `CursorMove` by n moves over n entries; a query for a tag finds the first
  entry that has it.
- **ROM event system**: NewtonOS 2.0 may destroy a handler itself, through its virtual
  table; 2.1 does not.
- **Clock**: `time_t` counts seconds of local time from 1 January 1904, as
  `TimeToLocal1904Minutes` has it.
- **mbedtls sessions**: the peer's certificates belong to the session of a context, and go
  when it is reset, replaced or freed.
- **Clients of the bindings** (only for `NoDangling`): they keep the binaries whose
  structures others point to, as the interface expects (`KeepsLinked`). Without it
  `NoDangling` has no meaning; the other theorems do not need it.
- **Entropy**: one installation of the package, with resets of the device. A tick
  scheduled by an earlier installation is not modelled.

## 6. Findings and observations

Findings with a run:

- `ce_upgrade_rejected`: a failed handshake always completes a Connect (line 1373),
  also when the request that waits is the enable option of an upgrade. The option
  is never answered.
- `ce_put_failure`: a failed write resets the session without setting `mClosing`
  (line 295). The next TLS event starts a handshake, whose failure completes a
  Connect a second time. `ce_connect` checks the same property without failing Puts,
  where it holds.
- `ce_clear_then_tls`: `mUpgradable` survives the clear connection that set it; the
  enable option for a later Connect on the same instance is then taken for an
  upgrade and the handshake starts on no connection (line 511).
- `roots_added`: of the certificates a user adds to the union soup only the first,
  fifth, ... is listed and loaded, because the cursor is moved by `MAKEINT(1)`
  (`PMbedTLS.cpp:337`).
- `roots_disabled`: a root that was loaded and is then disabled by the user stays trusted
  when the instance is configured again: `mSSLCAChain` is never emptied before `Delete`
  (line 116). `RootsAsDocumented` says what remains true: it is not loaded again.

Exceptions that a property states, since the code is what it is:

- `HeapRestored`: after a failed list of roots the task stays in the heap of the roots
  (a `return` from inside `unwind_protect`, line 1526).
- `NoStrayDestructor`, `NothingLeftBehind`: when the NewtonScript heap is full,
  `DoAllocateCObjectBinary` loses the structure (`PMbedTLS.cpp:2142`), or leaves an armed
  binary that is not registered (2150). If no collection takes it before the package is
  removed, its destructor is called when the code is gone.
- `NoDangling`: a peer certificate that NewtonScript keeps points to freed memory as soon as
  its session is reset (766), renegotiated or replaced. The binary is not told.
- `NameAsGiven`: a connection that gives no name is checked against the last name the
  instance was configured with (line 1566), and a name given to a connection that was never configured (it stayed clear,
  or failed before) is still there for the next one on the same instance (line 524). The first
  is part of the property, the second its exception.
- `CAReplacesRoots`: authorities given to an instance that has loaded the roots for an
  earlier connection are added to them: the chain is freed only with the instance.
- `RootsAsDocumented`: an error of the store in the union soup is ignored, and the built-in
  root is then loaded although the user disabled it.
- `TimerExact`: a deadline that wraps counts as passed at once, and one that wraps to 0 as
  cancelled. On a stream mbedtls sets no timer.
- `CalendarExact`: gmtime_r is 50 minutes and 39 seconds ahead of the clock: the epoch of
  2 082 841 761 seconds (`NewtonBindings.cpp:139`) is 3 039 less than the 24 107 days that the
  other conversion has between 1904 and 1970. A certificate expires and becomes valid that
  much early. Without a time zone the offset is uninitialized (`PMbedTLS.cpp:2367`).
- `AccessorExact`: an accessor whose text does not fit throws; `X509CrtGetDER` ignores its index; the peer-certificate option follows
  NULL when the peer gave no certificate (line 570).
- `HandlersSound`: a failed Gestalt call is ignored, and the layout is then a guess
  (`TAEventHandlerProxy.cpp:56`).

Observations that depend on code outside the repository or on a use that nothing
in it rules in or out, without a run:

- With `SyncEOF = TRUE`, `NoLostWakeup` fails: `SSLRecvCallback` does not look at
  `mPeerClosed` after the inner call (line 1430).
- With an `mbedtls_ssl_read` that returns 0 at the end of the stream and a Get with a
  threshold, `DoSSLRead` does not leave its loop (line 1319).
- A callback closure that refers to its own ssl binary keeps the structure alive
  until the package goes: RefStructs are roots (`PMbedTLS.cpp:126`).
- Collection of entropy stops at the limit, or after an exception of the store, until
  Pause and Resume or a restart (`mbedTLS.f:141`). `CollectorAlive` says that nothing
  else stops it.
- A failed registration of the singleton loses the object (`PMbedTLSInterface.cpp`);
  a failed registration of a class leaves `PInetToolCE` without any, and the slot
  `connectionEndInstalled` says otherwise. The properties of `Packaging` say exactly
  what remains true after each failure.
- The verify mode `none` turns loading off for the instance, and `required` later does
  not turn it on again: no root is loaded (line 539).
- The comment on `NEWTON_EPOCH_DELTA` (`NewtonBindings.cpp:138`), "This will overflow in
  2040", is true of the clock, not of the dates: the unsigned arithmetic undoes the wrap
  and is right until 2106, which `CalendarExact` covers. `tm_yday`, which mbedtls does not
  use, counts from 1 March. `TimeToLocal1904Minutes` gives midnight GMT, whatever the time of
  day.
- A Put that fails on an established session also leaves its Get unanswered (`ReadLost` in
  `ConnectionEndProofs`), until the client disconnects or closes.
- Bindings that do something else than their name says: `SSLConfRng` locks a nil
  RefVar and always throws; `SSLSetSession` never locks its session;
  `SSLSendAlertMessage` passes Refs where numbers are meant;
  `SSLGetMaxOutRecordPayload` returns the maximum fragment length; `X509CrlParse` parses
  a certificate into a list.

## 7. What is not modelled

- Methods of the connection end that only pass a call on, from NIE to the client
  (`PMbedTLSConnectionEnd.cpp` 640-650, 830-1125, 1235-1300) or the other way (590-635), and
  the same in `PMbedTLSCECallBack.impl.h`: they read and change nothing.
- The assembly glue (`*.s`): one jump per method. The idler of `TAEventHandlerProxy`: nothing
  in the port uses it.
- What a binding changes inside a structure of mbedtls, and how names and numbers of
  certificates are formatted.
- `printf.c` (third party), `NewtonRuntime`, `NewtonPublicAPIs.s` and `EinsteinGlue`
  (compiler support and generated jump tables), `config.h` (the switches of mbedtls), the
  certificates and the build.
- The Mail V patch and the test application, which are clients.

## 8. Plan

Done: all modules of section 2, and the theorems of section 4: each invariant of a passing
run, the step properties, the refinements, and for each liveness property the safety
it rests on.

Next:

1. `SyncEOF = TRUE`: what of `DirectServed` and `ConnectServed` is left when NIE reports the
   end of the stream inside its Get call.
2. After a failed Put (`ce_put_failure`): from which point on (the next `CloseStart`)
   everything is in order again. The requests that are not answered until then are known
   (`ReadLost`).
