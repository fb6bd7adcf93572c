# Verification of the Go driver for Oracle Database

TLA+ specifications of the driver in `src/`, the TLC configurations that
model-check them on small instances, and TLAPS proofs of the results that hold
for every instance. Names of definitions follow the source; `PROJECT.json` maps
every definition to the lines it models.

## The system

The driver is a stack of four layers. A call of `database/sql` goes down and its
answer comes up:

| layer | code | role |
|---|---|---|
| `database/sql` driver | `oracle/`, `internal/driver/ttc/connection*.go`, `statement*.go`, `transaction.go` | connector, pooled connection, statements, transactions, rows |
| TTC | `internal/driver/ttc/` | the request/answer protocol: messages, marshalling, the message streamer, negotiation and logon, types, LOBs, OSON |
| Oracle Net session | `internal/driver/network/session/` | packets, connect/redirect/resend, data transfer, break/reset |
| transport and naming | `internal/driver/network/transport/`, `network/naming/` | TCP and TLS adapters; connect descriptors, addresses, failover |

Beside them stand the caches and registries of `internal/common/` and the token
provider of `providers/oci/`.

One connection is used by one goroutine at a time (the pool sees to that), with
two exceptions that make it concurrent: a context that ends while a statement
runs starts a goroutine that breaks into the session, and some state is shared by
all connections of the process (caches, the conversion flags of the type
representations, a token provider). What is hard in this code is therefore mostly
*what survives from one call to the next*: bytes left in a buffer, messages left
in a list, packets still under way, a cursor id, a flag in an executor, a
transaction registered on the connection.

### Parts, and what models them

| part | modules | status |
|---|---|---|
| statement cancellation | `StatementCancel` | modelled, proved |
| network session, data transfer and break/reset | `NetworkSession` | modelled, proved |
| network session, connect | `NSConnect` | modelled, proved |
| connect descriptor, addresses, failover, `connector.Connect` | `Connector` | modelled, proved |
| connect strings: easy connect, name-value syntax, what is sent | `NamingSyntax`, `ConnectString` | modelled |
| negotiation and logon | `Logon`, `TypeRep`, `O5Logon` | modelled, proved |
| OCI token provider | `TokenProvider` | partly (tokens and keys), proved |
| expiring cache | `TTLCache` implements `ExpiringMap`, with one exception | modelled, proved |
| message streamer and the events it raises | `MessageStreamer` | modelled, proved |
| statements, executors, transactions, `ResetSession` | `PreparedStatement` | modelled, proved |
| bind placeholders, SQL classification | `BindPlaceholders` | modelled |
| rows, repeated columns, OUT arguments | `RowStream` | modelled |
| REF CURSORs, nested cursors, implicit results | `RefCursors` | modelled |
| LOBs | `LobText`, `LobAccess` implements `LobHandle` | partly, proved |
| marshalling engine | `MarshalEngine`, `TypeRep` | partly |
| numbers, intervals, dates and times | `OracleNumber`, `OracleScalars`, `ColumnValues` | partly; `OracleScalars` partly proved |
| JSON and OSON | `OsonEncoder`, `OsonParser`, `JSONDocument` | partly |
| session packets, transport adapters, shelf, TTC messages | in the modules above | partly: their control, not their layouts |
| provider registry, key decryption, errors, logging | - | not modelled |

`PROJECT.json` lists every part with its files and the reason for its status.

Related parts share a run: an `MC` module extends several components, `part` says
which of them a behaviour exercises, and the others rest in a state that satisfies
their properties. `MCConnect` (with `MCNaming` and `MCLogon`) holds what opens a
connection, `MCSession` a session and the executions that are cancelled on it,
`MCStatements` the statements and the streamer of their messages, `MCData` (with
`MCColumnValues`, `MCJSON` and `MCBinds`) what is written and read as bytes or text
and what a call returns. The constant `RunParts` lists the parts that a run has.

## The modules

### StatementCancel

`Statement.ExecContext`/`QueryContext` with the cancellation half of the
executors. Three goroutines: the caller (`exec`), the `context.AfterFunc` on the
execution's sub-context (`after`) that runs break/reset once the caller allows
it, and the `AfterFunc` on the transaction's context (`trans`). Each channel of
`statementCancellationState` is a variable (`start`, `completed` with their one
slot, `done` as a flag), `brkCtx` is the 10 s timeout context and its release,
`wire` what the server still owes the client. Actions are the steps between two
channel operations. The session below is abstract: break/reset succeeds (and
leaves the OER of the cancelled call) or fails.

*Checked* (`session`): only one goroutine uses the session; no
after-function outlives its call; a round ended by break/reset leaves nothing on
the wire; a cancelled call returns. *Proved* for any number of calls and rounds:
the first three, and that the timeout is released.

### NetworkSession

An established session (`nsprotocol.go`, `nschannel.go`) against a server that
answers, raises errors by break markers, sends notifications and closes. The
client is sequential (by `StatementCancel`'s exclusivity). `rcv` abstracts
`rcvDatapkt` to "empty", "data" and "short", `pending` is `pendingPacket`, `snd`
the calls whose bytes are in `sndDatapkt`, `c2s`/`s2c` the two directions of the
socket. Reads may be cancelled and writes torn at every point.

*Checked* (`session`) *and proved* for any number of calls and packets:
`CancelOperation` leaves nothing of the cancelled call (`NoStaleDelivery`,
`QuietBetweenCalls`); a request is executed twice only after a `Flush` that failed
(`RepeatedOnlyAfterFailedFlush`). *Checked*: `Reset` ends, and a call that is not
disturbed returns.

### NSConnect

One connection attempt: `connect`, `handleAccept`, `handleRedirect`,
`handleResend`, `transportConnect`, `Disconnect` and the two adapters. `net` is
the adapter, its stream and the number of sockets open; `pkt` the listener's
answer. Limits are the real ones (four redirects, four resends).

*Checked* (`connect`) *and proved* for every limit: no two sockets at a time, none
left after a failure, exactly one after success (`SocketsReleased`). *Proved*: a
connected session has an adapter with a stream. *Checked*: the attempt ends
(`AttemptsEnd`).

### Connector

`connector.Connect` over `ConnectionIterator`: building the attempts of a
description list, shuffling, DNS results, reordering by the process-wide cache
of down hosts (each look-up a step, with other goroutines changing the cache in
between), `HasNext`/`Next` with cycles, retries and the delay that races the
context, and the deferred disconnect of the session.

*Checked* (`connect`, three descriptors): every address is tried exactly once per
cycle, `Next` has an option when `HasNext` said so, and `Remaining`, `Total` and
`HasNext` agree (`EveryAddressTried`); hosts down all along come last
(`DownHostsLast`); a session stays open exactly with a connection
(`SessionReleased`); `Connect` returns (`AttemptsEnd`). *Proved* for all descriptors
and all behaviour of the name service and the cache: `SessionReleased`,
`DownHostsLast`, and the first two conjuncts of `EveryAddressTried` (`AllTried`,
`NilWhenCancelled`); the third is about sums, which would need induction.

### MessageStreamer

`Push`, `Flush` (failing at any message, possibly half marshalled), `Pull` with
parking and callbacks, `Drain`, the state check that ends a call, and the events
by which the connection learns that it is invalid. Messages are numbered; four
types stand for the ways a type is treated.

*Checked* (`statements`) *and proved* for any limits, calls and failures:
messages are sent whole, once, in order (`SentOnceInOrder`); `Pull` returns the
oldest (`OldestFirst`); a message is delivered only within its call
(`DeliveredInCall`); a loss invalidates the connection (`LossIsReported`).

### TTLCache and ExpiringMap

`TTLCache` of `caches.go` with its lazy removal behind `nextExpiration`;
`ExpiringMap` is what it promises: an entry is found until it is `Ttl` old,
removed, or evicted as the oldest of a full map that takes a new key (`Spec`). The
refinement mapping makes the live entries those that have not expired, so the lazy
removal cannot be observed. The code keeps this promise with one exception: a `Put`
over a key that is in a full cache evicts the oldest entry too (the finding
`cache_overwrite`). `LossySpec` is the promise with that exception (`LossyPut`).

*Checked* (`connect`) *and proved* for all keys, sizes and times: the cache
implements the map with the exception (`ImplementsMap`). *Proved*: its capacity and
the bound `nextExpiration`.

### PreparedStatement

The statements of one connection. `stmt` is the `Statement` (is it in the shelf,
its `cursorID`), `executor` what its two executors remember (is the SQL still to
be sent, does the execution commit, `previousOacs`), `outgoing` the OCCA messages
that close cursors and ride with the next request, `tx` the transaction as the
shelf and `database/sql` see it. The server (external) keeps `cursor`:
whose SQL and which bind descriptors each id holds; it reuses ids. A request is
built in one step (`QuerySelect`, `Exec`, `BeginTx`, `EndTx`), answered in
another. The pool (external) releases the connection and takes it again through
`ResetSession`.

*Checked* (`statements`) *and proved* for any statements, binds and limits: every
open cursor has exactly one owner - a statement or one queued OCCA
(`CursorsAccounted`); a request that names a cursor names its own and fits its
descriptors (`RequestFitsCursor`); no execution commits a transaction
(`TransactionIsAtomic`).

Assumptions on the server: it reads the OCCA messages of a flush before the
request; a first execution that fails leaves no cursor; descriptors of a request
on an open cursor are taken over even when the execution fails.

### MarshalEngine

`marshal_engine.go` and the fields of `ttcTypes.go` made of its operations. The
state is the stream (`wire`), the fields written and not yet read (`pending`), the
last field read (`last`) and the sequence number. Integers exist in both
representations (native, and universal: a length byte with its sign bit, then the
bytes), byte arrays in the short and the chunked form of `MarshalCLR`. A byte has
`Radix` values instead of 256, and the markers (escape, null, the longest short
array) are scaled with it, so that the boundaries between the forms are within
reach.

*Checked* (`data`), all in `FieldsReadBack`: a field is read as it was written, or
refused when it exceeds a limit, and a buffer that is too small gets a prefix or
an error; a field is read to its last byte and no further, so that the next one
starts where it should; `_decodeUniversal` accepts exactly the byte sequences
whose number fits the type and returns that number.

### OracleScalars, OracleNumber and ColumnValues

The conversions of `internal/driver/ttc/converters`. `OracleScalars` has
BINARY_FLOAT and BINARY_DOUBLE, the two interval types, DATE and the three
TIMESTAMPs; `OracleNumber` has NUMBER (`number.go`, `float.go`), on a decimal
mantissa and exponent. A field of several bytes written big-endian is one number,
text is parsed and formatted outside of the model, and a `float64` is its shortest
decimal, which is what `EncodeFloat` takes from `strconv`. Widths are constants:
`SignMask` for the highest bit, `MaxUint` for the 64-bit integers.

`ColumnValues` composes them: `Bind` encodes a Go value, the server (external)
stores it in a column, and `Fetch` decodes it by the column's type. The server
converts only between time types. The driver registers the encoders of intervals
and binary floats for no Go type; there they stand for what the server stores.

*Checked* (`data`): a stored value is fetched as itself, rounded as its column is
described (`StoredReadBack`), and the bytes are ordered as the values
(`OrderPreserved`), which server-side comparison relies on. *Proved* for every
width (`MessageStreamerProofs`): binary floats are decoded to themselves and ordered
by their bytes; both interval types are decoded to themselves. The cases in which
the code does not read a value back are excluded in `StoredReadBack` by name and
listed under Findings.


### NamingSyntax and ConnectString

`NamingSyntax` has the tokenizer and the parser of name-value strings (`nv.go`) and
what a tree of them means (`nvctx.go`). A text is a sequence of atoms: the
characters some parser looks at, and words. `ConnectString` follows a connect
string: the driver adds its configuration, whose parameters come out of a Go map
in any order; `ParseDSNString` turns an easy connect string into a descriptor and
parses it; an attempt writes a descriptor for one address; the session adds who
connects and sends it (`cData`). `Intended`, `Unacceptable` and `Wanted` say
independently of the parsers what the given parts ask for.

*Checked* (`connect`): the connector works with the addresses, service and settings
that were given or refuses them, and the listener is asked for one of the
addresses with the connect data of its description (`ConnectStringHonoured`). The
property is silent where the documents and comments of the repository ask for
something else than the code does: a string that begins with "//" (the finding
`documented_form`), and the load balancing of a single group of hosts for which it
was not turned on (`parse_ezconnect.go:440`, see Findings).

### Logon, TypeRep and O5Logon

`GetConnection` from the connected session to the open connection: `TypeRep` has
the capability bytes and the table of type representations, `O5Logon` the answer to
the server's challenge, `Logon` the rounds of protocol, data types and
authentication by password or token. The server (external) may be of any version
and kind, refuse, answer in the wrong order or break off. Hashes and ciphers are
terms: a key stands for what it was derived from. The lengths, which decide whether
the fixed buffers hold what is put in them, are computed. Connections log on
concurrently; what they share is `conversionFlags`, written without a lock.

*Checked* (`connect`) *and proved* for any connections, servers and logins: a
connection is handed out only when both sides have proved themselves
(`OpenIsMutual`); function headers have the form of the version both announced
(`VersionsAgree`); with servers of one kind characters are framed as announced
(`FramingWhenAlike`; with servers of both kinds they are not, see Findings); client
and server stay in the same round, with the callbacks of the answer that is awaited,
and what is read is what was written (`LogonInStep`). The last is said of servers
whose list of capabilities reaches the one for the version of time zones, or that
exchange no time zones or send no capabilities (`SaysTzVersion`): `adjustCapabilityFrom`
takes nothing back for a shorter list, so that the client then reads a version that
is not sent. A server with a short list is part of the instance.
*Proved*: every password that is admitted fits its buffer. *Checked*: every logon
ends (`LogonsEnd`).

### TokenProvider

`Token` and `PrivateKeyForToken` of the OCI provider as logons call them. One caller
at a time requests a token, without the mutex; the others wait for its channel.
A step is what happens between two points where the mutex is free. The service
(external) answers with tokens of any lifetime or fails, and callers are cancelled.

*Checked* (`connect`) *and proved* for any callers and lifetimes: a logon signs with
the key its token was issued for (`SignedWithItsKey`). *Proved*: a refresh always has
a caller that performs it. *Checked*: `Token` returns (`LogonsEnd`).

### BindPlaceholders

The classification of a statement, the scanner that finds its placeholders, and
how named and positional arguments are put in their places. The reference
(`Lexed`) reads the text once, with the lexical state of SQL as its mode.

*Checked* (`data`): the placeholders are those outside comments, strings and
quoted identifiers; an execution is refused when an argument has no place or two
have one, and when every place has an argument it is accepted and every place has
its value (`ArgumentsMeetPlaceholders`). The property is silent about an execution
that lacks an argument, which the comments have refused and the code sends (the
finding `missing_argument`), and about a text with a colon that no letter or digit
follows, which the comments say starts no placeholder (`sql_namedvalue_parser.go:75`).

### RowStream

The rows of a query from the server's messages to what `Next` returns: describe,
rows, bit vectors of the columns that changed, the second round that fetches, the
prefetched rows of implicit results, and the metadata an executor keeps from one
execution to the next. A column on the wire is the sequence of its fields.
`UnmarshalRow` has the three forms of an RXD: the rows of a query, the OUT arguments
of a PL/SQL block, each with an indicator, and those of a DML statement with a
RETURNING clause, for each position a count and as many values with indicators, of
which the last stays. `ExecContext`, `handleOutRXD` and `OerExecuted` are an execution
with OUT arguments; `outDestPtrs` are the variables of the application.

*Checked* (`data`): an application reads the rows of its own query, all of them
and in order; the variable of an OUT argument has the value of the last row, or
keeps its own for a NULL unless it is a `Scanner`, whatever was executed before; and
the driver reads every message in step with the server (`RowsReadBack`).

### RefCursors

The driver's objects for REF CURSORs, nested cursors and implicit results (`cur`,
`rows`), the registry of the shelf (`reg`), the queued closes (`queue`) and what is
open at the server (`opened`, external), which reuses the numbers of closed
cursors. `Close` calls `Close` of nested cursors: each call and each return is a
step, the frame of a running call is in its object (`running`, `next`, `caller`)
and `active` names the innermost one. The application makes no other call while a
`Close` runs.

*Checked* (`data`) and proved for every number of connections, cursors, result
sets and nested cursors (`RefCursorProofs`): a cursor that may be fetched is open,
under its own number, on its own connection, and no close of it is queued
(`RegisteredIsOpen`); closing the rows of implicit results releases all of their
cursors, unless an error is returned (`ImplicitReleased`).

### LobText, LobAccess and LobHandle

`LobText` has the conversions of characters, `LobAccess` the LOB executors and
their messages: each operation is answered from the flags in the locator, or
registers callbacks, pushes, flushes and pulls, and can fail at each of these. The
server (external) answers the fields whose pointers the request carries.
`LobHandle` is what the open state promises wherever it is kept; the mapping takes
it from the locator's bits or from the server.

*Checked* (`data`) *and proved* for all locators, texts and failures: a call leaves
neither callback nor part of an answer behind (`CallLeavesNothing`), and the
executors implement the handle (`ImplementsHandle`). *Proved*: code units and
characters are read back as written, in either byte order, and what the buffer per
character holds. *Checked*: a write that reports success has stored its characters
and a read returns those stored (`TextIntact`).

### OsonEncoder, OsonParser and JSONDocument

The encoder with its dictionary of field names, its widths of offsets and its
compact numbers; the lazy parser, with the redirections and extended trees of
documents the server has updated in place; and a JSON column between them.
Counts and offsets are in base 6 instead of 256, so that one, two and four bytes
run out on small documents. Go values are a heap, so that they may be shared or
contain themselves. The hash is a parameter.

*Checked* (`data`): whatever way a document took, `GetValue` yields the value it
stands for, its names are found by binary search, and an operation fails only for
values that have no document (`JSONReadBack`).

## Runs and bounds

| run | instance | what happens within it |
|---|---|---|
| `session`: cancellation | 3 calls of 2 rounds | a call before, during and after a cancelled one; execute and define rounds |
| `session`: packets | 2 calls, 1 notification, 1 extra data packet | both sides break at once; stale packets of the first call meet the second |
| `statements`: messages | 2 calls, 3 pushes, 4 arrivals, limits 2 and 1, 1 failed flush | both lists overflow; torn message followed by a push |
| `connect`: connector | a host of two addresses, one of them given again, 3 descriptors | shared address, retries, no failover, shuffles, failed look-ups, hosts going down and coming up |
| `connect`: session | 4 redirects, 4 resends (the real limits) | both limits are reached, mixed |
| `connect`: cache | 3 keys, size 2, time to live 2, clock to 3 | eviction, expiration and overwriting in every order |
| `connect`: logon | 1 connection to 9 kinds of servers with 9 logins, or 2 connections to servers of two kinds | versions before and after the token, refused and unproved servers, passwords at the limit, table too long, capabilities that end before the version of time zones, the flags changed by the other logon |
| `connect`: tokens | 3 callers, 3 logons, lifetimes 0 and 2, clock to 1, refreshed 1 before the end | waiting for a refresh that fails or is cancelled, a key asked for after a later refresh |
| `statements`: statements | a SELECT and a PL/SQL block with one bind, a number and two texts, 2 cursors, queue of 0, 1 error, 1 reset | growing, shrinking and changing binds; two executors on one cursor; id reuse; forced flush |
| `data`: fields and columns | bytes of 16 values, chunks of 7, 2 fields pending, 3 configurations of the engine; numbers at both ends of every range, 16-bit integers, zones up to 14 h, one hour skipped by daylight saving, 2 stored values | arrays at each change of form, empty and null; mantissas of odd and even exponents, rounding at every digit, overflow of the widths; pairs for the order |
| `data`: JSON | base 6, documents up to 240 bytes, 2 updates, names whose hashes collide | one, two and four byte offsets; shared and cyclic Go values; an update that outgrows its node, and one of an update |
| `data`: placeholders | texts made of comments, strings, q-quotes and placeholders, 3 placeholders at most | nesting of every pair of lexical forms; repeated, missing and surplus arguments |
| `connect`: connect strings | up to 3 hosts, with and without two slashes before them, a few configuration fields at a time | parameters in every map order, spaces, quotes, one and several groups of hosts |
| `data`: LOBs | 7 kinds of locators, 2 national character sets, texts with 3-byte and supplementary characters, 5 code units, 3 operations | reads over the end, split surrogate pairs, refusals, failures at each step, temporary LOBs |
| `data`: rows | 7 tables, up to 9 columns; PL/SQL with 2 and DML with 3 OUT arguments and no, one or three rows; 2 executions | NULLs and LOBs that repeat, a vector of two bytes, a second execution while the first is read, OUT variables that keep or lose their value |
| `data`: cursors | 2 connections, 2 numbers each, 3 cursors, at most 2 implicit result sets with at most 1 nested cursor each | reuse of a number after a close, the same number on both connections, closes that cannot be queued, an error in the middle of closing the result sets |

The eight other runs are the findings below. The bounds are the smallest at which
each hazard occurs; every property has a mutant (a plausible slip in the code,
defined next to the definition it changes) that violates it within these bounds.
Deadlock is checked in all passing runs: the MC modules add one stuttering action
for the states in which the system may rest (all calls made, connection dropped,
`Connect` returned). `logon_framing` is the only run without it: connections that
are open may rest.

**Fairness.** `StatementCancel`: weak fairness of each goroutine's steps once the
context has ended, and of the timeout - goroutines are scheduled and timers
fire; none of the server. `NetworkSession`: weak fairness of the client and of
the server, for `ResetEnds` depends on the server's marker. `NSConnect`,
`Connector`: weak fairness of the one goroutine; every receive has a deadline or
an answer. `Logon`: each logon's goroutine runs on, and its server answers or the
read fails. `TokenProvider`: the callers run on, and the service answers or the
request fails; nobody has to cancel. The logons of a behaviour are bounded
(`MaxLogons`): with endlessly many callers and tokens that are always inside the
refresh window, a caller that waits could find the next refresh under way each
time. In `MCConnect` a behaviour has steps of one part only, so fairness of the
disjunction says that whatever can step there does; in `MCSession` each of the two
parts has the fairness of its module. The other modules state no
liveness.

## Proofs

Every theorem is checked by TLAPS for all values of the constants that satisfy the
named `ASSUME`s. An invariant a run checks is seldom inductive as it stands; what it
needs is the column on the right.

| module | theorems | inductive invariant and argument |
|---|---|---|
| `NetworkMarkerProofs`, `NetworkSessionProofs` | `NoStaleDeliveryAlways`, `QuietBetweenCallsAlways`, `RepeatedOnlyAfterFailedFlushAlways` | `Markers`: at most one break marker arrives outside the break state, and then the server waits for the reset; the reset is the last packet sent, and its answer leaves the server idle. `Clean`: while no call gave up, exactly the rest of one answer is under way. `Begun`: a request whose `Flush` did not fail is in one place only - buffer, socket, work list, or begun. |
| `ConnectorProofs` | `ConnectorInvariant`, `AllTriedAlways`, `NilWhenCancelledAlways`, `DownHostsLastAlways`, `SessionReleasedAlways` | `ConnectorInv`: one verdict per address being ordered (`Verdicts`), descriptions left to build (`Building`), an attempt holds the addresses its description was built with (`Addresses`), where the iterator is (`Position`), and how often each address was tried, as a function of cycle and index (`Tally`, `Promised`). `stablePartition` is a bijection of the positions, so reordering keeps how often an address occurs; a host can change its place between the cycles of an attempt and still be counted once in each. |
| `LogonProofs`, attempt | `AttemptInvariant`, `AttemptTypeOK`, `AttemptReleasesSockets`, `AttemptKeepsAdapter` | `Accounted` (one socket per stream) is kept by every transport operator, one lemma each; `Progress` ties the stream to where `connect` is. |
| `LogonProofs`, logon | `LogonInvariant`, `OpenIsMutualAlways`, `VersionsAgreeAlways`, `FramingWhenAlikeAlways`, `LogonInStepAlways`, `PasswordFits` | `Rounds` (one answer per request, none outside of a round), `Proved` (keys derive from the own secret only), `Versions`, `Flags` and `Framing` (the shared flags are those of the servers, when these are alike). `LogonInStep` needs a second invariant on top (`StepInv`), about the form of the answer each callback is registered for and, for servers of `SaysTzVersion`, the time zones both sides have agreed on. |
| `LogonProofs`, tokens | `SignedWithItsKeyAlways`, `RefreshIsPerformed` | `TokenInv`: a retained key is the one its token was issued for (`KeysMatch`, `IssuedForKey`), the key of a token that a caller holds is retained until the token expires (`KeysKept`), and exactly one caller performs a refresh under way, on the last channel (`OneRefresh`). |
| `MessageStreamerProofs`, streamer | `DeliveredInCallAlways`, `OldestFirstAlways`, `SentOnceInOrderAlways`, `LossIsReportedAlways` | `InInv`: the parked messages are of the running call, in order of arrival (`Parked`, `Calls`). `OutInv`: the stream and the queue together are the pushes, in order (`Queued`, `Complete`). Losses by a conservation law: read = returned + consumed + parked while no event was raised. |
| `MessageStreamerProofs`, scalars | `BinaryRoundTrip`, `BinaryOrder`, `YearToMonthRoundTrip`, `DayToSecondRoundTrip` | no state: a case per sign, then arithmetic. The sets of intervals are those the encoders accept, in canonical form; the last fails for the smallest int32 of days, which is therefore left out. |
| `MessageStreamerProofs`, cache | `TypeCorrect`, `CapacityHolds`, `ExpirationHolds`, `CacheImplementsMap` | the three invariants together are inductive; the step lemma of the refinement uses `NextExpirationSound` to show that a `Get` that does not scan finds no expired entry. A `Put` over a key that is cached maps to `LossyPut` when the cache is full, to a `Put` of the map otherwise. |
| `PreparedStatementProofs` | `StatementsInvariant`, `CursorsAccountedAlways`, `RequestFitsCursorAlways`, `TransactionIsAtomicAlways` | `Held`: the server's cursor names the one statement that holds it. `Queue`: OCCA messages name open cursors nobody holds, each once. `Known`: no open cursor is forgotten. `InFlight`, `Remembered`, `Covered`: what an executor remembers is covered by what the cursor was told or the request in flight carries. `NoCommit` for the transaction. |
| `RefCursorProofs`, cancellation | `TypeCorrect`, `SessionIsExclusive`, `CallbackJoined`, `TimerIsReleased`, `CancelledRoundIsSettled` | `IInv` = type + `Handshake` (for each place of the caller, how far the after-function can be and what the channels hold) + `Timer` + `Settled`. Exclusivity alone is not inductive: it needs the contents of `start` and `completed`. |
| `RefCursorProofs`, cursors | `CursorInvariant`, `RegisteredIsOpenAlways`, `ImplicitReleasedAlways` | `Numbers`: an object that has a number is the cursor open under it and its close is not queued; every open cursor has its object, which has the number or has queued its close, once. `Owned`: nested cursors are younger than their parent, and result sets are objects of the connection of their rows. `Frames`: the running `Close` calls are a stack, each younger than its caller, that ends in the active one; hence no call meets its own object again. `Progress`: a result set the `Close` of the rows has passed has lost its number, or its own `Close` still runs, unless an error is recorded. `ImplicitReleased` says nothing while a `Close` runs, so the last two carry it through the nested calls. |
| `LobProofs` | `LobInvariant`, `CallLeavesNothingAlways`, `AccessImplementsHandle`, `CodeUnitRoundTrip`, `RuneRoundTrip`, `BufferRoom` | `Located` (the locator's bits are consistent), `Defined` and `InCall` (the reply is read by the definition the request was written from, with the callbacks registered for it). The refinement is one step lemma per operation, split on where the open state is kept. The conversions are arithmetic by ranges of code points. |

The specifications the runs use (`MCSpec`, `ConnectSpec`, `SessionSpec`) only add stuttering,
fairness and the choice of a part to the ones the theorems are about.

Assumptions: bounds are naturals; the size and time to live of a cache are positive
and its keys finite; the highest bit is positive and the limits of years and
nanoseconds do not exceed it; kinds of statements are disjoint; the name service
answers with sequences of addresses. Of the servers: they announce a version; a
table of representations ends with its last word (`TablesEndTheMessage`). Of the
locators: one whose open state is kept in its bits starts closed. Cursor numbers are
positive, and no connection is the value that stands for a missing shelf.

Only model-checked:

- all liveness (`CancelledCallReturns`, `ResetEnds`, `CleanCallReturns`,
  `AttemptsEnd`, `LogonsEnd`): fairness and ENABLED are out of the prover's reach;
- what is computed by recursion or summed over data, which needs induction:
  `AttemptsCounted` of `EveryAddressTried`, `TextIntact` (the conversion of whole
  texts), `FieldsReadBack` (chunks), `StoredReadBack` and `OrderPreserved` (the
  digits of NUMBER), `JSONReadBack`, `ArgumentsMeetPlaceholders`,
  `ConnectStringHonoured`;
- `RowsReadBack`: what the driver reads is a fold over the fields of a message.
## Findings

Where the code does not do what a comment, test or document of the repository
says; each is a run that TLC must find violated.

| run | what it shows |
|---|---|
| `statement_cancel_validity` | an execution that failed and was not stopped in the server leaves a connection that counts as valid |
| `swallowed_fault` | the end-of-call callback replaces an unmarshalling error by nil |
| `reexecute_after_failure` | a statement whose first execution failed is executed again with neither SQL nor cursor; `ResetSession` leads to the same state |
| `autocommit_lost` | a statement used once in a transaction never auto-commits again |
| `logon_framing` | a logon to a single-byte server changes how the connections to multibyte servers write their characters |
| `cache_overwrite` | a `Put` over a key of a full cache evicts the oldest entry, which the comments have for a `Put` that "would exceed maxSize" (`caches.go:121`, `177`) |
| `missing_argument` | an execution without an argument for one of its placeholders is sent with the values it has; the comment has "a missing-arg error" (`sql_namedvalue_parser.go:253`, `315`) |
| `documented_form` | the form `myuser/mypassword@//my_host:1521/my_service_name?failover=true` of the repository's `README.md:133` is refused, for "//" needs a protocol before it (`parse_ezconnect.go:262`) |

The models reproduce further behaviour of the code that its comments do not
promise, or promise otherwise. No run is devoted to it, and no property that is
checked or proved assumes the contrary.

Sessions and connections:

- `PrepareReadBuffer` returns nil without data once a receive has failed, until a
  `Reset` (`NetworkSession`; `nschannel.go:65`);
- a `Reset` started by a break marker that fails leaves the session silent and
  the connection valid (`NetworkSession`; `nschannel.go:75`);
- the 50 µs timeout of `CheckInbandNotification` can lose part of a packet
  (`NetworkSession`; `nsprotocol.go:1004`), and `CheckRead` called again replaces the
  packet it had put aside;
- every end of call assigns `_isValid`, so a connection invalidated by an overflow
  is valid again after the next call (`MessageStreamer`; `connection.go:233`);
- a message of an unexpected type is parked together with its processing error
  (`MessageStreamer`; `message_streamer.go:268`);
- a resend after a redirect repeats the original connect data, and the header of
  the connect packet is always written with flags 0 (`NSConnect`;
  `nsprotocol.go:535`, `packets.go:137`).

Logon (`Logon`, `TypeRep`, `O5Logon`):

- the byte with the server's time zone version is compared as a whole, not by its
  bit (`capability.go:447`);
- a list of capabilities that ends before the version of time zones leaves the
  client's own flag set, and TTIDTY is read with a field it does not have
  (`capability.go:447`);
- servers of protocol 4 and 5 are taken to have version 17, and below version 12
  there is no function at all, so that the logon fails;
- a SYSDBA logon whose password is empty computes no response and panics in
  `ValidateServerIdentity` once the server has accepted it;
- `GetDerivedKey` fails for every input.

Statements (`PreparedStatement`, `BindPlaceholders`):

- the two executors of a PL/SQL statement do not see each other's descriptors,
  which is why `RequestFitsCursor` speaks of one executor
  (`statement_executors.go:848`);
- a failed `Commit` or `Rollback` leaves the transaction registered
  (`transaction.go:86`);
- a colon followed by no letter or digit is taken for a placeholder with an empty
  name, against `sql_namedvalue_parser.go:75`; a text whose first word is not known (`WITH`) is refused, not classified
  as other (`sqlkind.go`);
- `NumInput` counts every occurrence of a placeholder, so a prepared statement that
  repeats one cannot be run through `database/sql` with one argument for it
  (`statement.go:283`).

Rows and REF CURSORs (`RowStream`, `RefCursors`):

- an NCLOB without a character set of its own in a prefetched implicit result or an
  OUT bind is decoded as UTF-8, not in the session's national character set
  (`statement_executors.go:1518`, `1101`; `column_unwrap.go:82` says otherwise);
- nested cursors of prefetched implicit results are never registered
  (`ttirxd.go:325`); a nested cursor has no shelf until it is fetched, so closing
  its parent marks it closed and does not close it at the server
  (`rows_result.go:533`);
- a deferred fetch that fails, or `ExecContext` of PL/SQL that returns implicit
  results, leaves their cursors registered and open.

LOBs (`LobText`, `LobAccess`):

- the LOB executors have no caller outside of tests yet;
- writing a supplementary character to a LOB of variable width always fails, for the
  buffer has two bytes per character; to others it fails depending on its neighbours;
- a CLOB of fixed width is written as UTF-16 and read as UTF-8 (`clob_executor.go:470`,
  `607` say UTF-8), which is why `TextIntact` speaks of writes in UTF-16;
- a read that ends within a surrogate pair returns U+FFFD for its half;
- `open` on a persistent locator returns whether the amount was not zero, where its
  comment says false.

Values (`OracleNumber`, `OracleScalars`, `MarshalEngine`, `JSONDocument`):

- `EncodeFloat` does not check the range, so the exponent byte of a `float64` of
  1e126 or more wraps (`float.go:221`);
- `FromNumber` takes the first byte 0x80 for zero, so positive numbers below 1e-128
  are read as 0 in FLOAT columns, and numbers whose digits exceed a `uint64` are not
  read at all (`number.go:722`);
- the server's zone offset is an `int16` of seconds, which offsets beyond nine hours
  overflow (`connection.go:342`);
- DATE and TIMESTAMP are built in `time.Local`, which moves the hour that daylight
  saving skips; TIMESTAMP WITH TIME ZONE passes through it too, and keeps whole
  minutes of the offset (`datetimestamp.go:240`);
- TIMESTAMP WITH LOCAL TIME ZONE is encoded and not decoded for years BC
  (`datetimestamp.go:299`);
- -2147483648 days, which the encoder accepts, are formatted with two signs
  (`interval.go:410`);
- `UnmarshalCLR` refuses a short array larger than the buffer and truncates a long
  one (`marshal_engine.go:838`);
- a view of a JSON document is bound by encoding it anew with the current options,
  which makes a TIMESTAMP WITH TIME ZONE a TIMESTAMP and an interval a string.

Connect strings (`NamingSyntax`, `ConnectString`):

- the configuration always has a value for `load_balance`, so that the default of
  several hosts in a single group never applies: "Auto-enable LOAD_BALANCE if
  multiple hosts in a single group and not explicitly set" (`parse_ezconnect.go:440`);
- `ssl_allow_weak_dn_match` has no place in the descriptor (`configuration.go:98`), and
  the pool and service tag parameters are recognized and then refused;
- a port is cut to 16 bits (`nvctx.go:483`); "(HOST = x)" is refused and "(HOST= x)"
  keeps the space; a second root node is dropped; of two CONNECT_DATA the last
  is meant and the first is sent.

## Not modelled

- `Close` of a connection: it ends the connection whatever happens. (Its goroutine
  sends on an unbuffered channel, so it stays blocked when the timeout wins;
  `connection_closer.go:76`.)
- The LRU cache of `caches.go`: nothing in the driver creates one.
- The provider registry: a bounded list under a read-write lock, each method one
  critical section.
- Private key decryption and the TLS handshake: calls of libraries without state.
- Byte layouts of packets and describe messages, `UnmarshalText`, the rendering of
  JSON as text and the computation of its hash, vectors, character types, the
  table of time zone regions: straight-line readers, writers and tables.
- OCI principals and the validation of configurations, setters, errors and logging.
