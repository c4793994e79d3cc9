# Session offload: specifications

A verification development for the session offload framework
(`src/openoffload/cpp/framework`, its protocol `src/protos` and the simulators in
`src/tests`). A firewall hands established sessions to a device; the device keeps
them in a session table, and the firewall adds sessions to it, reads and deletes
them, collects the ones that closed and lists them all, over five gRPC calls.

Paths below are relative to `src/openoffload/cpp/framework` unless they start
with `src/`.

## 1. The system

| component | state it keeps | operations | modelled in |
|---|---|---|---|
| session table (`src/opof_server_test.c`, `include/opof_hash.h`) | static `sessions` (hash table and insertion-ordered list of `record_t`), static `start` (where the next page of a listing begins) | `opof_add_session_server`, `opof_get_session_server`, `opof_del_session_server`, `opof_get_closed_sessions_server`, `getAllSessionsPage` | `SessionServer` |
| uthash (`include/uthash.h`) | a table: bucket array, counters, tail; a hash handle in every record | `HASH_ADD`, `HASH_FIND`, `HASH_DEL`, `HASH_ITER`, and `HASH_EXPAND_BUCKETS` inside an add | `UTHash`, promise in `KeyedList` |
| session server handlers (`src/opof_session_server.cc`) | locals of each call: request, response array, loop index | `addSession` (client stream), `getSession`, `deleteSession`, `getAllSessions`, `getClosedSessions` (server stream) | `SessionServer`, promise in `SessionStore` |
| server start-up (`src/opof_server.cc`, `src/opof_server_main.c`) | gRPC server with 10 queues and up to 20 pollers | listen and serve | the set `Threads` of `SessionServer` |
| C client library (`src/opof_clientlib.cc`, `src/opof_session_client.cc`) | `g_deadline`; a handle per connection | one blocking call per operation, each with a deadline | `SessionClient` |
| test drivers (`src/opof_run_tests.c`, `src/opof_client_main.c`) | retry interval and attempts; loop state | `opof_delete_all_sessions`, tests 1-11 | `SessionClient` (clean-up, tests 1, 9, 10) |
| message conversion (`src/opof_util.cc`, `include/opof.h`, `src/protos/openoffload.proto`) | none of its own; the message and struct objects of a call, which a stream reuses | `convertSessionRequest2cpp/2c`, `convertSessionResponse2cpp/2c`, `convertAddSessionResponse2c`, status and error names | `SessionMessages`; id truncation in `SessionClient` too |
| test utilities (`src/opof_test_util.c`, `opof_config.c`, `opof_error.c`) | none | request generators, printing, parsing | requests in `SessionMessages`, batches in `SessionClient`; the rest is I/O |
| Python session server simulator (`src/tests/pythonSimulator/nos_sessions_server_simulator.py`) | dictionary of sessions, where the search for a free key goes on, a traffic thread | the same calls, and sessions that close by themselves | `NosServer` |
| Python firewall simulator (`.../fw_sessions_client_simulator.py`) | the sessions it offloaded | run loop: add, collect, fetch, list | `FwClient` |
| tunnel server (`src/tests/basicIPT/tunnels_server.py`) | tunnels by id | create, get, statistics, validation | no: sequential code on one dictionary nothing else uses |
| basic examples (`src/tests/basic`) | none | canned replies | no: stateless |

**Interaction.** `opof_server` registers `SessionTableImpl` with a synchronous gRPC
server. gRPC runs each call on one of up to 20 poller threads; a handler converts
the request, calls a C function on the one table of the process, converts and
returns the answer. Nothing is locked. The client library makes a blocking call and
gives up at its deadline (100 ms by default), while the handler may still be
running. A server that is killed loses its table. The Python simulators speak the same
protocol among themselves: the device of `nos_sessions_server_simulator.py` shares its
dictionary between gRPC handlers and a thread that plays the traffic, and the firewall
of `fw_sessions_client_simulator.py` mirrors in a dictionary of its own what it believes
is offloaded.

**What is hard.**
* Every table function is a sequence of uthash macros on shared memory; handlers
  of different threads interleave between them, and any two that meet in one
  memory location race.
* A listing spans several calls and keeps a pointer into the table between them.
* `HASH_ITER` keeps the successor of the record it deletes.
* The response arrays hold `BUFFER_MAX` entries; the number written is bounded by
  the request for one call and by the array for the other.
* A deadline can pass between any two steps of a handler; `addSession` notices only
  while it reads, `getClosedSessions` only before it starts.
* A deletion patches two doubly linked lists that share records, and an add may
  rebuild every bucket; a mistake shows only some operations later.
* One protobuf object and one struct serve a whole add stream, and a conversion sets
  only the fields of the request's IP version.
* The traffic thread of the Python device walks a dictionary that handlers change.
* A call that failed for its client may have been executed, may be executing
  still, or may never have arrived; the drivers retry.

**Correctness, by component.** The table: ids are unique, the size stays within its
bound, every session added becomes visible to `getClosedSessions`, and a scan of the list
gets to its end whatever is removed around it. The handlers: no overrun of a response array, no use
of freed memory, every call returns, what is collected is sent, and - for calls served one
at a time - each call is one atomic step of an abstract store. The drivers: a clean-up that reports
success has deleted all it can name, sessions are reported once, a call that was cut short costs a bounded
number of them, and every run ends. uthash: both
lists hold the same records and together are a list found by key. The conversions: what
is entered, refused and answered is what was asked. The simulators: the two tables agree,
and every session that closes is reported once.

## 2. Modules

* **`SessionServer`** - the table and its handlers, at the granularity of uthash
  macros. Variables `sessions`, `heap`, `start` are the table; `pc`, `op`, `key`,
  `size`, `r`, `tmp`, `out`, `status`, `cancelled` the thread that serves a call
  (the names `r`, `tmp` are the code's); `lost` collects ids that were removed and
  never sent; `ub` names the undefined behaviour that was met and stops the model.
  One action is one macro or one turn of a loop: `AddCount` is `HASH_COUNT` and
  the capacity check, `AddFind` the duplicate check, `AddLink` `HASH_ADD`,
  `AddFill` the assignments that follow it, `ClosedTake` one turn of the
  `HASH_ITER` body, `AllStep` one turn of the listing loop, and so on; the map in
  `PROJECT.json` gives the lines of each.
  Next to an action stands, where there is one, a mutated form of it (marked
  `mutation:`), a plausible bug that a property must notice; no specification uses
  it.
* **`SessionStore`** - what the server promises when calls are served one at a time: a
  sequence of session ids, a cursor, and calls that take effect in one step
  (collecting closed sessions takes one step per session, an add stream one per
  request). `SessionServer!ImplementsStore` states the refinement; the mapping is
  `StorePhase`, `StoreCursor` and the `INSTANCE` that follows them.
* **`SessionClient`** - one client on top of the server (it `EXTENDS SessionServer`).
  The driver is `opof_test1`, `opof_test9` or `opof_test10`, with the clean-up loop
  of `opof_delete_all_sessions` in front: `stage` is the loop it is in, `on` the
  server thread that serves its call, and `sessionStart`, `todo`, `attempts`,
  `sessionId`, `closed`, `reported`, `result` its locals. `ListCall`, `DeleteCall`,
  `AddCall`, `CollectCall` make a call; `ListAnswered` ... `CollectAnswered` are what
  the driver does with the answer. The driver shares no memory with the server, so
  what it does between two calls is one step with the return of the first.
  A call ends by `Answer` (the handler returned), by a fault (`Deadline`,
  `Disconnect`, `Crash`), or by `NoServer`. After a deadline or a broken connection
  the handler goes on: `on` no longer points to its thread, which may notice
  (`NoticeCancel`) or not, and a retry may run beside it on another thread.
  A killed server loses table and handlers (`Die`) and may come back
  (`StartTestServer`). The run starts with a table that earlier clients left behind
  (`Populated`), its listing anywhere. `acked` and `faults` are history: the ids the
  running server acknowledged, and the loops that met a fault.
* **`UTHash`** - the macros of `uthash.h` that the table functions use, run by one thread.
  `hh` is the hash handle of each record, `tbl` the `UT_hash_table` they point to, `head`
  the user's pointer, `el` and `tmp` the walk of `HASH_ITER`. `Add`, `Delete`, `Find`,
  `IterBegin` / `IterKeep` / `IterDelete` are the operations; `PushOnChain`, `DelInBkt`,
  `Expand` the macros on buckets, each of which maps a table and its handles to the
  table and handles after it. `Expand` is `Doubled`, the new array, then the loop over the
  old buckets (`MoveAll`) and over the chain of each (`MoveChain`), then the counting of the ineffective
  doublings, which switches expansion off as the code does. The hash function is a free choice at each add, so
  every pattern of collisions that `HASH_JEN` could give is there.
* **`KeyedList`** - what `UTHash` promises and `SessionServer` builds on when it treats
  `HASH_ADD` and `HASH_DEL` as steps on one sequence: a list in the order of the adds,
  and a walk that may delete the record it stands at. `UTHash!ImplementsList` is the
  refinement; the list is the application order, the rest of a walk `el` and what follows
  `tmp`.
* **`SessionMessages`** - one client's calls with the objects they carry: the C struct of
  the caller, the protobuf request the client reuses (`request`), the messages between
  (`wire`), the struct the handler reuses (`request_c`), what the table function was given
  (`handed`), the errors of the response (`refused`) and what the caller gets (`resp`).
  Each conversion is an operator of the object it fills and what it held before. Addresses
  are tagged with their field, so that a swap shows; an `Unset` value is what no
  assignment has reached. `ClientWrite`, `ServerRead` are a turn of each loop,
  `ServerFinish` and `Deadline` the two ends of an add call, `ServerStop` the handler
  that outlives its client's deadline; `Get` and `Delete` a whole call.
* **`NosServer`** - the Python device. `offloadSessionTable` and `lastSessionId` are the
  code's; `inserted` numbers the sessions, and a session's stamp is its place in the
  dictionary's order; `call` is the handler and its locals, `reply` what it has sent.
  `addSession` is one request of the stream, `getClosedSessions` one turn of the loop over
  the copied list, `Traffic...` one item of the traffic thread's walk over the live
  dictionary. The thread ends for good when the dictionary changed its size under its
  walk (`TrafficDies`). It closes a session in one step and sets the close code in
  another (`TrafficSetsCode`).
* **`FwClient`** - the Python firewall on top of it (it `EXTENDS NosServer`): `run()` without
  `--loopmax`, as the cycle `After` of its steps; `sessionTable` and `lastId` are its
  dictionary and its id counter, `received` is history.
* **`MCSessionServer`**, **`MCSessionClient`** - instances for TLC, and the claims of
  documents, comments and tests that the code does not meet. `OwnersSpec` of
  `MCSessionServer` is `SessionServer` with fewer clients: one thread collects, and
  each of the others adds and deletes one session of its own.
* The theorems, checked by TLAPS, are in modules of their own, named for what they are
  about. **`SessionServerProofs`** is about the server; **`SessionStoreProofs`** extends it with
  the refinement of `SessionStore`, and **`SessionClientProofs`** with the client: types, and the
  fact that one call is served at a time. **`SessionReportProofs`** (what is reported and what
  is acknowledged) and **`SessionCleanupProofs`** (the clean-up and its pages) extend that one in
  turn. **`UTHashProofs`** is about the hash table and its refinement of `KeyedList`,
  **`FwClientProofs`** about the two Python simulators together, and
  **`SessionMessagesProofs`** about the conversions.

Abstractions. Session data other than id and state is left out (statistics are
random numbers). `HASH_FIND` returns *any* record with the id: which duplicate
comes first depends on the bucket chains. A record freed and allocated again may
get the same address: `Ptr` is finite and reused. The record `malloc`ed before the
checks is allocated in the model when it is linked, so the leak on refused adds
is not modelled. Thread locals are cleared when a function returns. A page size
above `BUFFER_MAX` acts like page size 0: the scan is not stopped before the array
ends. `Write` on a cancelled call sends nothing.

In `SessionClient`, `AsInt` is the `unsigned long` -> `int` -> 64-bit conversion of a
session id, with scaled widths: `IntSize` values of an `unsigned int`, `LongSize` of
an `unsigned long`, and `UINT_MAX = IntSize - 1`. Test 9 kills the server between
clean-up and first add; that its helper may find no process to kill, and then uses a
line it never read, is left out. Only tests 1, 9 and 10 are drivers; the others make
subsets of the same calls. Sleeps are left out: nothing waits for time to pass.

In `UTHash` a record is named by its key and keys are numbered in the order of the adds;
statistics and bloom filter (`HASH_BLOOM` is off) are left out, and so is the user's
sort. In `SessionMessages` the fields that every conversion copies and nothing decides by
are left out (ports, interfaces, counters, time stamps), and `Done` empties the objects
of a call, which are locals of functions that have returned. In `NosServer` one request
of a stream is one step: the firewall has one call at a time, so there is one handler,
and the traffic thread changes neither a key nor a tuple, so nothing it does can fall
between the lookups and the insertion with an effect. `SkipAdd` bounds the adding. The
loops that search are stated by what they stop at: `nextSessionId` is the first free one of the keys
that its rounds try (`Tried`), `BatchIds` the ids a batch gets one after the other.

Undefined behaviour is explicit. `DataRace` is enabled when two threads are about to
touch the same memory and one writes (C11); `Dangling` when a thread follows a
pointer to a freed record; `ClosedOverflow` when an entry is written past the
array. After any of them nothing is claimed (`Halted`); the other behaviours of
the model are the executions in which the conflicting steps happened to be
ordered.

## 3. Runs

Runs that pass:

| run | instance | shows |
|---|---|---|
| `serial` | 1 thread, 3 ids, 4 addresses, table size 2 (+1), array 2, page sizes 0-2, streams of 1 and 2 | `TypeOK`; ids unique; a freed record is followed only by a listing resumed after a removal; the server implements `SessionStore` |
| `concurrent` | 2 threads, 2 ids, 4 addresses, table size 1 (+2) | capacity bound, array bound, no stuck session, whatever the interleaving; a scan is set back by nothing but an added session |
| `progress` | 3 threads: one collects, two add and delete a session each; 3 addresses, table size 1 (+3), page size 2, fairness | every call returns, but for a scan that meets unfinished adds for ever |
| `client_restart` | test 9, 5 sessions in batches of 2, up to 3 sessions beforehand of the ids 0, 1, 2, 9 and 11 with an `int` of 10 values, up to 2 kills | the clean-up leaves only sessions that no `int` can name, undefined behaviour comes only from one of those, sessions are reported once, none the running server acknowledged is lost |
| `client_retry` | test 10, 2 sessions in batches of 1, collected in pages of 1, before them a table that may hold the id 8 (an `int` of 8 values makes 0 of it), table size 1, two faults of any kind at any moment, a server that may stay dead, fairness | acknowledged sessions are in the table although a retried add runs beside the call it repeats; a call cut short loses at most a page; the driver ends |
| `uthash` | 6 adds with hash values 0-3 into 1 bucket, chains of 2 make it double | both lists well linked and counted, every record found whatever collides, chains bounded until doubling is given up, and `KeyedList` implemented |
| `messages` | streams of up to 3 over an array of 2 errors, ids 1, 6, 9 with an `int` of 8 values, table size 1 (+1) | every request arrives as asked, refusals account for the rest, answers are about the session asked for |
| `nos` | 3 keys (`maxSessionId` 4), 6 requests, ids that wrap at 4, 3 tuples, fairness | the two tables agree at every moment, a session is in one place, refusals have their reason, every closed session is reported |

Runs that end in a violation, each a disagreement of code and text:

| run | what the text says | what happens |
|---|---|---|
| `duplicate_ids` | ids are checked for duplicates | two streams enter the same id |
| `stale_cursor` | the listing has all current sessions | the next page starts at a freed record |
| `wrong_delete` | deletes the session of the request | a session that got its address since is deleted |
| `cleanup_retry` | the clean-up empties the table | a retried first listing call continues an old listing, and the clean-up returns OK |

Bounds. Each limit is met with room on both sides: the table fills (`HASHTABLE_SIZE`
+ 1 sessions, + 2 with two threads) and an address is left over, so that it is the
code that stops it; a page ends by a full array and by the end of the list; a scan
ends by its size and by the list; a second page exists; an address is reused after
a free; three sessions allow a removal before, at and after the cursor. Two threads
suffice for every race of a pair of macros; to keep a scan from its end takes three, one that
scans and two that take turns in putting an unfinished session behind the other's, each
deleted and added again once the scan has gone past it (`progress`). With two threads
an unfinished session is always the last of the list, and the scan ends behind it. The calls that `progress`
leaves out, lookups and listings, have no loop that another thread can lengthen: a page is bounded by its array. `concurrent` uses streams of one request,
since a thread may repeat its call; streams of several are in `serial` and
`client_restart`. `UINT_MAX` is above the ids; start key 0 stands for every key that
continues a listing, because the code compares only with `UINT_MAX`. The five
sessions of `client_restart` fill the table in the second batch and leave a last
batch that is cut; two kills let one fall into the clean-up and one into the adding,
or both into one loop. Of its ids, 0 to 2 pass the client library unchanged; 9 is `UINT_MAX`, with which a listing starts
over, and is turned into 59, which no session has; 11 is turned into 1, so that
its delete takes out another session, one of the same page or the one at which the next
begins. (An `int` of 10 values is not one of a power of two; the model only divides by it, and
the theorems hold for any width.) In `client_retry` one fault is enough for a
retry beside an abandoned handler, two for faults in two loops or in two calls of one;
and two server threads for the two handlers. The session 8 of its table is never deleted, since the
library asks for session 0: the clean-up must end all the same, and the first session then fills the table and the second is refused.
With pages of one the bound on what is lost is at its tightest.
Six adds let `uthash` double its array twice and more, with deletions between, and reach
the ineffective doublings that switch expansion off, since all hash values may collide
modulo 2 and 4; four hash values tell apart what lies in one bucket before a doubling
and in two after it. In `messages` the ids lie below the largest `int` (1), above it (6)
and above the number of `int`s (9); a batch of three overruns the array of two errors when
the table is full, and holds a request of one version between two of the other. In `nos`
the first two batches of two fill the three keys of the device and have a request refused,
a later request finds it full from any start of the search, the client's ids wrap round,
`{"p"}` makes two IPv6 sessions that differ only in their address collide, the traffic
thread can end in any walk, and a key is given out again after its session was collected.
`MaxFaults` bounds the environment only; nothing in the server or the driver is
bounded by the model, except the number of addresses.

Fairness. `WF(Run(t))`, and `WF(Serve(t))` below a client: the operating system
schedules the server's threads, and a handler never blocks on another one (there
are no locks). An add stream ends because the client library always calls
`WritesDone`, or the deadline cancels it. The server runs nothing of its own accord:
`progress` assumes nothing else of clients: none has to call. `nos` assumes that the
firewall's loop goes on and that the device serves its call (`WF` of `Client`, of
`Handler`), and nothing of the traffic thread, which may be slow or have ended; the
device needs no traffic to report what is closed. `client_retry` assumes of the driver's
process that it goes on: `WF` of some `DriverCall` or `NoServer` together, because a blocking call goes out to a server or
fails at once with `UNAVAILABLE`, and while the server is killed and started again
one of the two is always possible. It assumes nothing of `StartTestServer`: test 10 starts no
server, and the one that died may stay dead. Nor is any fault fair. Faults are
bounded, so an action that a fault disables is enabled again for good after the last one, and weak
fairness is enough. `DriverEnds` excepts a table with a session whose id is `UINT_MAX`:
there the driver does not end (section 5).

`CHECK_DEADLOCK` is on but for two runs: the models contain an explicit stutter where the
system may stop (undefined behaviour, a driver that returned). It is off in `uthash`, where
nothing is left to do once the bounded adds were made and deleted, and in `messages`,
which stops at an overrun of the array.

## 4. Proofs

The theorems hold for every value of the constants that satisfies the assumptions of the
module, and for nothing less than what the run's property says; where a theorem has a further
hypothesis, it is named below with the reason why the property fails without it.

**The server** (`SessionServerProofs`), for any threads, ids, addresses and sizes (finite set of
threads, ids are naturals, `NULL` is not an address, sizes are naturals, `BUFFER_MAX` at
least 1):

* `TypeCorrect`: `TypeOK`, from the inductive invariant `BaseInv`. Beside the types it has `ListOK` (while behaviour is defined,
  the linked records are those not freed, and none is linked twice) and `CallsOK` (labels belong to
  their call, requests carry what a client may ask for); the other theorems rest on it.
* `ScansAlwaysAdvance`: the action property `ScansAdvance`. A scan's distance to its end is the
  number of records from its saved successor on. A removal before that record or behind it
  changes the distance by none or by one; a removal of the saved successor itself leaves a pointer
  that is not linked, from which nothing is left to scan; and a turn of the loop takes
  the successor's own successor. Only `AddLink` makes the list, and with it the distance, longer.
* `CapacityCorrect`: `Capacity`, from `CapacityInv`, which counts the threads between
  their capacity check and their `HASH_ADD` together with the list. The check alone
  is not inductive: a thread that passed it still has its add to come.
* `BufferCorrect`: `BufferBound`, from `BufferInv` (a scan that goes on has not reached its
  size, a page its array).
* `NoStuckCorrect`: `NoStuckSession`.
* `UniqueIdsSerial`, `OnlyPagingDanglesSerial`: with one thread (`OneThread`), from
  `CheckedIdIsNew` and the fact that the pointers a handler holds are to linked records. With
  two threads ids are not unique: run `duplicate_ids`.

**The refinement** (`SessionStoreProofs`). `ImplementsStoreSerial`: with one thread the handlers
implement `SessionStore`. `SerialInv` gathers the invariants of the server with one thread and
`ServesAlone`: what a handler has checked still holds when it acts (the table has room, the
record it found has the id it looked for, the walk is at the oldest record, the page so far is
the part of the list behind the cursor). For each action of the server a lemma gives the abstract step or the stutter
under the mapping: an add takes effect at `AddLink` or at its refusal, a collection with
each `ClosedTake`, a page when its scan ends (`StorePhase`, `StoreCursor`). The freed record that
`start` may point to maps to a cursor nothing is claimed of, and a step into undefined
behaviour to the abstract step that promises nothing more. With two threads the
refinement is false: calls are not atomic.

**The client** (`SessionClientProofs`, `SessionReportProofs`, `SessionCleanupProofs`), for any batch
sizes, page size, number of sessions, retry attempts, server threads and tables left behind
by earlier clients:

* `ClientTypesCorrect`: `ClientTypeOK`, from `TypedInv`, which is `BaseInv` of the server with the
  driver's types: each call of the driver is one that `CallsOK` allows, and a handler's stream is
  what remains of the batch (`InputsOK`). No hypothesis.
* `AcknowledgedIsStoredAlways`: `AcknowledgedIsStored`, again under every fault and with any number
  of threads. `StoredInv` needs, beside the property, which handlers may still run: the one that serves
  the driver's call, and those it gave up (`Served`); before collecting none of them removes
  anything unless a delete call was cut short (`NothingRemoved`), which is what the property
  excepts; and the add call that will be answered is in order (`InOrder`: the requests read so far
  are each refused or in the table), although abandoned handlers enter the same ids
  beside it.
* `ReportedOnceSerial` and `AcknowledgedIsAccountedForSerial`. `OneCall` reduces the server to the one
  handler the driver waits for, so that `ServerInv`, proved of a lone thread, holds although
  `Threads` is any set. `OnePlace` strengthens `ReportedOnce`: no session is in two of
  the table, an answer on its way, and what the driver was told. `AcksInv` adds that what was
  acknowledged is in one of those places and that the answer is written in full before the
  call ends (`AllWritten`).
* `CleanupEmptiesSerial`, `WellDefinedSerial`, for any ids in the table. `Cleaning` relates the static
  `start` of the server, which outlives a call, to the driver's loop. `Listed(p, ids)`: every
  session whose id an `int` holds is in `ids`, to be deleted, or at the record `p` or behind it, where the
  listing goes on; and what is in `ids` is not, unless it is still to be listed. A page moves `p` on
  by the record it listed (`OneMoreListed`), a delete takes the first id off (`OneLessListed`,
  `NothingToDelete`), and when a page is empty, `p` is `NULL` and nothing an `int` can name is left. A delete
  asks for `AsInt(id)`, an id that an `int` does hold (`AsIntFits`: the conversion done twice is the conversion done once),
  so a session that no `int` can name is never removed. If the delete takes out the record `p`
  points to, it was therefore meant for such a session, and that session and the one it was
  confused with are a witness (`Confused`) that stays: the first is never deleted, and
  during the clean-up nothing is added. Only then does `start` dangle.
* `EveryAddedIsReportedUnlessFaults`: `EveryAddedIsReported`, which is about runs that met no fault;
  the invariant is under that condition (`FaultFree`), so that the constants may allow
  any. With `SmallIds` the clean-up leaves nothing (`CleanupLeavesNone`). `NewOnly` says that after the clean-up the table holds only what this driver entered.

Two hypotheses occur. `OnlyKills` (no deadline passes, no connection breaks; the server may be
killed at any moment) is that of the run `client_restart`: with deadlines the clean-up
leaves sessions behind (run `cleanup_retry`), a call that was given up loses what it
collected, and a delete that was given up can hit another session, as it does between two
threads in `wrong_delete`. `SmallIds`, of `EveryAddedIsReportedUnlessFaults` alone, says that the ids
found in the table fit an `int`: a session whose id does not is left behind by the clean-up, is
collected with the driver's own, and is then reported although the driver never added it. Ids the driver gives out itself are not restricted,
since it counts from 0 and never deletes them. The assumption `PageSizes = {PageSize}` says
that the driver is the only client and collects with one page size.

**The simulators** (`FwClientProofs`), for any size of the device's dictionary, any batches,
tuples and bound of the client's ids: `NosTypeCorrect`, `TablesAlwaysAgree`,
`EverySessionInOnePlace`, `EveryFetchFinds`, `RefusalsHaveReasons`. `FwInv` has for each call what may be
under way in which step of `run()` (`CallInStep`); that no client id is at two of
the dictionary, the requests still to be served, the errors and the reports that were not
processed (`IdsApart`); and the same of the stamps (`StampsApart`). `TablesAgree` alone is
not inductive: an answer on its way decides what the firewall will take out. That the
search of `nextSessionId` finds a free key whenever there is one (`RefusalsHaveReasons` needs
it) rests on its rounds trying each key once, and the ids of a batch on induction over
the batch, done with a set of numbers closed under successor (`NatSetInduction`, proved from
the well-foundedness of finite sets, since the library's induction theorem takes an operator
parameter).

**The messages** (`SessionMessagesProofs`): every property that `messages` checks, for any ids,
addresses, widths of `int` and `unsigned long`, table size, array size and stream length:

* `RequestsArriveCorrect`, `EnteredAsAskedCorrect`, `AnswersCorrect`, `OverflowCorrect`,
  `MessagesTypeCorrect` follow from `MInv`. What a reused object holds of earlier requests
  is arbitrary in it: `ToCppCarries` and `ToCSame` show of each conversion that its
  result carries the request whatever the object held before. `InOrder` then says that what
  was handed over, followed by what is on the wire, is what was sent; without the
  part on the wire the next read would be unconstrained. A refusal for each request at
  most (`Refusals`) bounds the errors.
* `RefusalsCorrect` adds `RInv`: every session handed over is in the table or among the
  errors, which no delete can disturb because no call but the add has a stream
  (`Quiet`), and an answer of `_OK` comes only after the whole stream was read (`Returned`).

The assumptions are those of the module: ids fit an `unsigned long`, the sizes are
naturals, and the widths are not 0.

**The hash table** (`UTHashProofs`): every property that `uthash` checks, for any number of
adds, any hash values that are naturals, any size of the first array and any threshold of at
least 1 (counts and sizes are naturals; the code's `unsigned` holds them up to 2^32 - 1):

* `UTHashTypeCorrect`, `FsckHolds`, `FindIsExact`, `ChainsBounded` follow from
  `TableInvariant`, `Spec => []UInv`. `UInv` says that there is a `Structure`: the records of the
  application order are linked both ways from `head` on; each bucket has a chain that is
  linked both ways, counted, and hashes there; the chains hold exactly the records of the
  order (`Chained`); the array is a power of two and its chains are bounded. Beside it, the
  records are numbered up to `added`, and a walk stands at a linked record and has saved the
  one after it. `Fsck` alone is not inductive: it does not say that a chain's
  records hash to its bucket, that no record is in two chains, or that what is in
  a chain is in the order, and any of these would make a later delete unlink the wrong neighbours.
* `TableImplementsList` is the refinement of `KeyedList`: a lemma per operation (`AddRefines`,
  `DeleteRefines`, `BeginRefines`, `VisitRefines`) gives the step of the list. What a walk has
  still to visit is the part of the application order from its record on, and that a
  deletion leaves this part as it was (`RestKept`) is why the saved successor is good.

The argument goes from the links up. A list is a sequence `s` without repetition that the
links spell out (`TwoWay`); `ListPush`, `ListAppend` and `ListDrop` say what writing the two to
four links of a push, an append and an unlinking makes of it. `PushKeepsChains`,
`DelKeepsChains`, `AppendedKeeps` carry that to the table. For a doubling, `MoveKeepsRelinked`
is one turn of the loop, `MoveChainRelinks` and `MoveAllRelinks` the two loops: as records are moved,
those that are not yet moved keep their old links, so the loop reads the chain it began with.
`Follow` and the two loops are recursive functions. That such a function exists, and what it computes, is
proved by induction as well: over sets of numbers (`NatSetInduction`, from the least
element of a set of numbers, which is from the well-foundedness of finite sets), since
the library's induction theorem takes an operator. `Follow` is cut off after `MaxAdds + 1`
links, and `ListIsShort` shows that no list reaches the cut.

Two things changed for the proof. The bound of `ChainsAreBounded` used to be stated without the
last `+ 1`, which is false: a chain of one over the ideal length has `expand_mult` 1, and with a
threshold of 1 no other part of the bound covers it. The run, with a threshold of 2,
never meets that; the property is now stated, and proved, for every threshold. And the
loops of `Expand` were a fold over one sequence of all records; now they are the two nested loops
of the code.

**Only model-checked.** The liveness properties `EveryCallReturns`, `DriverEnds` and
`ClosedIsReported`, which rest on fairness and are out of the prover's reach, and of the safety
properties `LossIsBounded`, which counts what abandoned handlers have taken. Every other
safety property of a passing run has a theorem. The claims of texts in the violation runs are false.

## 5. Known disagreements without a run of their own

* `getAllSessions` ignores the page size of its request: `src/opof_session_server.cc:144`
  passes `BUFFER_MAX`. `include/opof.h:213` documents the parameter.
* Nothing is locked: `HASH_ADD` in one thread and `HASH_ITER` and `HASH_DEL` (`src/opof_server_test.c:278`) in another reach the same
  links and counters, which is a data race. `src/tests/pythonSimulator/fw_sessions_client_simulator.py:273` expects
  sessions to be added and collected in parallel. The model stops at a race (`DataRace`).
* The capacity is checked session by session as the stream is read, so the sessions of a batch before the
  first refused one stay in the table. `src/protos/openoffload.proto:60` has none of them inserted.
* The scan deletes and frees closed sessions before they are written, and the result of `Write` is not used: what a
  call that was cancelled in between collected is never sent (`lost` in the model).
  `src/doc/Integration_Faq.md:60` has it streamed to the application.
* Page size 0 never stops a scan, so it writes past its response array of `BUFFER_MAX` once the table
  has more closed sessions (`ClosedOverflow`). `src/protos/openoffload.proto:322` says that 0 turns off paging.
  `BufferBound` is about the page sizes the array can hold.
* `opof_delete_all_sessions` overwrites the status of every delete. A session whose
  delete met its deadline after the last listing stays, and the clean-up returns OK:
  `CleanupEmpties` is checked for kills and not for deadlines.
* A session id of 2^31 or more is passed as an `int` by `getSessionClient` and
  `deleteSessionClient` and reaches the server as another id. The clean-up deletes
  nothing for it, goes on from the static `start`, which is `NULL` after the last page, gets an
  empty page, and returns OK with the session in the table. When another session has the id that
  is left of it, that one is deleted in its place; if the next page was to begin there, the server
  follows a freed record. `CleanupEmpties` and `WellDefined` say that there is nothing worse.
* A key equal to `UINT_MAX` starts the listing again: with a session of that id at the end of a page, which
  the clean-up cannot delete either, the driver gets the first page again, and, unless another session
  takes that place, for ever. `DriverEnds` excepts that id, and is false without the exception.
* A collecting call that met its deadline looks like an empty table: the loop ends and
  prints "Successfully closed". `EveryAddedIsReported` is stated for runs without faults.
* The retry of `getClosedSessions` in test 10 overwrites what the first call delivered;
  `LossIsBounded` says how much a call that was cut short can cost.
* `start_test_server` forks, and its child runs the server and then returns into the
  driver's loop (`src/opof_test_util.c:73`); every retry of test 9 starts one more. The
  model has one driver and at most one server at a time.
* `src/opof_clientlib.cc:96` documents a bitmask of the sessions that failed; nothing sets
  one. The response has a list of errors instead, and `getSession` of an unknown id leaves
  zeros in the response, which read `_ESTABLISHED` and `_ACCEPTED`.
* An IPv6 session is entered with whatever IPv4 addresses the handler's struct held, since
  `opof_add_session_server` copies those fields only (`src/opof_server_test.c:172`).
* `findSessionByTuple` of the Python device (`:241`) compares IPv4 addresses and ports, which
  are 0 and equal for IPv6 sessions that differ: the second is refused as existing.
* The traffic thread of the Python device ends at the first change of the dictionary's
  size during its walk; no session closes by itself from then on.
* The Python device closes a session before it sets the close code (`:284`), so a
  collection in between reports `_NOT_CLOSED`.
* Two handlers of the Python device at once could give out one key twice, as
  `nextSessionId` and the insertion are not locked. The firewall never has two calls.
* The firewall's handler of an `RpcError` in `session_addSessions` goes on to read a response
  that was never assigned (`fw_sessions_client_simulator.py:144`) and ends the process. A
  firewall that is started again gives out ids that the device still has.
* A delete call abandoned in the clean-up can remove a session that was added later
  at the address it holds; `AcknowledgedIsStored` excepts faults of that loop.

## 6. Not modelled, and the plan

1. Proofs: `LossIsBounded` for any number of faults and handlers; the safety of the client's
   clean-up when deletes meet a deadline, which needs another property, since
   `CleanupEmpties` is false there.
2. Tests 2-8 and 11 of the drivers, which make other sequences of the same calls.
3. Two handlers of the Python device at once, its `deleteSession` and paged listing, which
   the simulated firewall does not call.

Left out for good: the tunnel server (`src/tests/basicIPT/tunnels_server.py`: one call after
another on one dictionary, and field validation that a unit test reaches), TLS set-up,
option parsing, printing, configuration files (pure I/O), the generated protobuf code, and
`src/tests/basic` (canned replies).
