# A TLA+ specification of test-rpc

The repository shows remote procedure calls for file I/O. Its core is in C: a
library that is preloaded into a program and replaces twelve functions of the C
library (`open`, `close`, `read`, `write`, `lseek`, `truncate`, `ftruncate`,
`stat`, `fstat`, `fsync`, `rename`, `unlink`) by stubs, and a server that
executes the calls the stubs send to it. Around it are servers of the same kind in
Go, Java and Python, and three smaller examples of reaching into another process:
Frida hooks, a D-Bus service and a DLL injected into a Windows program. This
directory models them, checks the models with TLC, and proves with TLAPS every invariant
that the runs check, and the refinement, for all values of the constants. `PROJECT.json`
lists components, runs, mutants, the source lines behind every definition, findings,
hazards and theorems.

## 1. Inventory

| part | source | state it keeps | operations |
|---|---|---|---|
| C server, `main` | `c/server.c:390` | `thread_index`, `thread_id[60]`, the one `argument`, the listening socket | accept, receive a request, start a thread, join 50 threads, leave on any error |
| C server, `client_handler` | `c/server.c:52` | a thread's copies of the three fields of `argument`; the process's descriptors and heap | decode the request, execute it, send, shut down, close, free |
| C server, `signal_handler` | `c/server.c:373` | - | end the process on SIGINT |
| C stubs | `c/rpc_stubs.c` | static `sock`, cached `dlsym` results, cached host and port | twelve stubs over `connect_to_server`, `send_data`, `recv_data`, `recv_data_buf` |
| message format | both files | - | size, function code, arguments; value, data; descriptors renumbered `INT_MAX - fd` |
| C test programs | `c/local.c`, `c/remote.c` | a descriptor and a buffer | a fixed sequence of calls |
| Go server and clients | `go/` | `files`, a map from descriptor to file, without a lock | one method per function, a goroutine per call |
| Java server and clients | `javarpc/` | `files`, a `HashMap` keyed by `hashCode`, unsynchronised | one RMI method per function |
| Python server and clients | `python/` | none beyond the process's descriptors, which clients are given as they are | one rpyc method per function, a thread per connection; end on SIGINT |
| Frida control script | `frida_control_script.py` | `msgs` | spawn, attach, load, resume, wait, print |
| Frida hooks | `frida.js`, `frida_instrumentation_script.js` | `statbuf`, `ran`, `openListener`; `this.removeHook` per call | `onEnter` and `onLeave` of `open` and `stat64` |
| D-Bus server and client | `c/sd_bus_server.c`, `c/sd_bus_client.c` | the connection, the queue of messages on it | take the name, process and wait; call `Multiply` |
| Windows injector | `c/dll_injector.c` | the suspended process, the block with the path | create, allocate, write, start a thread, wait, free, resume |
| Windows shim and program | `c/winshim.c`, `c/winlocal.c` | `originalCreateFileA`, an entry of the import table | find the entry, unprotect, save, overwrite; call through the table |
| macOS shim | `c/shim.c` | none | a static table for the linker |
| Rust, C#, Node.js programs | `rust/`, `csharp/`, `nodejs/` | none | local file I/O |

How they interact. A stub opens a TCP connection for each call, sends one
request, receives one response and closes. The server accepts in `main`, reads
the request there, and hands the connection to a new thread through
`argument`, a variable on `main`'s stack of which every thread gets the address.
Threads share the descriptor table: the files they open for clients, the clients'
sockets, and nothing says whose a number is. After 50 threads `main` joins all of
them before it accepts again. On the client, threads of the program share `sock`.

What is hard: `main` overwrites `argument` while a thread copies it; descriptors
are reused under threads that still hold the number; a recv may return part of a
message; library calls fail in the middle of a call; clients go away; a join
barrier stands between the clients and the accept loop. In the other servers, calls
overlap on a map without a lock, and a file is closed in one step and forgotten in
another. In the examples, code runs inside a process that may run already, and
shares variables with callbacks of other threads.

What makes the parts correct:

* server: each request is executed once, by its thread, and answered to its
  caller; threads are all joined and no slot of `thread_id` is lost; payloads are
  freed once; descriptors held by clients denote their files; the barrier opens;
* stubs: every call returns, with the answer to its own request or an error, and
  leaves no socket behind;
* format: the server makes the call the program meant, the program gets what it
  returned, and exactly the remote paths and descriptors travel;
* Go, Java, Python: a key denotes the file it was given out for, no open file is
  forgotten, no closed one remembered;
* Frida: the hooks report the calls they are meant for and read no dead buffer;
* D-Bus: who finds the service gets the product, and everybody gets an answer;
* Windows: the hook is complete before the program runs, and the program does run.

## 2. Modules

| module | models | composes |
|---|---|---|
| `RpcServer` | `server.c`: accept loop, threads, barrier, descriptors, payloads, with the clients as far as the server sees them | |
| `RpcWire` | one call end to end: the twelve stubs, the bytes, the twelve cases of the switch, and back | |
| `RpcStubs` | `rpc_stubs.c`: the library calls of a remote call, the shared `sock`, errors | |
| `RpcService` | nothing of the code: what a file service promises its callers | |
| `RpcServerImplements` | how `RpcServer` represents `RpcService` | extends `RpcServer`, instantiates `RpcService` |
| `MapServer` | `server.go`, `Server.java`, `server.py`: concurrent calls on a map of open files, or on none | |
| `FridaHooks` | the control script, the callbacks and a hooked program (`local.c` among others) | |
| `SdBus` | `sd_bus_server.c`, `sd_bus_client.c` and the bus between them | |
| `DllInjection` | `dll_injector.c`, `winshim.c`, `winlocal.c` | |
| `RpcServerProofs` | proofs about `RpcServer` with any clients and failures | extends `RpcServer` |
| `RpcServerCallProofs` | proofs about its calls with one client, and of the refinement | extends `RpcServerProofs`, `RpcServerImplements` |
| `RpcWireProofs`, `RpcStubsProofs`, `MapServerProofs`, `FridaHooksProofs`, `SdBusProofs`, `DllInjectionProofs` | proofs about these modules | extend them |
| `MC...` | sets, sequences and symmetry for the runs | extend the above |

### RpcServer

Connections are numbered as they are accepted, and thread `c` is the one created
for connection `c`, so "the wrong connection" is just another number. `main` is
the control point of `main()` (`accept`, `recv`, `store`, `create`, `join`,
`exited`); `thread[t].pc` that of a handler (`start`, `send`, `shutdown`,
`close`, `cleanup`, `done`). The race is modelled at the grain it has: `Store(f)`
writes one field of `argument`, `Load(t, f)` reads one, in any order. `fdt` is the
descriptor table, a function from numbers to a socket, a file or nothing;
`accept` and `open` take the lowest free number. `Execute` is the whole switch for
one request. Of the twelve functions only `OPEN` and `CLOSE` change server state
other than the files' contents, and only `WRITE` uses the payload's size, so the
other nine are one kind, `OTHER`; `RpcWire` tells the twelve apart.

Undefined behaviour is a choice: a block that a short `recv` did not fill, or that
another thread has freed, yields any request (`Garbage`); a double `free` may
abort (`DoubleFreeAborts`) or not; a `WRITE` with another payload's size may crash
(`WildWriteAborts`) or not. A `send` on a connection that another thread has shut
down raises SIGPIPE, which the server does not handle (`SendKills`).

Left out: what the calls do to files, the set-up before the loop, the reset
that a server socket closed with unread request bytes would cause, and what a `read` or
`write` does to a stale number that has come to denote a socket (with one client
`HandlesDenoteFiles` says that there is none). `open`, `read`, `write` and the others may
block for ever: see Fairness.

### RpcWire

A byte is a pair of the object it is part of and its index, so a `memcpy` with a
wrong offset or size yields bytes that do not decode. Each stub is an operator
that gives the size it computes, the arguments it copies and what it expects
back; each case of the switch is one that gives the call it makes. `Marshal`,
`RecvSize`, `RecvPayload`, `Execute`, `RecvReply` and `Return` are the steps of a
call. The client remembers one open file, so descriptors go out renumbered and
come back. `read` and `write` may do less than asked for: of the `nbyte` bytes that
`READ` answers, those that were not read are `Unset`, whatever the heap held, and the
stub copies them to the caller with the rest. `ShortRecvs` names the `recv` calls that
may return early. `WireAssumption`
says of the inputs what C does: a path has no NUL before its end, sizes are positive,
and descriptors are at most INT_MAX / 2, where the numbering divides.

### RpcStubs

Each library call is a step, because each reads `sock` again. The twelve stubs
are three kinds: those that allocate the request (`HEAP`), `read`, which
allocates the response after it has sent (`READ`), and the rest (`STACK`). `conn`
holds the sockets: their state, the requests sent on them, and whether an answer,
or the end of the stream, is there. `Faults` names what may fail. A `send` on a socket
that is not connected, or whose peer has closed, may raise SIGPIPE, which ends the
program (`SendKills`, the control point `dead`).

The server is there as the stubs meet it. `main` takes the connections in their order and
waits in `recv` for the request of each (`server.c:442-448`), so that one which is
connected and stays silent (`Silent`) keeps it from all later ones; a request it comes
to is answered (`Answer`), or never is (`Stranded`): its file call blocks, its handler
leaves by `goto cleanup`, loses the race on `argument`, or keeps the barrier closed. The
server may also be gone (`ServerGone`), which a stub sees as the end of the stream or as
a reset. `overlap` is history: a call was made while another was in a stub or before the
server had done with an earlier one.

### RpcService and RpcServerImplements

`RpcService` has calls that are made, executed at one instant and returned, and
the set of descriptors in use; a call may fail before it is executed and never
after. In `RpcServerImplements` a connection is a call. It is made when its request
is sent, executed when a thread has run the switch on its payload, and returned
when its client has left; its value is in the thread until then. The files of the
service are the entries of the server's descriptor table that are files, so that a
socket taken for a file, a second execution or a stray `close` is a step the
service cannot make.

### MapServer

One module for the three servers, told apart by the variable `server`, because they
differ in little but the key: the descriptor in Go, `hashCode()` in Java, and in
Python the number itself without a map. A call is served in the steps between which
others can come: `OpenFile` and `Insert`; `Lookup`, `Act` and, for a close, `Delete`.
`USE` is every function that looks a file up and does something to it.
Overlapping accesses of which one is a write are undefined in Go and Java: one access
may be lost, a write without effect or a read that finds nothing (`LostAccess`), Go's
runtime may notice and end the process (`GoRaceAborts`), or they happen in some order.
(A `HashMap` corrupted so that an access loops is not modelled.) A file nothing refers to is
finalized, and so closed. `CloseThrows` is Java's `close()` throwing before the
removal. `mishaps` is a history of the three things that can spoil an entry: `reuse`, an
open is given a key that a close is yet to delete; `collision`, an open replaces the
entry of an open file; `race`, an access is lost.

### FridaHooks

A program is a sequence of `open` and `stat64` calls per thread, of the watched
file or of another. A call is entered (with the `onEnter` of its hook), does its work, and
leaves (with `onLeave`); Frida runs one callback at a time. `statbuf` and `ran` are
the script's; `this.removeHook` is per call and so part of the thread's call.
`onLeave` without a noted buffer reads through a null pointer, which throws before
`ran` is set. `exports` is what the script finds to hook: a C library that does not
export `stat64` ends it after the first hook, an unsupported platform before it. `calls` and `filled` are history, for the properties.

### SdBus

The bus delivers a call to the owner of the name, fails it without one, and fails
what an owner that leaves has not answered. A second server cannot take the name
and ends. The product is computed in the integers `-Half .. Half - 1`, where `Half` is
2^63 for the service, and wraps around. Any library call may fail, and a
client's call may time out while the server still answers it.

### DllInjection

The three threads are the injector's, the remote thread that runs `LoadLibraryA` and in
it `DllMain`, and the program's. The import table is a sequence of a library's name
and a function, bound in `iat`; the linker makes one entry for each function that the
program calls, which `DllInjectionAssumption` says. `HookIAT` finds its entry by the
library's name as written and by the address. `VirtualProtect` and `WriteProcessMemory` are not tested
by the code: their failures go on, to a write that ends the process and to a load
that fails.

## 3. Runs

Every property of a passing run has a mutant: a variant of one action or operator
with a plausible bug, under which TLC finds that property violated.

| run | result | what it shows |
|---|---|---|
| `RpcServer_single` | holds | calls of one client never overlap, although the previous handler may still be closing its socket while `main` stores the next connection: each call is served by its thread (`ServedByItsThread`), answered once and correctly (`RepliesReachTheirCaller`) and returns unless a file call never does (`EveryCallReturns`); payloads are not used after free (`NoUseAfterFree`); descriptors denote the client's files (`HandlesDenoteFiles`) and none is orphaned (`NoOrphanedFile`); and the server implements `RpcService` (`ImplementsService`) |
| `RpcServer_pair` | holds | calls overlap: the race stays within a batch (`RaceConfinedToBatch`), spares its last thread (`LastOfBatchServesItself`) and does not keep the barrier closed; a file call that blocks is all that does (`BarrierOpens`) |
| `RpcServer_faults` | holds | one failure, short read or SIGINT and one abandoned call, at any point: `TypeOK`, `EveryLiveThreadWillBeJoined`, `BatchInv`; and `main` always leaves the `recv` it waits in, although a request may come in parts or its client go away (`AcceptLoopGoesOn`) |
| `RpcServer_crosstalk` | violated | two calls overlap: one client is sent the other's result (`server.c:468`) |
| `RpcWire_whole` | holds | whole messages, all functions: `ArgumentsIntact`, `ResultsIntact`, `DispatchIsRight` |
| `RpcStubs_single` | holds | library calls fail and the server goes away: every error path closes the socket (`NoSocketLeak`); without overlap every result is -1, the call's own answer or, when its connection was ended unanswered, what the buffer held, since `recv_data` takes 0 bytes for success (`OwnReply`); and `recv` is on the call's own connection (`ConnectedWhenReceiving`) |
| `RpcStubs_returns` | holds | two threads on one `sock`, every library call may fail, the server may be late, silent or gone: calls mix or fail, but each returns, or SIGPIPE ends the program, unless the server never answers it or overlapping calls left a connection open without a request (`EveryCallReturns`) |
| `RpcStubs_threads` | violated | another thread's call replaces `sock` before `recv` (`rpc_stubs.c:98`) |
| `MapServer_overlap` | holds | two clients of each server: keys denote their files (`KeysDenoteTheirFiles`) and no file is lost (`NoFileIsLost`) unless a descriptor is reused between a close and its delete (Go), a hash code is shared (Java) or an access to the map is lost (both); never otherwise, and never in Python. Whatever is reused or shared, an entry of a closed file is about to be deleted (`ClosedEntriesAreLeaving`), and every call returns (`EveryCallReturns`) |
| `DllInjection` | holds | any two Windows calls fail: the table is final before the program runs (`HookedBeforeItRuns`), the hook reaches `CreateFileA` (`HookReachesCreateFile`), the path lives as long as it is read and no longer (`PathLivesLongEnough`), and the program goes on (`ProgramGoesOn`) |
| `SdBus` | holds | two servers, two clients, any order, one failure: `ResultIsTheProduct`, `FoundMeansServed`, `EveryClientEnds` |
| `FridaHooks` | holds | `local.c`, all programs of one thread with four calls, all of two threads with two each, on each platform: at most one size, from a watched call still in progress (`SizeIsReadFromALiveBuffer`); with one thread the size of the first watched `stat64` (`FirstWatchedSizeIsReported`) and the opens up to the first watched one (`OpensReportedUntilWatched`); the control script prints (`MessagesArePrinted`) |

The properties of `RpcServer_single` are false with overlapping calls, and
`RpcServer_crosstalk` shows how; those of `RpcServer_pair` and `RpcServer_faults`
are what remains true whatever the clients do. The exceptions in
`KeysDenoteTheirFiles` and `NoFileIsLost` are each needed: without any one of them TLC
finds the lost entry. With two threads, `FirstWatchedSizeIsReported` does not hold:
one thread's `onLeave` may read the size of another's call before it is filled in.

The passing runs leave out, by a constant each, what the code does not handle. With
that constant changed TLC finds these too:

* `RpcServer!EveryCallReturns` with the constants of `RpcServer_crosstalk`, under `FairSpec`:
  both threads read the second connection's `argument`, and the first client is
  neither answered nor disconnected (`server.c:473`);
* `RpcServer!EveryCallReturns` with `MaxFaults = 1`: a handler that fails, in a `malloc` of
  its switch or in `send`, goes to `cleanup`, which does not close `client_socket`
  (`server.c:349`), and its client waits for ever;
* `NoOrphanedFile` with `MaxFaults = 1` or `MaxAbandons = 1`: the answer to an `open` that
  succeeded is lost, and nobody closes the file (`server.c:86`);
* `ArgumentsIntact` with `OFlags = {66}`, `O_CREAT | O_RDWR`: the mode is neither sent
  nor used, because `oflag` is compared with `O_CREAT` as a whole
  (`rpc_stubs.c:200`, `server.c:79`);
* `ArgumentsIntact` with `ShortRecvs = {"size", "payload"}`: a request that arrives in
  parts is executed as something else (`server.c:462`);
* `ArgumentsIntact` with `Targets <- MixedPaths`: `rename` drops two characters of a
  new name that has no prefix (`rpc_stubs.c:685`);
* `ResultsIntact` with `ShortRecvs = {"reply"}`: a response that arrives in parts is
  returned as a success (`rpc_stubs.c:174`);
* `NoSocketLeak` with `"alloc"` in `Faults`: `read` without memory for its response
  returns with the socket open (`rpc_stubs.c:327`);
* `RpcStubs!EveryCallReturns` without its first alternative: the second thread's `socket`
  replaces `sock` between the first one's `connect` and `send`, both requests go out on
  the second connection, and `main` waits in `recv` (`server.c:448`) on the first, which
  nobody uses and, both threads being in `recv`, nobody closes.

### Bounds

`BatchSize` 2 and `Slots` 3 stand for 50 and 60. Two threads suffice for the
race, and a second batch shows the slots being reused: `RpcServer_single` makes
four connections, the others three. Three descriptors (two in `RpcServer_faults`)
are few enough to be reused at once and, in the latter, to run out. One fault and
one abandoned call put every error path next to every other step; the theorems
below remove the bounds for the invariants they state. `RpcWire` uses the real
sizes but for `struct stat`, paths of no, one and two characters behind the prefix
and paths without it, lengths 0, 1 and 3, and the descriptors 0, 4 and INT_MAX / 2
at the edge of the numbering. `RpcStubs` makes five calls (three, of `read`, the
stub with the most exits, with two threads) over two descriptors, so that a leak uses
them up. `MapServer` makes as many
calls as it takes to close a file, reuse its descriptor or hash code and use it
again while another call is in progress, over two descriptors and two hash codes.
`SdBus` uses `Half = 128`, integers of 8 bits, so that products overflow.
`DllInjection` needs no bound but that on failures; its import tables name the library as
the shim expects, in another case, or list it after another. `FridaHooks` lets four calls pass, two more than it
takes for a second watched call to follow an unwatched one.

### Fairness

`RpcServer!FairSpec` assumes weak fairness of `main`'s steps, of each handler's and
of each client's once it has connected: the threads are scheduled by the kernel
and every step is either a computation or a library call that returns when its
condition holds. The file calls are not among these: `open`, `read` and `write` of a FIFO,
or of what a stale number denotes, may block for ever, so that nothing is assumed of a
thread that is at such a call (`InCall`), and `BarrierOpens` and `EveryCallReturns` make
an exception of behaviours in which one stays there. A client that has connected sends
its request, as `send_data` does at once. Nothing obliges a client to call again, and
neither failures nor SIGINT ever have to happen. `RpcStubs!FairSpec` assumes the same of a
thread in a stub, and that the server answers a request that `main` has come to, unless
that request is stranded or the server gone, which either may be at any time. `recv`
failing is not assumed. `MapServer!FairSpec` assumes that goroutines and threads are
scheduled and that a client notices when its server is gone; `SdBus`, `DllInjection`
and `FridaHooks` that the processes and threads are scheduled. No failure, race or
finalizer ever has to happen, and nobody has to call.

Deadlock is not checked in `RpcServer`, `RpcStubs` and `MapServer`, where the bounded
number of calls ends the behaviours, nor in `SdBus`, `DllInjection` and `FridaHooks`, whose
programs end; it is checked in `RpcWire`. That nobody is stuck is what the liveness
properties say.

## 4. Proofs

Every invariant of the passing runs is also a theorem, `Spec => []Inv`, for every value
of the constants that the module's assumption (and, where named below, a hypothesis)
allows: any number of clients, threads, calls, descriptors and failures. Each proof has
the same shape. The invariant is seldom inductive, so an inductive one is stated as a
conjunction of named parts; one lemma shows it initially, one lemma per action (or per
actor) shows that a step preserves it, a theorem combines them, and the properties follow
from it.

| module | inductive invariant | theorems, and the property each states | hypothesis |
|---|---|---|---|
| `RpcServerProofs` | `TypeOK`, `BatchInv` | `TypeCorrect` (`TypeOK`), `Batches` (`BatchInv`), `RaceConfined` (`RaceConfinedToBatch`), `LastServed` (`LastOfBatchServesItself`), `NoThreadLost` (`EveryLiveThreadWillBeJoined`) | none |
| `RpcServerCallProofs` | `CallInv`, over the above | `Calls`, `ServedByOwnThread` (`ServedByItsThread`), `RepliesArrive` (`RepliesReachTheirCaller`), `PayloadsLive` (`NoUseAfterFree`), `HandlesSound` (`HandlesDenoteFiles`), `FilesOwned` (`NoOrphanedFile`), `Refinement` (`ImplementsService`) | `Sequential` |
| `RpcWireProofs` | `WireInv` | `Wire`, `Arguing` (`ArgumentsIntact`), `Resulting` (`ResultsIntact`), `Dispatching` (`DispatchIsRight`) | `Handled` |
| `RpcStubsProofs` | `StubInv` | `StubsSound`, `Connected` (`ConnectedWhenReceiving`), `NoLeak` (`NoSocketLeak`), `OwnReplies` (`OwnReply`) | `OneThread`; for `NoLeak` no `"alloc"` in `Faults` |
| `MapServerProofs` | `Struct`, `Keyed`, `MishapInv` | `Maps`, `MishapsExplained`, `TypeCorrect` (`TypeOK`), `ClosedLeave` (`ClosedEntriesAreLeaving`), `KeysDenote` (`KeysDenoteTheirFiles`), `NoneLost` (`NoFileIsLost`) | none |
| `FridaHooksProofs` | `HooksInv` | `Hooks`, `TypeCorrect` (`TypeOK`), `LiveBuffer` (`SizeIsReadFromALiveBuffer`), `FirstSize` (`FirstWatchedSizeIsReported`), `OpensReported` (`OpensReportedUntilWatched`) | none |
| `SdBusProofs` | `BusInv` | `Bus`, `TypeCorrect` (`TypeOK`), `Product` (`ResultIsTheProduct`), `Served` (`FoundMeansServed`) | none |
| `DllInjectionProofs` | `InjectionInv` | `Injection`, `TypeCorrect` (`TypeOK`), `Hooked` (`HookedBeforeItRuns`), `HookReaches` (`HookReachesCreateFile`), `PathLives` (`PathLivesLongEnough`) | none |

The hypotheses are those of the passing runs. Section 3 names, for most of them, the run
or the constant with which TLC finds a property violated, and they are as weak as the
proofs need, not always as weak as the property would bear:

* `Sequential`: one client, no failures (`MaxFaults = 0`), no abandoned calls
  (`MaxAbandons = 0`). The number of calls, the batch and the descriptors are free. With
  an abandoned call, after which the client calls again while its first call is served,
  TLC finds each of the five properties violated; with a failure
  `RepliesReachTheirCaller`, `HandlesDenoteFiles` and `NoOrphanedFile`. It finds
  `ServedByItsThread` and `NoUseAfterFree` true with one failure, which is not proved.
* `Handled`: messages arrive whole, a mode goes with `O_CREAT` alone, `rename` is given a
  remote name. `ArgumentsIntact` needs each of them. Of `ResultsIntact` and
  `DispatchIsRight` TLC finds that whole messages are enough, which is not proved.
* `OneThread`: one thread in the stubs. Any library call may fail but, for `NoLeak`, the
  `malloc` of `read`'s response.

### Batches

`RaceConfinedToBatch`, `LastOfBatchServesItself` and `EveryLiveThreadWillBeJoined` need
to know which connection `argument` holds and which threads are in which slots.
`BatchInv` says it: with `Created` threads created so far and `InBatch` of them in the
current batch, the batch is the connections `BatchBase + 1 .. Created`, connection
`BatchBase + i + 1` is in slot `i`, all earlier threads have ended, at the barrier so
have those below `thread_index`, and a field of `argument` is of the newest connection or
of the one before it, according to where `main` is. A handler can then only copy its own
connection's field or a later one's. The steps split by actor: `ClientFrame` and
`HandlerFrame` say what clients and handlers leave alone, `BatchMain` treats `main` action
by action, and `TypeCorrect` rests on `ClientType`, `MainType` and `HandlerType`.
`TypeOK` keeps `thread_index` below `BatchSize`, hence within `thread_id`.

### Calls and the refinement

With one client the previous handler may still be closing its socket when `main` stores
the next connection. That it does no harm takes four facts that hold only together:
`ArgsInv`, a thread has copied its own connection's fields or none, because it loads them
before it executes and the client does not call again before it is answered;
`ReplyInv`, the client is there until the one reply is sent; `SocketInv`, the number
`accept` returned is the connection's until `close`, so no `OPEN` can be given it; and
`FileInv`, a file's entry is the one its `OPEN` returned and the client holds it, is about
to be told of it, or has asked to close it. `BatchInv` supplies what `argument` may hold.

`Refinement` maps each step: `Connect` and `main`'s steps stutter, `Send` makes a
call, `Execute` executes it, `ReceiveReply` and `ReceiveNothing` return it, and a
handler's other steps stutter. `MappedNow` writes the abstract call of every connection as one expression of the
state, `ServiceStutter` and `ServiceUpdate` say when it is unchanged or changes at one
connection, and the rest is a lemma per action. An earlier form of the mapping had `CASE`
arms that overlapped, of which TLC took the first; the proof did not go through, and the
arms now exclude one another.

### The data path

`At(p, off, b)` says that buffer `p` holds the bytes `b` from offset `off` on. The lemmas
on it are about the operators of the module: what is encoded is found by a `memcpy` at
its offset (`FieldFound`, `DataFound`), a string is found as far as its NUL (`StringFound`),
concatenation leaves the one part and shifts the other (`Joined`, `Beside`). On them,
`Arguments` and `Request` say what each of the twelve stubs lays out, `Served` that the
matching case of the switch reads it back, `Answered` the same of the response, and
`Upper` that renumbering exchanges the two halves of the numbers. `WireInv` says
what stream and buffers hold between the steps. No size of a type enters but through
`SizeofInt` and the others, so that a wrong offset would have to be wrong for all of them.

### Stubs

`SockInv`: `sock` is the socket of the call in progress, the newest one, in the state its
steps have brought it to. `OnlyInv`: no other socket is open. `AnswerInv`: what there
is to receive on it is the answer to this call or the end of the connection, and the
result is as `OwnReply` says. `OnlyInv` is guarded in `StubInv` by its hypothesis, so that
one induction serves all theorems.

### Map servers

`Struct` holds whatever befalls the map: numbers of files are unique, calls have at each
step what it needs, open files and descriptors correspond, an entry is under the key of
its file. `Keyed` holds until the first mishap: a key is held by one client or being
closed by one call, and denotes an open file until then. Both properties follow.
`MishapInv` adds that in Go an `Open` never replaces the entry of an open file, because the
key is a descriptor and those of open files differ, and that nothing befalls Python, for
which the exceptions are void.

### Frida, D-Bus, Windows

`HooksInv`: until a size is reported, the buffer noted is that of a call which is still
to leave through the hook, which makes the read safe for any number of threads; with one
thread, the call in progress is the latest, and so the size reported is the first one's.
`OpensReportedUntilWatched` is itself inductive with `OpenInv`. `BusInv`: messages wait
only at a server in its main loop, and a value that answers a call is the product of its
arguments; `Multiplication` shows that the product computed is in range and exact where
the type can hold it. `InjectionInv`: where the injector, the remote thread and the
program are with respect to one another, and that the table is as it was linked until its
one wanted entry is overwritten, last. The assumption that a function has one entry is
needed: with two entries for `CreateFileA` only the first would be hooked.

### Only model-checked

The liveness properties, which need fairness and `ENABLED` and so are out of the prover's
reach: `EveryCallReturns` (of `RpcServer`, `RpcStubs` and `MapServer`), `BarrierOpens`,
`AcceptLoopGoesOn`, `MessagesArePrinted`, `EveryClientEnds`, `ProgramGoesOn`. The two
violations are counterexamples and have nothing to prove.


## 5. Not modelled

* What the calls do to the contents, offsets, sizes and names of files, in any server;
  also that `Read` in Go and `read` in Java answer all the bytes asked for when fewer
  were read (`server.go:49`, `Server.java:63`).
* In `MapServer`, the functions that are given a path, which use neither the map nor a
  descriptor; clients that disconnect, which the three servers do not notice; the
  set-up of the servers before they listen.
* `c/shim.c`: a static table that the macOS linker reads, without state or step.
* The local programs in Rust, C#, Node.js, Go, Java and Python, and what the remote
  ones print: straight-line code. `local.c` is run in `FridaHooks`, `winlocal.c` in
  `DllInjection`, and the calls of `remote.c` are among those of `RpcWire`.
* The Makefile. It starts the D-Bus client right after the server; that the client
  may then find no service is in `SdBus`.
* Failures of the Frida control script's own calls (`spawn`, `attach`, `load`).
* Frida and the bus themselves, and the delivery of Frida's messages, taken to be
  complete before the session ends.
* `send` is taken to accept the whole of a message, which it does on a blocking
  socket unless interrupted; `ResumeThread` is taken to succeed.

## 6. Plan

1. `RpcServer`, its runs and the theorems about batches (done).
2. `RpcWire` and `RpcStubs` with their runs (done).
3. `RpcService` and the refinement by `RpcServer` with one client (done).
4. `MapServer`, `FridaHooks`, `SdBus` and `DllInjection` with their runs (done).
5. Theorems: the invariants of every module and the refinement (done).
6. Theorems with weaker hypotheses: `ServedByItsThread` and `NoUseAfterFree` for one
   client when library calls fail; `ResultsIntact` and `DispatchIsRight` for any modes
   and any names given to `rename`.
7. Stubs and server composed, and what the twelve functions do to files, if a property
   of sequences of calls turns out to need it.
