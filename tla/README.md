# TLA+ models of the QuestDB client native layer

The native layer under `src/core/src/main/c/` is a thin JNI shim between the
Java client and the OS.  This project models the parts of it whose behaviour
depends on interleavings with the kernel, on retries, on error side channels
and on numeric edges, and checks them with TLC.

## The system and how its parts interact

| Part | Source | What it does |
|---|---|---|
| Readiness multiplexer | `osx/kqueue.c` | `kqueue()` creates a queue; `kevent()` submits a change-list, waits up to `timeout_msec` and re-issues `kevent(2)` after `EINTR` with the remaining time measured by `clock()` |
| Layout provider | `osx/kqueue.c` 34-77, `windows/net.c` 79-82, 230-233 | constants and `struct kevent` offsets the Java side uses to build records in native memory |
| Socket driver | `windows/net.c` | `socketTcp`, `configureNonBlocking`, `connect`, `recv`, `peek`, `send`, socket options; maps Winsock outcomes to byte counts, `ERETRY` and `EOTHERDISCONNECT`; `SaveLastError` stores the OS error |
| Address lifecycle | `windows/net.c` 84-160 | `sockaddr0`/`freeSockAddr0`, `getAddrInfo0`/`freeAddrInfo0`, `connectAddrInfo`, multicast `join` |
| Clock and errno | `share/os.c` | wall-clock time and `Os.errno` (the thread's `errno`) |
| File close | `windows/files.c` | `CloseHandle` wrapper |
| Memory dispatch | `share/ooo*.{cpp,h}` | `memcpy`/`memmove`/`memset` forwarding |

The Java side creates a socket with the driver, registers its descriptor with
the multiplexer, waits in `kevent()`, and calls `recv`/`send` when the socket
is reported ready; every failure is explained by `Os.errno`, which reads what
`SaveLastError` stored.

## Modules

* `KeventAbstract` — what one `kevent()` call promises: an atomic step that
  applies the change-list once and reports ready registered events (at most
  `NEvents`, reported one-shot registrations deleted), no event, or a
  failure with its errno.
* `KeventWait` — the code.  Variables are the loop's locals
  (`remaining`, `res`, the `clock()` reading `cpu`) and the kernel state
  (`reg`, `ready`, `evl`, `errno`; `OsErrno` is `Os.errno` of `os.c` 57-60, how the caller reads it).  Actions: `kqueue` (lines 79-82),
  `Invoke` (entry, 84-90), `KernelEnter` (timespec construction and the
  `kevent(2)` call, 91-101), `After` (elapsed-time subtraction and loop
  condition, 102-108).  The kernel is the environment: `Deliver`, `Expire`,
  `Interrupt` (a signal, `EINTR`), `Tick` (1 ms of wall time during which
  `clock()` counts 0..`Cores` ms, because it counts the CPU time of every
  thread of the process), `Arrive`, `Drain`.  It refines `KeventAbstract`
  through `Abs`: while the loop runs the caller sees no result and the
  registrations of the call's entry (history variable `reg0`).
* `KeventLayout` — the layout getters of `kqueue.c` (34-77): the filter
  and flag constants, `(short) sizeof(struct kevent)` and the offsets of
  `ident`, `filter`, `flags` and `udata` (which `getDataOffset` returns),
  against `struct kevent` of `<sys/event.h>`.  Memory is byte-addressed; a
  byte is "byte i of value v" or stale, so a field read at the wrong offset
  or width is garbage.  The caller's stores and loads (`CallerWrite`,
  `CallerRead`) are modelled from the spec, the kernel's (`KernelRead`,
  `KernelWrite`) from the struct.
* `KeventClient` — composes `KeventWait` and `KeventLayout`: the
  change-list `changes` of each call is laid out by the caller in a buffer
  of `nChanges * getSizeofKevent` bytes and read back by `kevent(2)`, and
  the reported events `evl` are written by `kevent(2)` and read back by the
  caller.  `IdentKey` gives each identity its descriptor, filter and user
  data.
* `NetSocket` — one socket of the Winsock driver.  Variables: the kernel
  socket (`sock`), the caller's descriptor (`fd`), `FIONBIO` (`nbio`), the
  connection state, receive buffer and send-buffer space, the thread's
  `WSAGetLastError` (`wsa`), what `SaveLastError` stored (`saved`), a call
  sleeping in the kernel (`blocked`) and the last call's outcome (`last`).
  One action per JNI function; `RecvCode`/`SendCode` are the result
  normalisations; the peer and kernel are `Wake`, `ConnectCompletes`,
  `PeerSend`, `PeerClose`, `PeerReset`, `SndDrain`.  `setKeepAlive0`
  computes `idle_sec * 1000` as the MSVC build does: the `int` product
  wraps modulo 2^32 and the `ULONG` fields keep those 32 bits (kept as two
  16-bit halves, `Word`/`MulWord`, since TLC's integers are 32-bit).
  `getSndBuf` is `GetIntSockopt` (`get_int_sockopt`, 31-39) on `SO_SNDBUF`.
  The would-block getters `getEWouldBlock` (the CRT's `EWOULDBLOCK`, 140)
  and `getEwouldblock` (`WSAEWOULDBLOCK`, 10035) are modelled here as the
  constants they return.
* `NetAddress` — the native address records: a heap (`heap`, block ->
  free or record kind), the caller's table of pointers and their
  constructors (`held`), and the calls `sockaddr0`, `getAddrInfo0`,
  `freeSockAddr0`, `freeAddrInfo0`, `connect`, `connectAddrInfo`.  A use of
  a pointer the C library does not accept (a free of something not
  allocated by that allocator, a read of a freed record) sets `ub`.  The
  caller is not in this repository: `Args` and `Forget` model it from the
  spec.  With `SpecCaller = FALSE` it keeps to what the code needs (no -1,
  each record freed once with its own function); with `TRUE` it also does
  what spec 4.4 / 8 allow (free every resolve result, free twice).
  Each record's `sin_port` is kept (`sinPort`) with the port the caller
  asked for (`asked`): `sockaddr0` stores `Htons(UShort(port))`,
  getaddrinfo the network-order form of the `itoa`'d service, and a
  `connect` reaches the port the kernel reads back from the record.
* `NetMulticast` — `Net.join`.  The `ip_mreq_source` on the stack is a
  12-byte function filled field by field at the Windows offsets, with
  `htonl` and little-endian stores; the kernel reads it as an `ip_mreq`
  (`AddMembership`) and keeps the socket's memberships.
* `MC_*` — model values, small sets and symmetry for TLC.

## Runs

| Run | cfg | Expect | Shows |
|---|---|---|---|
| kevent_loop | KeventWait.cfg | pass | no reported one-shot event is lost by a retry; the loop refines the atomic call; every call returns (finitely many signals); change-lists and event-lists built and read with the layout getters are the ones `kevent(2)` reads and writes; the remaining budget never exceeds the timeout passed (`TypeOK`; its mutant computes elapsed as start − end) |
| kevent_deadline | KeventDeadline.cfg | violation | `clock()` is CPU time: a 3 ms call interrupted once returns 0 after 2 ms when other threads are busy, and restarts the whole budget when the process is idle |
| kevent_negative_timeout | KeventNegativeTimeout.cfg | violation | a negative timeout gives a negative `tv_nsec` or `tv_sec`, which `kevent(2)` rejects with EINVAL, never an indefinite wait |
| kevent_eintr | KeventEintr.cfg | violation | a signal after the measured budget ran out returns -1/`EINTR` to the caller |
| net_socket | NetSocket.cfg | pass | every socket the kernel holds is the caller's and in the mode it asked for (a socket `ioctlsocket` cannot make non-blocking is closed, not leaked or handed over blocking), `recv`/`peek` keep the stream intact, `ERETRY` only for a fresh would-block, never for a stale `WSAGetLastError` value; `TypeOK` bounds every return value, and its mutant (`send` returning the raw Winsock number) breaks it |
| net_address | NetAddress.cfg | pass | a caller following the records' discipline meets no undefined behaviour, and nothing leaks or dangles, and every `connect` reaches the port the caller built its record for (its mutant drops `htons`) |
| net_address_free | NetAddressFree.cfg | violation | freeing the -1 of a failed `getAddrInfo0`, as the spec's resolve/free pairing allows, calls `freeaddrinfo((void*)-1)` |
| net_multicast | NetMulticast.cfg | pass | the group the kernel joins is the `groupAddress` passed (htonl and the shared `imr_multiaddr` offset agree) |
| net_join_interface | NetJoin.cfg | violation | the kernel reads the interface from `imr_sourceaddr` (0) and joins on the default interface, not `bindAddress` |
| net_errno | NetErrno.cfg | violation | `socketTcp(FALSE)` with `INVALID_SOCKET` enters the `ioctlsocket` branch and saves `WSAENOTSOCK`, hiding `WSAEMFILE` |
| net_disconnect | NetDisconnect.cfg | violation | `EOTHERDISCONNECT` is also returned for `WSAENOTCONN`, resets and `len == 0` |
| net_keepalive | NetKeepalive.cfg | violation | `setKeepAlive0(fd, 4294968)` gives `WSAIoctl` a keepalive time of 704 ms: `idle_sec * 1000` does not fit 32 bits |

Each property of a passing run has a mutant in `PROJECT.json` (a plausible
bug of the mapped code, e.g. the loop condition without `res == -1`, a
missing `closesocket`, a peek without `MSG_PEEK`, `getDataOffset` returning
the offset of `data` as its name suggests) that TLC finds violating it.

## Bounds

* kevent: two identities (the read and write filter of one descriptor,
  with different user data), `NEvents = 1` so capacity
  overflow happens, timeouts {-1000, 0, 2} (a whole negative second,
  whose `tv_sec = -1` `kevent(2)` rejects with EINVAL, zero, positive;
  the violation runs use {-1000, -1, 0, 3}, which adds a negative
  fraction, a negative `tv_nsec`, and a longer wait), `Cores = 2` in every
  kevent run, so `clock()` can run faster and slower than wall time (it
  can also stall while the process is idle, which is what liveness
  depends on), one signal per call (`MaxInterrupts = 1`: a retry happens;
  a second adds no new path through the loop).  `CallReturns` holds under
  that bound: it shows the loop ends once signals stop, not that it ends
  for a process signalled without end.
* net: lengths {0, 1, 2}, two bytes from the peer (partial reads and
  ordering), send buffer of 1 byte (would-block and partial sends).
  Keepalive: `idle_sec = 2147484` in the passing run (the `int` product
  overflows, the `ULONG` fields restore it) and 4294968, the least value
  whose product exceeds 32 bits, in the violation run.
* layout: two-record change-lists (so a wrong `getSizeofKevent` misplaces
  the second record), with every combination of `EV_ADD`/`EV_ONESHOT` the
  model's change-lists hold.
* address: three heap blocks (a literal and a resolved record live
  together while a freed block is reused), symmetric; ports 80 and 9009,
  neither of which reads the same with its bytes swapped.
* multicast: three groups whose byte-swapped forms are also multicast (so
  a missing `htonl` is accepted, not rejected), two interfaces.

## Fairness

`KernelEnter` and `After` are straight-line code of the calling thread, and
the kernel wakes a sleeping `kevent(2)` when an event is ready or its timeout
passes (`Deliver`, `Expire`), so these are weakly fair, as is `Tick`.
Signals (`Interrupt`) and the environment are not fair: nothing makes them
happen.  `NetSocket`, `NetAddress` and `NetMulticast` check only safety.

## Not modelled, and why

* Which would-block getter the Java caller compares `Os.errno` with is
  decided outside this repository; hazard net.c:81 records that the CRT's
  `EWOULDBLOCK` (140) never matches what `SaveLastError` stores, and no
  run slot is left for a violation run that shows it.
* The `fflags` and `data` fields of a change record: the provider gives no
  offsets for them; whether the caller's buffer is zeroed is the Java
  caller's allocation.
* `calloc` failure in `sockaddr0` (net.c:86): the NULL is written through;
  `NetAddress` assumes memory is available; a model with `calloc` failing
  only shows the missing check, and no run is left for it.  The caller is
  taken to pass TCP ports, for which the `(u_short)` cast (net.c:89) loses
  nothing; the IPv4 address is abstracted.  The `(jint)` truncation of the
  `SOCKET` handle (net.c:76) is not modelled: the model's descriptor is
  opaque.
* Composition of `NetSocket` with `KeventWait`: the driver is the Winsock
  one and the multiplexer the macOS one, never built together; the POSIX
  driver that runs beside kqueue is not in this repository.
* `os.c` clock, `files.c` close, `ooo*` memory dispatch: the spec
  (section 1) puts them out of scope as stateless utility calls, and they
  have no state machine, retry or ordering for a model checker to explore.
  The clocks are read by no modelled code (the kevent loop uses `clock()`).
  `Files.close0` is one `CloseHandle` call; nothing in this repository says
  which descriptors the Java caller closes with it.  The memory functions
  forward to `memcpy`/`memmove`/`memset` through `dispatcher.h` and
  `simd.h`, which are not in this repository; each is one library call,
  so a model would restate the C library.
* `Os.errno` of `os.c` is modelled as `OsErrno` of `KeventWait` (the macOS
  build, where it returns the thread's `errno` after `kevent()` failed); on
  Windows the value it reports is the one `NetSocket` keeps as `saved`.
