------------------------------ MODULE NetAddress ------------------------------
(***************************************************************************)
(* The native address records of windows/net.c: Net.sockaddr0 and         *)
(* Net.freeSockAddr0 (a calloc'ed sockaddr_in), Net.getAddrInfo0 and       *)
(* Net.freeAddrInfo0 (a getaddrinfo chain, or -1 on failure), and the two  *)
(* calls that read them, Net.connect and Net.connectAddrInfo.              *)
(*                                                                         *)
(* The heap is a function from blocks to the kind of record a block holds. *)
(* The caller (the Java client, not in this repository) keeps a table of   *)
(* the pointers it got and which constructor made each.  With SpecCaller   *)
(* FALSE it passes only pointers of its table, of the matching kind, and   *)
(* 0; with SpecCaller TRUE it also uses the records as spec 4.4 / 8 allow: *)
(* every resolve result goes to free-resolved-address (and to connect),    *)
(* and a resolved pointer may be freed a second time.  Any use of a        *)
(* pointer the C library does not accept is undefined behaviour, recorded  *)
(* in ub.                                                                  *)
(***************************************************************************)
EXTENDS Integers, FiniteSets

CONSTANTS
    Blocks,         \* heap blocks a record can be allocated in
    SpecCaller,     \* the caller uses records as spec 4.4 / 8 describe
    Ports           \* port arguments the caller passes to the constructors

ASSUME SpecCaller \in BOOLEAN
\* The caller passes TCP ports.
ASSUME Ports \subseteq 0..65535

Kinds == {"sockaddr", "addrinfo"}

\* A pointer the caller can pass: a block, NULL, or the -1 failure value.
Ptrs == Blocks \cup {0, -1}

VARIABLES
    heap,     \* Blocks -> "free" or the kind of record allocated there
    held,     \* the caller's table: Blocks -> "none" or the constructor's kind
    failed,   \* the caller holds a -1 returned by a failed getAddrInfo0
    freed,    \* history: [ptr, kind] pairs the caller has freed
    saved,    \* what SaveLastError stored: Os.errno
    asked,    \* the caller's table: Blocks -> the port it built the record for
    sinPort,  \* Blocks -> the sin_port field of the record's sockaddr_in
    last,     \* the last call: [op, ret, rec, port]; a connect's record and
              \* the port the kernel connected to
    ub        \* "none", or the undefined behaviour the program ran into

vars == <<heap, held, failed, freed, asked, sinPort, saved, last, ub>>

\* A call's result; rec and port are those of a connect.
Call(op, ret) == [op |-> op, ret |-> ret, rec |-> 0, port |-> 0]

TypeOK ==
    /\ heap \in [Blocks -> {"free"} \cup Kinds]
    /\ held \in [Blocks -> {"none"} \cup Kinds]
    /\ failed \in BOOLEAN
    /\ freed \subseteq [ptr : Ptrs, kind : Kinds]
    /\ saved \in {"none", "WSAHOST_NOT_FOUND", "WSAECONNREFUSED", "WSAEFAULT"}
    /\ asked \in [Blocks -> Ports \cup {0}] /\ sinPort \in [Blocks -> 0..65535]
    /\ last.ret \in Ptrs /\ last.port \in 0..65535
    /\ ub \in {"none", "invalid free", "invalid read"}

Init ==
    /\ heap = [b \in Blocks |-> "free"]
    /\ held = [b \in Blocks |-> "none"]
    /\ failed = FALSE /\ freed = {}
    /\ asked = [b \in Blocks |-> 0] /\ sinPort = [b \in Blocks |-> 0]
    /\ saved = "none"
    /\ last = Call("none", 0)
    /\ ub = "none"

\* The pointers the caller passes to a call that takes a record of kind k.
Args(k) ==
    {0} \cup {b \in Blocks : held[b] = k}
        \cup IF SpecCaller /\ k = "addrinfo"
               THEN {f.ptr : f \in {g \in freed : g.kind = k}}
                    \cup IF failed THEN {-1} ELSE {}
               ELSE {}

\* A valid record of kind k is at p.
Live(p, k) == p \in Blocks /\ heap[p] = k

-----------------------------------------------------------------------------
(* The code.                                                               *)

\* A u_short in the byte order of the other end: its two bytes swapped
\* (the host is little-endian, the network big-endian).
Swap16(x) == (x % 256) * 256 + x \div 256

\* The (u_short) conversion of a jint.
UShort(x) == x % 65536

\* Mutant of Htons: the port is stored in host order.
HtonsMissing(x) == x

\* htons as sockaddr0 applies it.
Htons(x) == Swap16(x)

\* Net.sockaddr0(address, port): calloc a sockaddr_in, fill it in (the
\* port as htons((u_short) port)) and return it.  calloc is assumed to
\* succeed; its NULL would be written through unchecked.
sockaddr0 ==
    /\ ub = "none"
    /\ \E b \in Blocks, port \in Ports :
          /\ heap[b] = "free"
          /\ heap' = [heap EXCEPT ![b] = "sockaddr"]
          /\ held' = [held EXCEPT ![b] = "sockaddr"]
          /\ asked' = [asked EXCEPT ![b] = port]
          /\ sinPort' = [sinPort EXCEPT ![b] = Htons(UShort(port))]
          /\ last' = Call("sockaddr0", b)
    /\ UNCHANGED <<failed, freed, saved, ub>>

\* getaddrinfo resolved the service string itoa made of port into a chain
\* in block b, whose sockaddr_in carries the port in network order; the
\* result is passed to the caller as ret.
Resolved(b, port, ret) ==
    /\ heap[b] = "free"
    /\ heap' = [heap EXCEPT ![b] = "addrinfo"]
    /\ sinPort' = [sinPort EXCEPT ![b] = Swap16(port)]
    /\ held' = IF ret = b THEN [held EXCEPT ![b] = "addrinfo"] ELSE held
    /\ asked' = IF ret = b THEN [asked EXCEPT ![b] = port] ELSE asked
    /\ last' = Call("getAddrInfo0", ret)

\* Mutant of getAddrInfo0: the test of getaddrinfo's result is inverted.
GetAddrInfoInverted ==
    /\ ub = "none"
    /\ \/ \E b \in Blocks, port \in Ports :
             Resolved(b, port, -1) /\ saved' = "none" /\ failed' = TRUE
       \/ /\ last' = Call("getAddrInfo0", 0)
          /\ UNCHANGED <<heap, held, asked, sinPort, saved, failed>>
    /\ UNCHANGED <<freed, ub>>

\* Mutant of getAddrInfo0: the getaddrinfo error code is returned instead
\* of -1.
GetAddrInfoReturnsErr ==
    /\ ub = "none"
    /\ \/ \E b \in Blocks, port \in Ports :
             Resolved(b, port, b) /\ UNCHANGED <<saved, failed>>
       \/ /\ saved' = "WSAHOST_NOT_FOUND" /\ failed' = TRUE
          /\ last' = Call("getAddrInfo0", 11001)
          /\ UNCHANGED <<heap, held, asked, sinPort>>
    /\ UNCHANGED <<freed, ub>>

\* Net.getAddrInfo0(host, port): getaddrinfo allocates the chain and it is
\* returned; on failure SaveLastError and -1.
getAddrInfo0 ==
    /\ ub = "none"
    /\ \/ \E b \in Blocks, port \in Ports :
             Resolved(b, port, b) /\ UNCHANGED <<saved, failed>>
       \/ /\ saved' = "WSAHOST_NOT_FOUND" /\ failed' = TRUE
          /\ last' = Call("getAddrInfo0", -1)
          /\ UNCHANGED <<heap, held, asked, sinPort>>
    /\ UNCHANGED <<freed, ub>>

\* free(p) or freeaddrinfo(p) (k the kind the function releases) on a
\* non-zero p: valid only on a live record of that kind.
Release(k, p) ==
    /\ heap' = IF Live(p, k) THEN [heap EXCEPT ![p] = "free"] ELSE heap
    /\ ub' = IF Live(p, k) THEN "none" ELSE "invalid free"

\* The caller forgets a pointer it has passed to a free function.
Forget(k, p) ==
    /\ held' = IF p \in Blocks THEN [held EXCEPT ![p] = "none"] ELSE held
    /\ asked' = IF p \in Blocks THEN [asked EXCEPT ![p] = 0] ELSE asked
    /\ failed' = (failed /\ p # -1)
    /\ freed' = IF p = 0 THEN freed ELSE freed \cup {[ptr |-> p, kind |-> k]}

\* Mutant of freeSockAddr0: freeaddrinfo is called instead of free.
FreeSockAddrWrongKind ==
    /\ ub = "none"
    /\ \E p \in Args("sockaddr") :
          /\ IF p # 0 THEN Release("addrinfo", p) ELSE UNCHANGED <<heap, ub>>
          /\ Forget("sockaddr", p)
          /\ last' = Call("freeSockAddr0", 0)
    /\ UNCHANGED <<sinPort, saved>>

\* Net.freeSockAddr0: if (address != 0) free(address).
freeSockAddr0 ==
    /\ ub = "none"
    /\ \E p \in Args("sockaddr") :
          /\ IF p # 0 THEN Release("sockaddr", p) ELSE UNCHANGED <<heap, ub>>
          /\ Forget("sockaddr", p)
          /\ last' = Call("freeSockAddr0", 0)
    /\ UNCHANGED <<sinPort, saved>>

\* Net.freeAddrInfo0: if (address != 0) freeaddrinfo(address).
freeAddrInfo0 ==
    /\ ub = "none"
    /\ \E p \in Args("addrinfo") :
          /\ IF p # 0 THEN Release("addrinfo", p) ELSE UNCHANGED <<heap, ub>>
          /\ Forget("addrinfo", p)
          /\ last' = Call("freeAddrInfo0", 0)
    /\ UNCHANGED <<sinPort, saved>>

\* The outcome of connect() on the valid address at p: 0, the kernel having
\* connected to the port sin_port names, or SOCKET_ERROR saved.
ConnectOutcome(op, p) ==
    \/ /\ last' = [Call(op, 0) EXCEPT !.rec = p, !.port = Swap16(sinPort[p])]
       /\ UNCHANGED saved
    \/ last' = Call(op, -1) /\ saved' = "WSAECONNREFUSED"

\* Net.connect(fd, sockAddr): Winsock reads sizeof(struct sockaddr) bytes
\* at sockAddr; a NULL pointer is rejected with WSAEFAULT.
connect ==
    /\ ub = "none"
    /\ \E p \in Args("sockaddr") :
          IF p = 0
            THEN last' = Call("connect", -1) /\ saved' = "WSAEFAULT"
                 /\ UNCHANGED ub
            ELSE IF Live(p, "sockaddr")
              THEN ConnectOutcome("connect", p) /\ UNCHANGED ub
              ELSE ub' = "invalid read" /\ UNCHANGED <<saved, last>>
    /\ UNCHANGED <<heap, held, failed, freed, asked, sinPort>>

\* Net.connectAddrInfo(fd, lpAddrInfo): addr->ai_addr and addr->ai_addrlen
\* are read in the caller's process before connect() is called.
connectAddrInfo ==
    /\ ub = "none"
    /\ \E p \in Args("addrinfo") \ {0} :
          IF Live(p, "addrinfo")
            THEN ConnectOutcome("connectAddrInfo", p) /\ UNCHANGED ub
            ELSE ub' = "invalid read" /\ UNCHANGED <<saved, last>>
    /\ UNCHANGED <<heap, held, failed, freed, asked, sinPort>>

Next ==
    \/ sockaddr0 \/ getAddrInfo0 \/ freeSockAddr0 \/ freeAddrInfo0
    \/ connect \/ connectAddrInfo

Spec == Init /\ [][Next]_vars

-----------------------------------------------------------------------------
(* Properties.                                                             *)

\* No call of the address functions runs into undefined behaviour: no
\* free or freeaddrinfo of something its allocator did not return or
\* already took back, no read of a freed or foreign record in connect or
\* connectAddrInfo.
NoUndefinedBehaviour == ub = "none"

\* The port a connect reaches is the port the caller built its record for,
\* by sockaddr0 (htons((u_short) port)) or by getAddrInfo0 (the itoa'd
\* service string), whichever block the record was allocated in.
PortAsRequested ==
    (last.op \in {"connect", "connectAddrInfo"} /\ last.ret = 0) =>
        last.port = asked[last.rec]

\* The caller's table and the heap agree: every allocated record is one
\* the caller was given, by the constructor of its kind, and the caller
\* holds no freed block (nothing leaks, nothing dangles).
CallerOwnsHeap ==
    \A b \in Blocks : IF heap[b] = "free" THEN held[b] = "none" ELSE held[b] = heap[b]
=============================================================================
