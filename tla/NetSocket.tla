------------------------------ MODULE NetSocket ------------------------------
(***************************************************************************)
(* The TCP socket driver of windows/net.c: Net.socketTcp,                  *)
(* Net.configureNonBlocking, Net.connect, Net.recv, Net.peek and Net.send, *)
(* the normalisation of their Winsock outcomes into byte counts, ERETRY    *)
(* and EOTHERDISCONNECT, and the error side channel SaveLastError feeds    *)
(* (read back by Os.errno).                                                *)
(*                                                                         *)
(* One socket, one calling thread.  The kernel and the peer are the        *)
(* environment: socket() may fail, ioctlsocket may fail, a non-blocking    *)
(* connect completes or is refused later, the peer sends numbered bytes,   *)
(* closes its side or resets the connection, and the send buffer drains.   *)
(* A call on a blocking socket that cannot complete sleeps in the kernel   *)
(* until it can.                                                           *)
(***************************************************************************)
EXTENDS Integers, Sequences, SequencesExt

CONSTANTS
    ERETRY,            \* com_questdb_network_Net_ERETRY
    EOTHERDISCONNECT,  \* com_questdb_network_Net_EOTHERDISCONNECT
    FD,                \* the descriptor socketTcp returns on success
    Lens,              \* len arguments the caller passes to recv/peek/send
    MaxBytes,          \* bytes the peer sends in one behaviour
    SndBuf,            \* capacity of the kernel send buffer, in bytes
    IdleSecs           \* idle_sec arguments the caller passes to setKeepAlive0

ASSUME Lens \subseteq Nat /\ MaxBytes \in Nat /\ SndBuf \in Nat \ {0}
\* idle_sec is a non-negative jint.
ASSUME IdleSecs \subseteq 0..2147483647

VARIABLES
    sock,     \* the kernel socket object: "none" or "open"
    fd,       \* the caller holds the descriptor socketTcp returned
    nbio,     \* FIONBIO is set on the socket
    wantNb,   \* socketTcp was called with blocking = FALSE
    conn,     \* "idle", "connecting", "established", "peerClosed", "reset", "refused"
    rcv,      \* the kernel receive buffer
    sent,     \* bytes the peer has sent: 1..sent
    got,      \* bytes recv has handed to the caller, in order
    sndFree,  \* free space in the kernel send buffer
    wsa,      \* WSAGetLastError() of the calling thread
    saved,    \* what SaveLastError stored: Os.errno
    blocked,  \* the call sleeping in the kernel: [op, len], op "none" if none
    last,     \* the last completed call: [op, ret, os]
    opts      \* socket options set: [sndbuf, nodelay, keepalive: [on, idle, time]]

vars == <<sock, fd, nbio, wantNb, conn, rcv, sent, got, sndFree, wsa, saved, blocked, last,
          opts>>

OsErrors == {"WSAEWOULDBLOCK", "WSAENOTCONN", "WSAECONNRESET", "WSAECONNREFUSED",
             "WSAEMFILE", "WSAENETDOWN", "WSAENOTSOCK"}

\* What the kernel reported to the call: success, end of stream, or an error.
OsOutcomes == {"ok", "eof"} \cup OsErrors

NoCall == [op |-> "none", len |-> 0]

Connected == {"established", "peerClosed"}

Sent == [i \in 1..sent |-> i]

Min2(a, b) == IF a < b THEN a ELSE b

TypeOK ==
    /\ sock \in {"none", "open"}
    /\ fd \in BOOLEAN /\ nbio \in BOOLEAN /\ wantNb \in BOOLEAN
    /\ conn \in {"idle", "connecting", "refused", "reset"} \cup Connected
    /\ rcv \in Seq(1..MaxBytes) /\ got \in Seq(1..MaxBytes)
    /\ sent \in 0..MaxBytes /\ sndFree \in 0..SndBuf
    /\ wsa \in {"none"} \cup OsErrors /\ saved \in {"none"} \cup OsErrors
    /\ blocked \in [op : {"none", "recv", "peek", "send"}, len : Lens \cup {0}]
    /\ last.op \in {"none", "socketTcp", "configureNonBlocking", "connect",
                    "recv", "peek", "send", "setSndBuf", "getSndBuf",
                    "setTcpNoDelay", "setKeepAlive0"}
    /\ opts \in [sndbuf : 0..SndBuf, nodelay : BOOLEAN, keepalive : [on : BOOLEAN, idle : IdleSecs \cup {0},
                                                      time : (0..65535) \X (0..65535)]]
    /\ last.os \in OsOutcomes
    /\ last.ret \in {ERETRY, EOTHERDISCONNECT, FD} \cup -1..MaxBytes + SndBuf

Init ==
    /\ sock = "none" /\ fd = FALSE /\ nbio = FALSE /\ wantNb = FALSE
    /\ conn = "idle" /\ rcv = <<>> /\ sent = 0 /\ got = <<>> /\ sndFree = SndBuf
    /\ wsa = "none" /\ saved = "none"
    /\ blocked = NoCall
    /\ last = [op |-> "none", ret |-> 0, os |-> "ok"]
    /\ opts = [sndbuf |-> 0, nodelay |-> FALSE, keepalive |-> [on |-> FALSE, idle |-> 0, time |-> <<0, 0>>]]

-----------------------------------------------------------------------------
(* The kernel side of recv/peek and send: the outcome of the syscall, as   *)
(* [n, os], when it does not have to sleep.                                *)

RecvSleeps(len) ==
    /\ ~nbio /\ len > 0 /\ rcv = <<>> /\ conn = "established"

RecvOutcome(len) ==
    CASE conn \in {"idle", "connecting", "refused"} -> [n |-> -1, os |-> "WSAENOTCONN"]
      [] conn = "reset"                            -> [n |-> -1, os |-> "WSAECONNRESET"]
      [] len = 0                                   -> [n |-> 0, os |-> "ok"]
      [] rcv # <<>>                                -> [n |-> Min2(len, Len(rcv)), os |-> "ok"]
      [] conn = "peerClosed"                       -> [n |-> 0, os |-> "eof"]
      [] OTHER                                     -> [n |-> -1, os |-> "WSAEWOULDBLOCK"]

SendSleeps(len) ==
    /\ ~nbio /\ len > 0 /\ sndFree = 0 /\ conn \in Connected

SendOutcome(len) ==
    CASE conn \in {"idle", "connecting", "refused"} -> [n |-> -1, os |-> "WSAENOTCONN"]
      [] conn = "reset"                            -> [n |-> -1, os |-> "WSAECONNRESET"]
      [] len = 0 \/ sndFree > 0                    -> [n |-> Min2(len, sndFree), os |-> "ok"]
      [] OTHER                                     -> [n |-> -1, os |-> "WSAEWOULDBLOCK"]

\* The thread's last error after a syscall: set on failure, left stale on
\* success.
WsaAfter(o) == IF o.n < 0 THEN o.os ELSE wsa

-----------------------------------------------------------------------------
(* The code.                                                               *)

\* Mutant of RecvCode: WSAGetLastError() is tested before n == 0.
RecvCodeErrFirst(n, err) ==
    IF n <= 0 /\ err = "WSAEWOULDBLOCK" THEN ERETRY
    ELSE IF n > 0 THEN n
    ELSE EOTHERDISCONNECT

\* Net.recv and Net.peek: n > 0 is returned, 0 is EOTHERDISCONNECT, a
\* WSAEWOULDBLOCK failure is ERETRY, any other failure is saved and
\* reported as EOTHERDISCONNECT.
RecvCode(n, err) ==
    IF n > 0 THEN n
    ELSE IF n = 0 THEN EOTHERDISCONNECT
    ELSE IF err = "WSAEWOULDBLOCK" THEN ERETRY
    ELSE EOTHERDISCONNECT

\* Mutant of SendCode: a failed send returns WSAGetLastError() itself (the
\* <winsock2.h> number) instead of normalising it to ERETRY or
\* EOTHERDISCONNECT.
SendCodeRawError(n, err) ==
    LET wsaNo == [WSAEWOULDBLOCK |-> 10035, WSAENOTCONN |-> 10057,
                  WSAECONNRESET |-> 10054, WSAECONNREFUSED |-> 10061,
                  WSAEMFILE |-> 10024, WSAENETDOWN |-> 10050, WSAENOTSOCK |-> 10038]
    IN IF n > -1 THEN n ELSE wsaNo[err]

\* Net.send: n > -1 is returned, WSAEWOULDBLOCK is ERETRY, any other
\* failure is saved and reported as EOTHERDISCONNECT.
SendCode(n, err) ==
    IF n > -1 THEN n
    ELSE IF err = "WSAEWOULDBLOCK" THEN ERETRY
    ELSE EOTHERDISCONNECT

\* Mutant of RecvDone: MSG_PEEK is not passed, so a peek consumes the data.
RecvDoneNoPeekFlag(len, peek) ==
    LET o == RecvOutcome(len)
        w == WsaAfter(o)
    IN
    /\ wsa' = w
    /\ saved' = IF o.n < 0 /\ w # "WSAEWOULDBLOCK" THEN w ELSE saved
    /\ IF o.n > 0
         THEN /\ got' = IF peek THEN got ELSE got \o SubSeq(rcv, 1, o.n)
              /\ rcv' = SubSeq(rcv, o.n + 1, Len(rcv))
         ELSE UNCHANGED <<got, rcv>>
    /\ last' = [op |-> IF peek THEN "peek" ELSE "recv", ret |-> RecvCode(o.n, w), os |-> o.os]

\* The effect of a recv (peek = FALSE) or peek (peek = TRUE, MSG_PEEK) whose
\* syscall completes now.
RecvDone(len, peek) ==
    LET o == RecvOutcome(len)
        w == WsaAfter(o)
        r == RecvCode(o.n, w)
    IN
    /\ wsa' = w
    /\ saved' = IF o.n < 0 /\ w # "WSAEWOULDBLOCK" THEN w ELSE saved
    /\ IF o.n > 0 /\ ~peek
         THEN /\ got' = got \o SubSeq(rcv, 1, o.n)
              /\ rcv' = SubSeq(rcv, o.n + 1, Len(rcv))
         ELSE UNCHANGED <<got, rcv>>
    /\ last' = [op |-> IF peek THEN "peek" ELSE "recv", ret |-> r, os |-> o.os]

\* The effect of a send whose syscall completes now; the bytes go into the
\* send buffer.
SendDone(len) ==
    LET o == SendOutcome(len)
        w == WsaAfter(o)
    IN
    /\ wsa' = w
    /\ saved' = IF o.n < 0 /\ w # "WSAEWOULDBLOCK" THEN w ELSE saved
    /\ sndFree' = IF o.n > 0 THEN sndFree - o.n ELSE sndFree
    /\ last' = [op |-> "send", ret |-> SendCode(o.n, w), os |-> o.os]
    /\ UNCHANGED <<opts, rcv, got>>

\* ioctlsocket(s, FIONBIO) succeeded in socketTcp: the descriptor is
\* returned, no error is saved.
NbSet ==
    /\ sock' = "open" /\ fd' = TRUE /\ nbio' = TRUE
    /\ last' = [op |-> "socketTcp", ret |-> FD, os |-> "ok"]
    /\ UNCHANGED <<opts, wsa, saved>>

\* Mutant of NbFailed: closesocket(s) is missing.
NbFailedNoClose(s, err) ==
    /\ wsa' = err /\ saved' = err
    /\ fd' = FALSE
    /\ sock' = IF s = "ok" THEN "open" ELSE "none"
    /\ last' = [op |-> "socketTcp", ret |-> -1,
                os |-> IF s = "INVALID" THEN "WSAEMFILE" ELSE err]
    /\ UNCHANGED nbio

\* ioctlsocket failed in socketTcp: SaveLastError, closesocket(s), return
\* -1.  s may be INVALID_SOCKET, whose failure (socket() ran out of
\* descriptors) is then what made the call fail.
NbFailed(s, err) ==
    /\ wsa' = err /\ saved' = err
    /\ sock' = "none" /\ fd' = FALSE
    /\ last' = [op |-> "socketTcp", ret |-> -1,
                os |-> IF s = "INVALID" THEN "WSAEMFILE" ELSE err]
    /\ UNCHANGED nbio

\* What ioctlsocket(s, FIONBIO) can report.
IoctlOutcomes(s) == IF s = "INVALID" THEN {"WSAENOTSOCK"} ELSE {"ok", "WSAENETDOWN"}

\* Net.socketTcp(blocking).  socket() returns a socket or INVALID_SOCKET
\* (WSAEMFILE).  INVALID_SOCKET is not 0, so with blocking = FALSE it too
\* enters the ioctlsocket branch.  With blocking = TRUE, SaveLastError runs
\* and s is returned; INVALID_SOCKET truncated to jint is -1.
socketTcp ==
    /\ sock = "none" /\ ~fd /\ blocked = NoCall
    /\ \E blocking \in BOOLEAN, s \in {"ok", "INVALID"} :
        /\ wantNb' = ~blocking
        /\ \/ /\ ~blocking
              /\ \E err \in IoctlOutcomes(s) :
                    IF err = "ok" THEN NbSet ELSE NbFailed(s, err)
           \/ /\ blocking
              /\ LET w == IF s = "ok" THEN wsa ELSE "WSAEMFILE" IN
                 /\ wsa' = w /\ saved' = w
                 /\ sock' = IF s = "ok" THEN "open" ELSE "none"
                 /\ fd' = (s = "ok")
                 /\ last' = [op |-> "socketTcp", ret |-> IF s = "ok" THEN FD ELSE -1,
                             os |-> IF s = "ok" THEN "ok" ELSE w]
                 /\ UNCHANGED nbio
    /\ UNCHANGED <<opts, conn, rcv, sent, got, sndFree, blocked>>

\* The calls below are made with the descriptor socketTcp returned, by a
\* thread that is not sleeping in another call.
Caller == fd /\ blocked = NoCall

\* Net.configureNonBlocking: ioctlsocket(FIONBIO); on failure SaveLastError.
configureNonBlocking ==
    /\ Caller
    /\ \E err \in IoctlOutcomes("ok") :
        IF err = "ok"
          THEN /\ nbio' = TRUE
               /\ last' = [op |-> "configureNonBlocking", ret |-> 0, os |-> "ok"]
               /\ UNCHANGED <<wsa, saved>>
          ELSE /\ wsa' = err /\ saved' = err
               /\ last' = [op |-> "configureNonBlocking", ret |-> -1, os |-> err]
               /\ UNCHANGED nbio
    /\ UNCHANGED <<opts, sock, fd, wantNb, conn, rcv, sent, got, sndFree, blocked>>

\* Net.connect: a non-blocking connect fails with WSAEWOULDBLOCK and goes
\* on in the background; a blocking one waits for the handshake.  res < 0
\* is saved.
connect ==
    /\ Caller /\ conn = "idle"
    /\ \/ /\ nbio
          /\ conn' = "connecting"
          /\ wsa' = "WSAEWOULDBLOCK" /\ saved' = "WSAEWOULDBLOCK"
          /\ last' = [op |-> "connect", ret |-> -1, os |-> "WSAEWOULDBLOCK"]
       \/ /\ ~nbio
          /\ conn' = "established"
          /\ last' = [op |-> "connect", ret |-> 0, os |-> "ok"]
          /\ UNCHANGED <<wsa, saved>>
       \/ /\ ~nbio
          /\ conn' = "refused"
          /\ wsa' = "WSAECONNREFUSED" /\ saved' = "WSAECONNREFUSED"
          /\ last' = [op |-> "connect", ret |-> -1, os |-> "WSAECONNREFUSED"]
    /\ UNCHANGED <<opts, sock, fd, nbio, wantNb, rcv, sent, got, sndFree, blocked>>

\* Net.recv(fd, addr, len): recv(fd, addr, len, 0).
recv ==
    /\ Caller
    /\ \E len \in Lens :
        IF RecvSleeps(len)
          THEN blocked' = [op |-> "recv", len |-> len] /\ UNCHANGED <<rcv, got, wsa, saved, last>>
          ELSE RecvDone(len, FALSE) /\ UNCHANGED blocked
    /\ UNCHANGED <<opts, sock, fd, nbio, wantNb, conn, sent, sndFree>>

\* Net.peek(fd, addr, len): recv(fd, addr, len, MSG_PEEK).
peek ==
    /\ Caller
    /\ \E len \in Lens :
        IF RecvSleeps(len)
          THEN blocked' = [op |-> "peek", len |-> len] /\ UNCHANGED <<rcv, got, wsa, saved, last>>
          ELSE RecvDone(len, TRUE) /\ UNCHANGED blocked
    /\ UNCHANGED <<opts, sock, fd, nbio, wantNb, conn, sent, sndFree>>

\* Net.send(fd, addr, len): send(fd, addr, len, 0).
send ==
    /\ Caller
    /\ \E len \in Lens :
        IF SendSleeps(len)
          THEN blocked' = [op |-> "send", len |-> len] /\ UNCHANGED <<sndFree, wsa, saved, last>>
          ELSE SendDone(len) /\ UNCHANGED blocked
    /\ UNCHANGED <<opts, sock, fd, nbio, wantNb, conn, rcv, sent, got>>

\* set_int_sockopt / WSAIoctl on the caller's socket: the option is set, or
\* the call fails (the network subsystem is down), SaveLastError runs and
\* the failure value is returned.  ok is the value returned on success.
SetOption(op, field, value, ok) ==
    /\ Caller
    /\ \/ /\ opts' = [opts EXCEPT ![field] = value]
          /\ last' = [op |-> op, ret |-> ok, os |-> "ok"]
          /\ UNCHANGED <<wsa, saved>>
       \/ /\ wsa' = "WSAENETDOWN" /\ saved' = "WSAENETDOWN"
          /\ last' = [op |-> op, ret |-> -1, os |-> "WSAENETDOWN"]
          /\ UNCHANGED opts
    /\ UNCHANGED <<sock, fd, nbio, wantNb, conn, rcv, sent, got, sndFree, blocked>>

\* Net.setSndBuf: set_int_sockopt(SOL_SOCKET, SO_SNDBUF, size).
setSndBuf == \E size \in 1..SndBuf : SetOption("setSndBuf", "sndbuf", size, 0)

\* Net.setTcpNoDelay: set_int_sockopt(IPPROTO_TCP, TCP_NODELAY, noDelay).
setTcpNoDelay == \E on \in BOOLEAN : SetOption("setTcpNoDelay", "nodelay", on, 0)

\* A 32-bit word as its two 16-bit halves, most significant first.
Word(x) == <<(x \div 65536) % 65536, x % 65536>>

\* The high half of the product of the word w and k, before it is reduced
\* to 32 bits: everything above bit 15 of the exact product.
ProductHigh(w, k) == w[1] * k + (w[2] * k) \div 65536

\* The int product of the word w and k as the MSVC build computes it: the
\* signed overflow wraps, so the product is reduced modulo 2^32, and the
\* assignment to the ULONG fields keeps those 32 bits.
MulWord(w, k) == <<ProductHigh(w, k) % 65536, (w[2] * k) % 65536>>

\* The tcp_keepalive record setKeepAlive0 fills: onoff = 1, and
\* keepalivetime = keepaliveinterval = idle_sec * 1000.
KeepaliveParams(idle) ==
    [on |-> TRUE, idle |-> idle, time |-> MulWord(Word(idle), 1000)]

\* Net.setKeepAlive0: WSAIoctl(SIO_KEEPALIVE_VALS) with the record above;
\* returns fd on success.
setKeepAlive0 ==
    \E idle \in IdleSecs :
        SetOption("setKeepAlive0", "keepalive", KeepaliveParams(idle), FD)

\* get_int_sockopt(fd, level, opt) on the caller's socket: the option's
\* value, or SOCKET_ERROR after SaveLastError.
GetIntSockopt(op, field) ==
    /\ Caller
    /\ \/ /\ last' = [op |-> op, ret |-> opts[field], os |-> "ok"]
          /\ UNCHANGED <<wsa, saved>>
       \/ /\ wsa' = "WSAENETDOWN" /\ saved' = "WSAENETDOWN"
          /\ last' = [op |-> op, ret |-> -1, os |-> "WSAENETDOWN"]
    /\ UNCHANGED <<opts, sock, fd, nbio, wantNb, conn, rcv, sent, got, sndFree, blocked>>

\* Net.getSndBuf: get_int_sockopt(SOL_SOCKET, SO_SNDBUF).
getSndBuf == GetIntSockopt("getSndBuf", "sndbuf")

\* Net.getEWouldBlock: EWOULDBLOCK of the CRT's <errno.h>.
getEWouldBlock == 140

\* Net.getEwouldblock: WSAEWOULDBLOCK of <winsock2.h>.
getEwouldblock == 10035

-----------------------------------------------------------------------------
(* The kernel and the peer.                                                *)

\* A call sleeping on a blocking socket completes once it can.
Wake ==
    /\ blocked # NoCall
    /\ \/ /\ blocked.op \in {"recv", "peek"}
          /\ ~RecvSleeps(blocked.len)
          /\ RecvDone(blocked.len, blocked.op = "peek")
          /\ UNCHANGED sndFree
       \/ /\ blocked.op = "send"
          /\ ~SendSleeps(blocked.len)
          /\ SendDone(blocked.len)
    /\ blocked' = NoCall
    /\ UNCHANGED <<opts, sock, fd, nbio, wantNb, conn, sent>>

\* The background handshake of a non-blocking connect ends.
ConnectCompletes ==
    /\ conn = "connecting"
    /\ conn' \in {"established", "refused"}
    /\ UNCHANGED <<opts, sock, fd, nbio, wantNb, rcv, sent, got, sndFree, wsa, saved, blocked, last>>

\* The peer sends its next byte.
PeerSend ==
    /\ conn = "established" /\ sent < MaxBytes
    /\ sent' = sent + 1 /\ rcv' = Append(rcv, sent + 1)
    /\ UNCHANGED <<opts, sock, fd, nbio, wantNb, conn, got, sndFree, wsa, saved, blocked, last>>

\* The peer closes its side (FIN).
PeerClose ==
    /\ conn = "established" /\ conn' = "peerClosed"
    /\ UNCHANGED <<opts, sock, fd, nbio, wantNb, rcv, sent, got, sndFree, wsa, saved, blocked, last>>

\* The connection is reset; unread data is discarded.
PeerReset ==
    /\ conn \in Connected /\ conn' = "reset" /\ rcv' = <<>>
    /\ UNCHANGED <<opts, sock, fd, nbio, wantNb, sent, got, sndFree, wsa, saved, blocked, last>>

\* The kernel transmits a byte of the send buffer.
SndDrain ==
    /\ conn \in Connected /\ sndFree < SndBuf /\ sndFree' = sndFree + 1
    /\ UNCHANGED <<opts, sock, fd, nbio, wantNb, conn, rcv, sent, got, wsa, saved, blocked, last>>

Next ==
    \/ socketTcp \/ configureNonBlocking \/ connect \/ recv \/ peek \/ send
    \/ setSndBuf \/ getSndBuf \/ setTcpNoDelay \/ setKeepAlive0
    \/ Wake \/ ConnectCompletes \/ PeerSend \/ PeerClose \/ PeerReset \/ SndDrain

Spec == Init /\ [][Next]_vars

-----------------------------------------------------------------------------
(* Properties.                                                             *)

\* spec 4.3 create: every socket the kernel holds is one the caller has a
\* descriptor for, in the mode the caller asked socketTcp for; a socket
\* ioctlsocket could not make non-blocking is closed, neither leaked nor
\* handed over blocking.
SocketAsRequested == sock = "open" => fd /\ (wantNb => nbio)

\* spec 8: the bytes recv hands over are the peer's bytes, in order, none
\* lost or repeated, however recv and peek (MSG_PEEK) calls interleave.
StreamIntegrity == IsPrefix(got, Sent)

\* recv, peek and send return ERETRY only when the syscall itself failed
\* with WSAEWOULDBLOCK, never because of a stale WSAGetLastError value
\* (for instance on an end of stream after an earlier would-block).
RetryOnlyOnWouldBlock == last.ret = ERETRY => last.os = "WSAEWOULDBLOCK"

\* spec 3 / 7(e): when a call fails because of an OS error, Os.errno (the
\* value SaveLastError stored) is that error.
ErrnoExplainsFailure ==
    (last.ret \in {-1, EOTHERDISCONNECT} /\ last.os \in OsErrors \ {"WSAEWOULDBLOCK"})
        => saved = last.os

\* spec 7(c) / 8: recv and peek report EOTHERDISCONNECT (peer-disconnected)
\* only when the peer closed the connection, distinct from other failures.
DisconnectMeansPeerClosed ==
    (last.op \in {"recv", "peek"} /\ last.ret = EOTHERDISCONNECT) => last.os = "eof"

\* spec 4.3: setKeepAlive0 sets the keepalive parameters the caller asks
\* for; the time WSAIoctl was given is idle_sec seconds, i.e. the exact
\* product idle_sec * 1000 lost no bits above 32 in the int multiplication.
KeepaliveAsRequested ==
    opts.keepalive.on =>
        LET w == Word(opts.keepalive.idle)
        IN opts.keepalive.time = <<ProductHigh(w, 1000), (w[2] * 1000) % 65536>>
=============================================================================
