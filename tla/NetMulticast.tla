----------------------------- MODULE NetMulticast -----------------------------
(***************************************************************************)
(* Net.join of windows/net.c: the caller's host-order group and bind       *)
(* addresses are stored, with htonl, into a struct ip_mreq_source on the   *)
(* stack, and the struct is passed to setsockopt(IP_ADD_MEMBERSHIP).       *)
(*                                                                         *)
(* The struct is modelled byte by byte, because what the kernel gets      *)
(* depends on the layout: on Windows ip_mreq_source is {imr_multiaddr,     *)
(* imr_sourceaddr, imr_interface}, while IP_ADD_MEMBERSHIP reads a struct  *)
(* ip_mreq, {imr_multiaddr, imr_interface}.  An IPv4 address is the        *)
(* sequence of its four octets, most significant first; the host is       *)
(* little-endian.  The kernel is the environment: it keeps the socket's    *)
(* memberships, each a group joined on one local interface.                *)
(***************************************************************************)
EXTENDS Integers, SequencesExt

CONSTANTS
    Groups,      \* groupAddress values the caller passes
    Interfaces,  \* addresses of the host's interfaces
    DefaultIf    \* the interface the kernel picks for INADDR_ANY

InaddrAny == <<0, 0, 0, 0>>

\* bindAddress values the caller passes: an interface or INADDR_ANY.
Binds == Interfaces \cup {InaddrAny}

ASSUME DefaultIf \in Interfaces

VARIABLES
    joined,   \* the socket's memberships: set of [group, iface]
    granted,  \* history: [group, bind] of the join calls that returned TRUE
    saved,    \* what SaveLastError stored: Os.errno
    last      \* the last call: [group, bind, ret], ret a jboolean (0 or 1)

vars == <<joined, granted, saved, last>>

Errors == {"none", "WSAEINVAL", "WSAEADDRNOTAVAIL", "WSAEADDRINUSE"}

TypeOK ==
    /\ joined \subseteq [group : Seq(0..255), iface : Interfaces]
    /\ granted \subseteq [group : Groups, bind : Binds]
    /\ saved \in Errors
    /\ last \in [group : Groups \cup {InaddrAny}, bind : Binds, ret : {0, 1}]

Init ==
    /\ joined = {} /\ granted = {}
    /\ saved = "none"
    /\ last = [group |-> InaddrAny, bind |-> InaddrAny, ret |-> 0]

-----------------------------------------------------------------------------
(* Memory.                                                                 *)

\* Offsets of the fields of struct ip_mreq_source (Windows) and of the
\* struct ip_mreq that IP_ADD_MEMBERSHIP reads.
MreqSource == [multiaddr |-> 0, sourceaddr |-> 4, interface |-> 8]
Mreq       == [multiaddr |-> 0, interface |-> 4]

\* htonl of a host-order value: its octets in reverse order.
Htonl(v) == Reverse(v)

\* The bytes of a u_long stored at an address: least significant first.
Bytes(v) == Reverse(v)

\* buf with the four bytes of the u_long v stored at offset off.
Store(buf, off, v) ==
    [i \in DOMAIN buf |-> IF i \in off..off + 3 THEN Bytes(v)[i - off + 1] ELSE buf[i]]

\* The in_addr at offset off: its bytes are the address in network order.
InAddr(buf, off) == [k \in 1..4 |-> buf[off + k - 1]]

IsMulticast(a) == a[1] \in 224..239

-----------------------------------------------------------------------------
(* The code.                                                               *)

\* Mutant of AddMembership: join returns setsockopt's result, not a
\* boolean.
AddMembershipReturnsRes(buf, group, bind) ==
    LET g    == InAddr(buf, Mreq.multiaddr)
        i    == InAddr(buf, Mreq.interface)
        ifc  == IF i = InaddrAny THEN DefaultIf ELSE i
        ok   == IsMulticast(g) /\ ifc \in Interfaces /\ [group |-> g, iface |-> ifc] \notin joined
    IN
    /\ joined' = IF ok THEN joined \cup {[group |-> g, iface |-> ifc]} ELSE joined
    /\ granted' = IF ok THEN granted \cup {[group |-> group, bind |-> bind]} ELSE granted
    /\ last' = [group |-> group, bind |-> bind, ret |-> IF ok THEN 0 ELSE -1]
    /\ UNCHANGED saved

\* setsockopt(IP_ADD_MEMBERSHIP) on the bytes buf: the kernel reads an
\* ip_mreq and joins, or fails; then join's own epilogue.
AddMembership(buf, group, bind) ==
    LET g    == InAddr(buf, Mreq.multiaddr)
        i    == InAddr(buf, Mreq.interface)
        ifc  == IF i = InaddrAny THEN DefaultIf ELSE i
        err  == CASE ~IsMulticast(g)                           -> "WSAEINVAL"
                  [] ifc \notin Interfaces                     -> "WSAEADDRNOTAVAIL"
                  [] [group |-> g, iface |-> ifc] \in joined   -> "WSAEADDRINUSE"
                  [] OTHER                                     -> "none"
    IN
    IF err = "none"
      THEN /\ joined' = joined \cup {[group |-> g, iface |-> ifc]}
           /\ granted' = granted \cup {[group |-> group, bind |-> bind]}
           /\ last' = [group |-> group, bind |-> bind, ret |-> 1]
           /\ UNCHANGED saved
      ELSE /\ saved' = err
           /\ last' = [group |-> group, bind |-> bind, ret |-> 0]
           /\ UNCHANGED <<joined, granted>>

\* The bytes imr holds before join fills it: whatever was on the stack
\* (every byte is overwritten, so which value does not matter).
Stack == [i \in 0..11 |-> 255]

\* Mutant of join: groupAddress is stored without htonl.
JoinNoHtonl ==
    \E group \in Groups, bind \in Binds :
        LET b1 == Store(Stack, MreqSource.multiaddr, group)
            b2 == Store(b1, MreqSource.sourceaddr, InaddrAny)
            b3 == Store(b2, MreqSource.interface, Htonl(bind))
        IN AddMembership(b3, group, bind)

\* Net.join(fd, bindAddress, groupAddress): fill imr field by field, then
\* setsockopt; on failure SaveLastError and FALSE, else TRUE.
join ==
    \E group \in Groups, bind \in Binds :
        LET b1 == Store(Stack, MreqSource.multiaddr, Htonl(group))
            b2 == Store(b1, MreqSource.sourceaddr, InaddrAny)
            b3 == Store(b2, MreqSource.interface, Htonl(bind))
        IN AddMembership(b3, group, bind)

Next == join

Spec == Init /\ [][Next]_vars

-----------------------------------------------------------------------------
(* Properties.                                                             *)

\* join returns TRUE exactly for the groups the socket is a member of: the
\* group the kernel joined is the groupAddress the caller passed, however
\* htonl and the struct layout combine.
MembershipsMatchRequests ==
    {m.group : m \in joined} = {r.group : r \in granted}

\* spec 4.3: the membership is registered on the interface bindAddress
\* names; a join that returned TRUE for a bind address other than
\* INADDR_ANY made the socket a member on that interface.
JoinUsesBindAddress ==
    \A r \in granted :
        r.bind = InaddrAny \/ [group |-> r.group, iface |-> r.bind] \in joined
=============================================================================
