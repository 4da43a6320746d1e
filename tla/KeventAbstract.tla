--------------------------- MODULE KeventAbstract ---------------------------
(***************************************************************************)
(* What one call of KqueueAccessor.kevent promises its caller, as if it    *)
(* were a single atomic kevent(2) system call: the change-list is applied  *)
(* exactly once, then the call reports either ready registered events (at  *)
(* most the capacity of the event-list, one-shot registrations that are    *)
(* reported are removed), or no event, or a failure with its errno.  How   *)
(* long the call takes is not part of this specification (see the timing  *)
(* properties of KeventWait).                                              *)
(***************************************************************************)
EXTENDS Integers, FiniteSets

CONSTANTS
    Idents,     \* kevent identities (descriptor, filter) the caller uses
    NEvents,    \* capacity of the caller's event-list
    Timeouts    \* timeout_msec values the caller passes

\* Registration state of one identity in the kernel queue: absent, EV_ADD
\* (level triggered) or EV_ADD|EV_ONESHOT.
RegStates == {"none", "add", "oneshot"}

\* One change-list entry per identity; "skip" means the list has no entry.
ChangeLists == [Idents -> {"skip", "add", "oneshot"}]

Results == [res : -1..NEvents, events : SUBSET Idents,
            err : {"none", "EINTR", "EINVAL"}]

VARIABLES
    reg,     \* the kernel's registrations
    ready,   \* identities whose condition (readable/writable) holds
    call,    \* the arguments of the current or last call
    result   \* Pending while a call runs, then what it returned

vars == <<reg, ready, call, result>>

\* kevent applies every change-list entry: EV_ADD adds or modifies.
ApplyChanges(r, ch) == [e \in Idents |-> IF ch[e] = "skip" THEN r[e] ELSE ch[e]]

\* Registered identities whose condition holds.
Deliverable(r) == {e \in ready : r[e] # "none"}

\* Reporting an EV_ONESHOT event deletes its registration.
Fire(r, S) == [e \in Idents |-> IF e \in S /\ r[e] = "oneshot" THEN "none" ELSE r[e]]

\* C division truncates towards zero.
CDiv(a, b) == IF a >= 0 THEN a \div b ELSE -((-a) \div b)

\* The timespec built from timeout_msec has a negative tv_sec or tv_nsec:
\* kevent rejects it with EINVAL.
InvalidTimespec(t) == CDiv(t, 1000) < 0 \/ t - CDiv(t, 1000) * 1000 < 0

NoResult == [res |-> 0, events |-> {}, err |-> "none"]

\* No result yet: the call is running (res -2 is never returned).
Pending == [res |-> -2, events |-> {}, err |-> "none"]

Init ==
    /\ reg = [e \in Idents |-> "none"]
    /\ ready = {}
    /\ call = [changes |-> [e \in Idents |-> "skip"], tmo |-> 0]
    /\ result = NoResult

Invoke ==
    /\ result # Pending
    /\ \E ch \in ChangeLists, t \in Timeouts : call' = [changes |-> ch, tmo |-> t]
    /\ result' = Pending
    /\ UNCHANGED <<reg, ready>>

Return ==
    LET r1 == ApplyChanges(reg, call.changes) IN
    /\ result = Pending
    /\ \/ /\ InvalidTimespec(call.tmo)
          /\ result' = [res |-> -1, events |-> {}, err |-> "EINVAL"]
          /\ UNCHANGED reg
       \/ /\ ~InvalidTimespec(call.tmo)
          /\ \/ \E S \in SUBSET Deliverable(r1) :
                   /\ S # {}
                   /\ Cardinality(S) <= NEvents
                   /\ reg' = Fire(r1, S)
                   /\ result' = [res |-> Cardinality(S), events |-> S, err |-> "none"]
             \/ /\ reg' = r1
                /\ result' \in {NoResult, [res |-> -1, events |-> {}, err |-> "EINTR"]}
    /\ UNCHANGED <<ready, call>>

\* The environment: a descriptor becomes ready, or the caller consumes its
\* data between calls.
Arrive == \E e \in Idents \ ready : ready' = ready \cup {e} /\ UNCHANGED <<reg, call, result>>

Drain ==
    /\ result # Pending
    /\ \E e \in ready : ready' = ready \ {e}
    /\ UNCHANGED <<reg, call, result>>

Next == Invoke \/ Return \/ Arrive \/ Drain

Spec == Init /\ [][Next]_vars
=============================================================================
