----------------------------- MODULE KeventWait -----------------------------
(***************************************************************************)
(* The kqueue readiness multiplexer of osx/kqueue.c: creating the queue    *)
(* (KqueueAccessor.kqueue) and the submit-and-wait call                    *)
(* KqueueAccessor.kevent, whose do-while loop re-issues kevent(2) after    *)
(* EINTR with the timeout reduced by the elapsed time measured by clock(). *)
(*                                                                         *)
(* The kernel is the environment: it applies the change-list, reports      *)
(* ready registered events, sleeps until its timeout, or is interrupted by *)
(* a signal before any event is placed (EINTR).  Time is counted in        *)
(* milliseconds since the call was entered (now); cpu is the process CPU   *)
(* time clock() has counted since the current kevent(2) began.  clock()    *)
(* counts the CPU time of every thread of the process, so during one       *)
(* millisecond of wall time it advances by anything from 0 (all threads    *)
(* blocked) to Cores.                                                      *)
(***************************************************************************)
EXTENDS Integers, FiniteSets

CONSTANTS
    Idents,         \* kevent identities (descriptor, filter) the caller uses
    NEvents,        \* nEvents: capacity of the caller's event-list
    Timeouts,       \* timeout_msec values the caller passes
    Cores,          \* bound on CPU milliseconds clock() counts per wall millisecond
    MaxInterrupts,  \* bound on signals delivered during one call
    Slack           \* lateness allowed by the deadline property, in ms

ASSUME NEvents \in Nat \ {0} /\ Cores \in Nat /\ MaxInterrupts \in Nat
ASSUME Timeouts \subseteq Int /\ Slack \in Nat

VARIABLES
    kq,         \* the queue handle: "none", "open" or "failed" (kqueue() = -1)
    reg,        \* the kernel's registrations: Idents -> RegStates
    ready,      \* identities whose condition holds
    pc,         \* "idle", "ret" (returned), or in the call: "call", "kernel", "after"
    changes,    \* changelist argument
    tmo,        \* timeout_msec argument
    remaining,  \* remaining_timeout_nsec, in milliseconds
    now,        \* wall milliseconds since the call was entered
    cpu,        \* clock() - start, in milliseconds
    kdl,        \* wall time at which the current kevent(2) times out
    res,        \* res: what the last kevent(2) returned
    evl,        \* the event-list memory: identities the kernel wrote there
    errno,      \* the thread's errno
    intr,       \* signals delivered during this call
    taken,      \* history: one-shot events the kernel reported during this call
    reg0        \* history: the registrations when the call was entered

vars == <<kq, reg, ready, pc, changes, tmo, remaining, now, cpu, kdl, res, evl,
          errno, intr, taken, reg0>>

Busy == {"call", "kernel", "after"}

\* Os.errno of share/os.c: the calling thread's errno, which the caller
\* reads after kevent() returned -1.
OsErrno == errno

\* What the caller observes once the call has returned.
Observed == [res    |-> res,
             events |-> IF res > 0 THEN evl ELSE {},
             err    |-> IF res = -1 THEN OsErrno ELSE "none"]

\* No result yet, as Pending of KeventAbstract.
Pending == [res |-> -2, events |-> {}, err |-> "none"]

\* The refinement mapping onto the atomic call of KeventAbstract: while the
\* loop runs, the caller sees no result and the registrations of the call's
\* entry.
Abs == INSTANCE KeventAbstract WITH
    reg    <- IF pc \in Busy THEN reg0 ELSE reg,
    call   <- [changes |-> changes, tmo |-> tmo],
    result <- IF pc \in Busy THEN Pending ELSE Observed

RegStates == Abs!RegStates
ChangeLists == Abs!ChangeLists
ApplyChanges(r, ch) == Abs!ApplyChanges(r, ch)
Deliverable(r) == Abs!Deliverable(r)
Fire(r, S) == Abs!Fire(r, S)
CDiv(a, b) == Abs!CDiv(a, b)

\* The budget never exceeds the longest timeout a caller passes.
MaxTimeout == CHOOSE m \in {0} \cup Timeouts : \A t \in Timeouts : t <= m

Errnos == {"none", "EINTR", "EINVAL", "EMFILE"}

TypeOK ==
    /\ kq \in {"none", "open", "failed"}
    /\ reg \in [Idents -> RegStates]
    /\ ready \subseteq Idents
    /\ pc \in {"idle", "ret"} \cup Busy
    /\ changes \in ChangeLists
    /\ tmo \in Timeouts \cup {0}
    /\ remaining \in Int /\ remaining <= MaxTimeout /\ now \in Nat /\ cpu \in Nat /\ kdl \in Nat
    /\ res \in -1..NEvents
    /\ evl \subseteq Idents /\ Cardinality(evl) <= NEvents
    /\ errno \in Errnos
    /\ intr \in 0..MaxInterrupts
    /\ taken \subseteq Idents
    /\ reg0 \in [Idents -> RegStates]

Init ==
    /\ kq = "none"
    /\ reg = [e \in Idents |-> "none"]
    /\ ready = {}
    /\ pc = "idle"
    /\ changes = [e \in Idents |-> "skip"]
    /\ tmo = 0 /\ remaining = 0
    /\ now = 0 /\ cpu = 0 /\ kdl = 0
    /\ res = 0 /\ evl = {} /\ errno = "none"
    /\ intr = 0 /\ taken = {}
    /\ reg0 = [e \in Idents |-> "none"]

-----------------------------------------------------------------------------
(* The code: KqueueAccessor.kqueue and KqueueAccessor.kevent.              *)

\* kqueue(): a new queue, or -1 with errno set when the process is out of
\* descriptors.  The caller retries after a failure.
kqueue ==
    /\ kq \in {"none", "failed"}
    /\ \/ kq' = "open" /\ UNCHANGED errno
       \/ kq' = "failed" /\ errno' = "EMFILE"
    /\ UNCHANGED <<reg, ready, pc, changes, tmo, remaining, now, cpu, kdl, res,
                   evl, intr, taken, reg0>>

\* Entry of kevent(): remaining_timeout_nsec = timeout_msec * MILLION.
Invoke ==
    /\ kq = "open"
    /\ pc \in {"idle", "ret"}
    /\ \E ch \in ChangeLists, t \in Timeouts :
          /\ changes' = ch
          /\ tmo' = t
          /\ remaining' = t
    /\ pc' = "call"
    /\ now' = 0 /\ intr' = 0 /\ taken' = {} /\ reg0' = reg
    /\ UNCHANGED <<kq, reg, ready, cpu, kdl, res, evl, errno>>

\* One pass of the loop body up to the kevent(2) call: build the timespec
\* from remaining, start = clock(), and enter the kernel.  kevent(2)
\* rejects a timespec with a negative tv_sec or tv_nsec with EINVAL before
\* applying any change; otherwise it applies the whole change-list and
\* sleeps at most tv_sec * 1000 + tv_nsec ms.
KernelEnter ==
    LET tv_sec  == CDiv(remaining, 1000)
        tv_nsec == remaining - tv_sec * 1000
    IN
    /\ pc = "call"
    /\ cpu' = 0
    /\ IF tv_sec < 0 \/ tv_nsec < 0
         THEN /\ res' = -1 /\ errno' = "EINVAL" /\ pc' = "after"
              /\ UNCHANGED <<reg, kdl>>
         ELSE /\ reg' = ApplyChanges(reg, changes)
              /\ kdl' = now + remaining
              /\ pc' = "kernel"
              /\ UNCHANGED <<res, errno>>
    /\ UNCHANGED <<kq, ready, changes, tmo, remaining, now, evl, intr, taken, reg0>>

\* Mutant of After: the loop condition tests errno without res == -1, so a
\* stale EINTR left by an earlier call re-issues kevent after a success.
AfterIgnoringRes ==
    LET rem == IF tmo # 0 THEN remaining - cpu ELSE remaining IN
    /\ pc = "after"
    /\ remaining' = rem
    /\ pc' = IF errno = "EINTR" /\ rem >= 0 THEN "call" ELSE "ret"
    /\ UNCHANGED <<kq, reg, ready, changes, tmo, now, cpu, kdl, res, evl, errno,
                   intr, taken, reg0>>

\* Mutant of After: elapsed is computed as start - end, so the budget
\* grows by the time spent instead of shrinking.
AfterElapsedSwapped ==
    LET rem == IF tmo # 0 THEN remaining + cpu ELSE remaining IN
    /\ pc = "after"
    /\ remaining' = rem
    /\ pc' = IF res = -1 /\ errno = "EINTR" /\ rem >= 0 THEN "call" ELSE "ret"
    /\ UNCHANGED <<kq, reg, ready, changes, tmo, now, cpu, kdl, res, evl, errno,
                   intr, taken, reg0>>

\* After kevent(2) returns: unless timeout_msec is 0, subtract the elapsed
\* CPU time; loop again while res == -1 && errno == EINTR &&
\* remaining_timeout_nsec >= 0, else return res.
After ==
    LET rem == IF tmo # 0 THEN remaining - cpu ELSE remaining IN
    /\ pc = "after"
    /\ remaining' = rem
    /\ pc' = IF res = -1 /\ errno = "EINTR" /\ rem >= 0 THEN "call" ELSE "ret"
    /\ UNCHANGED <<kq, reg, ready, changes, tmo, now, cpu, kdl, res, evl, errno,
                   intr, taken, reg0>>

-----------------------------------------------------------------------------
(* The kernel inside kevent(2), and the rest of the environment.           *)

\* Ready registered events are written to the event-list (at most nEvents
\* of them); reported one-shot registrations are deleted.
Deliver ==
    LET D == Deliverable(reg) IN
    /\ pc = "kernel"
    /\ \E S \in SUBSET D :
          /\ Cardinality(S) = IF Cardinality(D) < NEvents THEN Cardinality(D) ELSE NEvents
          /\ S # {}
          /\ evl' = S
          /\ res' = Cardinality(S)
          /\ reg' = Fire(reg, S)
          /\ taken' = taken \cup {e \in S : reg[e] = "oneshot"}
    /\ pc' = "after"
    /\ UNCHANGED <<kq, ready, changes, tmo, remaining, now, cpu, kdl, errno, intr, reg0>>

\* The sleep ends with no event: kevent(2) returns 0.
Expire ==
    /\ pc = "kernel"
    /\ now >= kdl
    /\ Deliverable(reg) = {}
    /\ res' = 0 /\ pc' = "after"
    /\ UNCHANGED <<kq, reg, ready, changes, tmo, remaining, now, cpu, kdl, evl,
                   errno, intr, taken, reg0>>

\* A signal interrupts the sleep before any event is placed.
Interrupt ==
    /\ pc = "kernel"
    /\ now < kdl
    /\ Deliverable(reg) = {}
    /\ intr < MaxInterrupts
    /\ res' = -1 /\ errno' = "EINTR" /\ pc' = "after"
    /\ intr' = intr + 1
    /\ UNCHANGED <<kq, reg, ready, changes, tmo, remaining, now, cpu, kdl, evl,
                   taken, reg0>>

\* One millisecond of sleep; the process's threads burn 0..Cores ms of CPU.
Tick ==
    /\ pc = "kernel"
    /\ now < kdl
    /\ Deliverable(reg) = {}
    /\ now' = now + 1
    /\ \E c \in 0..Cores : cpu' = cpu + c
    /\ UNCHANGED <<kq, reg, ready, pc, changes, tmo, remaining, kdl, res, evl,
                   errno, intr, taken, reg0>>

\* A descriptor's condition starts to hold (data arrives, buffer drains).
Arrive ==
    /\ \E e \in Idents \ ready : ready' = ready \cup {e}
    /\ UNCHANGED <<kq, reg, pc, changes, tmo, remaining, now, cpu, kdl, res, evl,
                   errno, intr, taken, reg0>>

\* Between calls the caller consumes a descriptor's data.
Drain ==
    /\ pc \in {"idle", "ret"}
    /\ \E e \in ready : ready' = ready \ {e}
    /\ UNCHANGED <<kq, reg, pc, changes, tmo, remaining, now, cpu, kdl, res, evl,
                   errno, intr, taken, reg0>>

Next ==
    \/ kqueue \/ Invoke \/ KernelEnter \/ After
    \/ Deliver \/ Expire \/ Interrupt \/ Tick
    \/ Arrive \/ Drain

\* The loop's own steps run whenever enabled; the kernel wakes the thread
\* when an event is ready or the timeout passes, and time advances.
Fairness ==
    /\ WF_vars(KernelEnter) /\ WF_vars(After)
    /\ WF_vars(Deliver) /\ WF_vars(Expire) /\ WF_vars(Tick)

Spec == Init /\ [][Next]_vars /\ Fairness

-----------------------------------------------------------------------------
(* Properties.                                                             *)

\* Refinement: the retry loop, re-submitting the change-list after every
\* EINTR, behaves like one atomic kevent(2) call that applies the
\* change-list once.
KeventRefinement == Abs!Spec

\* A one-shot event the kernel reported (and so deleted) during a call is
\* in the event-list the call returns: a retry of kevent after the kernel
\* already reported events would overwrite the list and lose them.
NoLostEvents == pc = "ret" => taken \subseteq Observed.events

\* Every call of kevent() returns (signals being finitely many).
CallReturns == pc \in Busy ~> pc = "ret"

\* spec 4.2 / 8: a call with timeout t > 0 returns no later than t + Slack ms
\* after it was entered and, when it reports nothing, no earlier than t ms,
\* however many signals interrupt it.
DeadlineHonoured ==
    pc = "ret" /\ tmo > 0 => /\ now <= tmo + Slack
                             /\ res = 0 => tmo <= now

\* spec 4.2: a negative timeout blocks until an event fires; such a call
\* never returns "no event" and never fails with EINVAL.
NegativeTimeoutBlocks ==
    (pc = "ret" /\ tmo < 0) => res # 0 /\ ~(res = -1 /\ OsErrno = "EINVAL")

\* spec 7(d): interrupted waits are recovered inside the call; it never
\* returns -1 with Os.errno EINTR.
InterruptsInvisible == pc = "ret" => ~(res = -1 /\ OsErrno = "EINTR")
=============================================================================
