---------------------------- MODULE KeventClient ----------------------------
(***************************************************************************)
(* The kqueue multiplexer as its Java caller drives it (spec 2, 4.1): the  *)
(* change-list of each kevent() call is built in raw memory with the       *)
(* layout getters of KeventLayout, kevent(2) reads it as an array of       *)
(* struct kevent, and the events kevent(2) writes into the event-list are  *)
(* read back with the same getters.  Composes KeventWait, whose changes    *)
(* and evl are the change-list and the reported events of the current     *)
(* call, with KeventLayout.                                                *)
(***************************************************************************)
EXTENDS KeventWait, KeventLayout
LOCAL INSTANCE SequencesExt
LOCAL INSTANCE Bitwise

CONSTANT
    IdentKey   \* Idents -> [fd, filter, udata]: the descriptor and filter an
               \* identity stands for, and the user data it is registered with

\* The order in which the caller lays out its records.
Order == SetToSeq(Idents)

\* The caller's records for the change-list ch: one per identity ch
\* changes, with EV_ADD, or EV_ADD | EV_ONESHOT.
ChangeRecords(ch) ==
    LET es == SelectSeq(Order, LAMBDA e : ch[e] # "skip") IN
    [i \in 1..Len(es) |->
        [ident  |-> IdentKey[es[i]].fd,
         filter |-> IdentKey[es[i]].filter,
         flags  |-> IF ch[es[i]] = "oneshot" THEN getEvAdd | getEvOneshot ELSE getEvAdd,
         udata  |-> IdentKey[es[i]].udata]]

\* mem with the records recs[k..] written as records k-1, k, ... of a
\* change-list.
RECURSIVE WriteRecords(_, _, _)
WriteRecords(mem, recs, k) ==
    IF k > Len(recs) THEN mem
    ELSE WriteRecords(CallerWrite(mem, k - 1, recs[k]), recs, k + 1)

\* The record kevent(2) reads for the identity e among the first n of a
\* change-list, as [act, udata]; act is "skip" if there is none.
KernelChange(mem, n, e) ==
    LET ks == {k \in 0..n - 1 : /\ KernelField(mem, k, "ident") = IdentKey[e].fd
                                /\ KernelField(mem, k, "filter") = IdentKey[e].filter}
        r  == KernelRead(mem, CHOOSE k \in ks : TRUE)
    IN  IF ks = {} THEN [act |-> "skip", udata |-> Garbage]
        ELSE [act   |-> CASE r.flags = EV_ADD              -> "add"
                          [] r.flags = EV_ADD + EV_ONESHOT -> "oneshot"
                          [] OTHER                         -> "invalid",
              udata |-> r.udata]

\* What kevent(2) reads from the caller's buffer for the change-list ch.
KernelChanges(ch) ==
    LET recs == ChangeRecords(ch)
        mem  == WriteRecords(Buffer(Len(recs)), recs, 1)
    IN  [e \in Idents |-> KernelChange(mem, Len(recs), e)]

\* The event kevent(2) reports for the identity e.
EventOf(e) == [ident |-> IdentKey[e].fd, filter |-> IdentKey[e].filter,
               flags |-> EV_ADD, udata |-> IdentKey[e].udata]

\* mem with the events of es[k..] written as events k-1, k, ... of an
\* event-list.
RECURSIVE WriteEvents(_, _, _)
WriteEvents(mem, es, k) ==
    IF k > Len(es) THEN mem
    ELSE WriteEvents(KernelWrite(mem, k - 1, EventOf(es[k])), es, k + 1)

\* The identities the caller finds in the event-list kevent(2) wrote for
\* the reported set S, by descriptor, filter and user data.
CallerEvents(S) ==
    LET es  == SelectSeq(Order, LAMBDA e : e \in S)
        mem == WriteEvents(Buffer(Len(es)), es, 1)
    IN  {e \in Idents :
            \E k \in 0..Len(es) - 1 :
                LET r == CallerRead(mem, k) IN
                /\ r.ident = IdentKey[e].fd /\ r.filter = IdentKey[e].filter
                /\ r.udata = IdentKey[e].udata}

-----------------------------------------------------------------------------
(* Properties.                                                             *)

\* spec 4.1: the getters give the caller the layout of struct kevent.  The
\* change-list of a call that is entering kevent(2), built from
\* getSizeofKevent and the field offsets, is read by kevent(2) as that
\* change-list with the user data the caller registered; and once the call
\* has returned, the events kevent(2) wrote into the event-list are the
\* events the caller reads back from it.
LayoutAgrees ==
    /\ pc = "call" =>
           KernelChanges(changes) =
               [e \in Idents |-> IF changes[e] = "skip"
                                   THEN [act |-> "skip", udata |-> Garbage]
                                   ELSE [act |-> changes[e], udata |-> IdentKey[e].udata]]
    /\ pc = "ret" => CallerEvents(evl) = evl
=============================================================================
