---------------------------- MODULE KeventLayout ----------------------------
(***************************************************************************)
(* The layout provider of osx/kqueue.c: the KqueueAccessor getters that    *)
(* give the Java caller the filter and flag constants, sizeof(struct       *)
(* kevent) and the offsets of its ident, filter, flags and udata fields,   *)
(* so that the caller can build change-list records in raw memory and      *)
(* read the event-list kevent(2) writes there.                             *)
(*                                                                         *)
(* Memory is a function from byte addresses to byte contents.  A byte is   *)
(* the pair <<v, i>>: byte i (little-endian) of the value v stored there;  *)
(* Stale is a byte nobody has written since the buffer was allocated.  A   *)
(* field of width w read at address a has the value v only if its w bytes *)
(* are bytes 0..w-1 of v; any other content is Garbage.                    *)
(***************************************************************************)
EXTENDS Integers

\* A byte of no value (the index -1 is no byte of a value), and the result
\* of a read of anything but one value (no field a record holds is -1000).
Stale   == <<0, -1>>
Garbage == -1000

\* struct kevent of <sys/event.h> (LP64): each field's offset and width in
\* bytes, and the size of the struct.  fflags and data are filter-specific.
KeventStruct ==
    [ident  |-> [off |-> 0,  len |-> 8],   \* uintptr_t
     filter |-> [off |-> 8,  len |-> 2],   \* int16_t
     flags  |-> [off |-> 10, len |-> 2],   \* uint16_t
     fflags |-> [off |-> 12, len |-> 4],   \* uint32_t
     data   |-> [off |-> 16, len |-> 8],   \* intptr_t
     udata  |-> [off |-> 24, len |-> 8]]   \* void *
SizeofKevent == 32

\* The header's constants.
EVFILT_READ == -1
EVFILT_WRITE == -2
EV_ADD == 1
EV_ONESHOT == 16

\* The (short) conversion of an int: its low 16 bits, two's complement.
Short(x) == ((x + 32768) % 65536) - 32768

-----------------------------------------------------------------------------
(* The code: KqueueAccessor's getters.                                     *)

getEvfiltRead == EVFILT_READ

getEvfiltWrite == EVFILT_WRITE

getSizeofKevent == Short(SizeofKevent)

getFdOffset == Short(KeventStruct.ident.off)

getFilterOffset == Short(KeventStruct.filter.off)

\* Mutant of getDataOffset: the offset of the data field, which the
\* getter's name suggests, instead of udata.
DataOffsetOfData == Short(KeventStruct.data.off)

\* getDataOffset: offsetof(struct kevent, udata), the caller's user data.
getDataOffset == Short(KeventStruct.udata.off)

getFlagsOffset == Short(KeventStruct.flags.off)

getEvAdd == EV_ADD

getEvOneshot == EV_ONESHOT

-----------------------------------------------------------------------------
(* Memory, the caller and the kernel.                                      *)

\* mem with bytes i..w-1 of v stored at addresses a + i..a + w - 1; a byte
\* outside the buffer is lost.
RECURSIVE PutFrom(_, _, _, _, _)
PutFrom(mem, a, v, w, i) ==
    IF i = w THEN mem
    ELSE PutFrom(IF a + i \in DOMAIN mem THEN [mem EXCEPT ![a + i] = <<v, i>>] ELSE mem,
                 a, v, w, i + 1)

\* mem with the w bytes of v stored at address a.
Put(mem, a, v, w) == PutFrom(mem, a, v, w, 0)

\* The value of width w at address a of mem, or Garbage.
Get(mem, a, w) ==
    IF /\ a..a + w - 1 \subseteq DOMAIN mem
       /\ \A i \in 0..w - 1 : mem[a + i] = <<mem[a][1], i>>
      THEN mem[a][1]
      ELSE Garbage

\* A buffer of n records as the caller allocates it: n * getSizeofKevent
\* bytes with whatever they held before.
Buffer(n) == [x \in 0..n * getSizeofKevent - 1 |-> Stale]

\* The widths the caller stores the fields with: the descriptor and the
\* user data as longs, filter and flags as the jshort the getters return.
CallerWidth == [ident |-> 8, filter |-> 2, flags |-> 2, udata |-> 8]

\* The caller's change-list record r at index k (0-based): each field at
\* k * getSizeofKevent plus its getter's offset.
CallerWrite(mem, k, r) ==
    LET b  == k * getSizeofKevent
        m1 == Put(mem, b + getFdOffset, r.ident, CallerWidth.ident)
        m2 == Put(m1, b + getFilterOffset, r.filter, CallerWidth.filter)
        m3 == Put(m2, b + getFlagsOffset, r.flags, CallerWidth.flags)
    IN  Put(m3, b + getDataOffset, r.udata, CallerWidth.udata)

\* The caller reading record k of an event-list at the getters' offsets.
CallerRead(mem, k) ==
    LET b == k * getSizeofKevent IN
    [ident  |-> Get(mem, b + getFdOffset, CallerWidth.ident),
     filter |-> Get(mem, b + getFilterOffset, CallerWidth.filter),
     flags  |-> Get(mem, b + getFlagsOffset, CallerWidth.flags),
     udata  |-> Get(mem, b + getDataOffset, CallerWidth.udata)]

\* kevent(2) reading the field f of the k-th struct kevent of an array.
KernelField(mem, k, f) ==
    Get(mem, k * SizeofKevent + KeventStruct[f].off, KeventStruct[f].len)

KernelRead(mem, k) ==
    [f \in {"ident", "filter", "flags", "udata"} |-> KernelField(mem, k, f)]

\* kevent(2) writing a whole struct kevent as the k-th event of an array:
\* its fields, fflags and data included.
KernelWrite(mem, k, r) ==
    LET Field(m, f, v) ==
            Put(m, k * SizeofKevent + KeventStruct[f].off, v, KeventStruct[f].len)
    IN  Field(Field(Field(Field(Field(Field(mem,
            "ident", r.ident), "filter", r.filter), "flags", r.flags),
            "fflags", 0), "data", 1), "udata", r.udata)
=============================================================================
