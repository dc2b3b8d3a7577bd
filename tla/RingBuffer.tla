----------------------------- MODULE RingBuffer -----------------------------
(***************************************************************************)
(* apt_usbtrx_ringbuffer.c: the lock-free byte ring between one producer   *)
(* and one consumer.  The driver keeps three kinds of them: tx_data        *)
(* (written by write()/the network stack, read by the tx thread), rx_data  *)
(* (written by the USB completion callback, read by read()) and, on the    *)
(* EP1-CF02A, rx_store_data.                                               *)
(*                                                                         *)
(* The C code takes no lock and has no barrier.  Each operation loads both *)
(* pointers, decides on the loaded values, copies, and stores its own      *)
(* pointer last.  The model splits an operation at those points: Begin     *)
(* (load and decide), one step per byte copied, End (store the pointer).   *)
(* Pointers are offsets from ringbuffer->begin; `end' is the offset Size.  *)
(* Stores are seen by the other side in program order (as on x86).         *)
(*                                                                         *)
(* apt_usbtrx_ringbuffer_clear is called by a third party (an ioctl, the   *)
(* network open, or the tx thread for tx_data) and is two plain stores.    *)
(* ExclusiveClear says whether it may overlap a read or a write.           *)
(***************************************************************************)
EXTENDS Integers, Sequences

CONSTANTS
    Size,               \* buffer_size, in bytes
    Requests,           \* the sizes passed to read and write
    ExclusiveClear,     \* no read or write is in progress during a clear
    MaxBytes,           \* bound: bytes accepted in a behaviour
    MaxSkip,            \* bound: bytes refused in a behaviour
    MaxClears           \* bound: clears in a behaviour

ASSUME SizeAssumption == Size \in Nat \ {0}
ASSUME RequestsAssumption == Requests \subseteq Nat \ {0}
ASSUME ExclusiveClearAssumption == ExclusiveClear \in BOOLEAN
ASSUME BoundsAssumption ==
    MaxBytes \in Nat /\ MaxSkip \in Nat /\ MaxClears \in Nat

VARIABLES
    buf,                \* the cells; byte numbers, 0 from the memset of init
    read, write,        \* ringbuffer->read, ringbuffer->write
    skip_count,         \* ringbuffer->skip_count
    writer, reader,     \* the operation each side is in the middle of
    clearing,           \* a clear has stored `read' but not yet `write'
    clears,             \* number of clears (to bound them)
    accepted,           \* history: bytes accepted by completed writes
    taken,              \* history: bytes delivered or cleared away
    delivered           \* history: what the last successful read returned

pointers == <<read, write>>
history == <<accepted, taken, delivered>>
vars == <<buf, read, write, skip_count, writer, reader, clearing, clears,
          history>>

Pointers == 0..Size

-----------------------------------------------------------------------------
(* Pointer arithmetic                                                      *)

Lesser(m, n) == IF m <= n THEN m ELSE n

(* The cell of the k-th byte of a copy that starts at p: the first segment *)
(* runs up to `end', the second starts at `begin'.                         *)
Cell(p, k) == IF p + k < Size THEN p + k ELSE p + k - Size

UsedSize(r, w) == IF w >= r THEN w - r ELSE w + (Size - r)

FreeSize(r, w) == Size - UsedSize(r, w)

(* The part of a read that comes from the second segment.                  *)
ReadSecond(r, w, n) == Lesser(n - (Size - r), w)

(* How much a read of n bytes returns ...                                  *)
ReadLen(r, w, n) ==
    IF r <= w THEN Lesser(n, w - r)
    ELSE IF r + n <= Size THEN n ELSE (Size - r) + ReadSecond(r, w, n)

(* ... and where it leaves the read pointer.                               *)
ReadNext(r, w, n) ==
    IF r <= w THEN r + Lesser(n, w - r)
    ELSE IF r + n <= Size THEN r + n ELSE ReadSecond(r, w, n)

(* Whether a write of n bytes fits.  A write that would end with           *)
(* write = read is refused, unless it ends exactly at `end'.               *)
WriteFits(r, w, n) ==
    IF r <= w
    THEN w + n <= Size \/ n - (Size - w) < r
    ELSE w + n < r

(* Where the write pointer goes: a refused write stores it back unchanged. *)
WriteNext(r, w, n) ==
    IF ~WriteFits(r, w, n) THEN w
    ELSE IF w + n <= Size THEN w + n ELSE n - (Size - w)

-----------------------------------------------------------------------------
IdleWriter == [pc |-> "idle", at |-> 0, size |-> 0, next |-> 0, copied |-> 0]

IdleReader == [pc |-> "idle", at |-> 0, len |-> 0, next |-> 0, got |-> << >>]

(* apt_usbtrx_ringbuffer_init                                              *)
Init ==
    /\ buf = [c \in 0..(Size - 1) |-> 0]
    /\ read = 0
    /\ write = 0
    /\ skip_count = 0
    /\ writer = IdleWriter
    /\ reader = IdleReader
    /\ clearing = FALSE
    /\ clears = 0
    /\ accepted = 0
    /\ taken = 0
    /\ delivered = << >>

(* No clear is half done that this operation would have to wait for.       *)
MayBegin == ExclusiveClear => ~clearing

-----------------------------------------------------------------------------
(* The producer: apt_usbtrx_ringbuffer_write                               *)
WriteBegin(n) ==
    /\ writer.pc = "idle"
    /\ MayBegin
    /\ LET fits == WriteFits(read, write, n)
       IN  /\ IF fits THEN accepted + n <= MaxBytes
                      ELSE skip_count + n <= MaxSkip
           /\ writer' = [pc |-> IF fits THEN "copy" ELSE "skip",
                         at |-> write, size |-> n,
                         next |-> WriteNext(read, write, n), copied |-> 0]
    /\ UNCHANGED <<buf, pointers, skip_count, reader, clearing, clears, history>>

WriteByte ==
    /\ writer.pc = "copy"
    /\ writer.copied < writer.size
    /\ buf' = [buf EXCEPT ![Cell(writer.at, writer.copied)] =
                               accepted + writer.copied + 1]
    /\ writer' = [writer EXCEPT !.copied = writer.copied + 1]
    /\ UNCHANGED <<pointers, skip_count, reader, clearing, clears, history>>

WriteEnd ==
    /\ writer.pc = "copy"
    /\ writer.copied = writer.size
    /\ write' = writer.next
    /\ accepted' = accepted + writer.size
    /\ writer' = IdleWriter
    /\ UNCHANGED <<buf, read, skip_count, reader, clearing, clears, taken,
                   delivered>>

(* A refused write still stores the write pointer it loaded.               *)
WriteSkip ==
    /\ writer.pc = "skip"
    /\ write' = writer.next
    /\ skip_count' = skip_count + writer.size
    /\ writer' = IdleWriter
    /\ UNCHANGED <<buf, read, reader, clearing, clears, history>>

-----------------------------------------------------------------------------
(* The consumer: apt_usbtrx_ringbuffer_read and _rawread.  A read that     *)
(* finds nothing returns 0 and changes nothing, so it is not a step.       *)

(* Fault: the read pointer is stored before the bytes are copied.          *)
ReadBeginReleases(n) ==
    /\ reader.pc = "idle"
    /\ MayBegin
    /\ ReadLen(read, write, n) > 0
    /\ read' = ReadNext(read, write, n)
    /\ reader' = [pc |-> "copy", at |-> read, len |-> ReadLen(read, write, n),
                  next |-> ReadNext(read, write, n), got |-> << >>]
    /\ UNCHANGED <<buf, write, skip_count, writer, clearing, clears, history>>

ReadBegin(n) ==
    /\ reader.pc = "idle"
    /\ MayBegin
    /\ ReadLen(read, write, n) > 0
    /\ reader' = [pc |-> "copy", at |-> read, len |-> ReadLen(read, write, n),
                  next |-> ReadNext(read, write, n), got |-> << >>]
    /\ UNCHANGED <<buf, pointers, skip_count, writer, clearing, clears, history>>

ReadByte ==
    /\ reader.pc = "copy"
    /\ Len(reader.got) < reader.len
    /\ reader' = [reader EXCEPT !.got =
                     Append(reader.got, buf[Cell(reader.at, Len(reader.got))])]
    /\ UNCHANGED <<buf, pointers, skip_count, writer, clearing, clears, history>>

ReadEnd ==
    /\ reader.pc = "copy"
    /\ Len(reader.got) = reader.len
    /\ read' = reader.next
    /\ taken' = taken + reader.len
    /\ delivered' = reader.got
    /\ reader' = IdleReader
    /\ UNCHANGED <<buf, write, skip_count, writer, clearing, clears, accepted>>

(* Fault: a read that fails has already stored the pointer.                *)
ReadFaultConsumes ==
    /\ reader.pc = "copy"
    /\ read' = reader.next
    /\ reader' = IdleReader
    /\ UNCHANGED <<buf, write, skip_count, writer, clearing, clears, history>>

(* copy_to_user fails (read only, not rawread): -1, the pointer stays.     *)
ReadFault ==
    /\ reader.pc = "copy"
    /\ reader' = IdleReader
    /\ UNCHANGED <<buf, pointers, skip_count, writer, clearing, clears, history>>

-----------------------------------------------------------------------------
(* apt_usbtrx_ringbuffer_clear: `read' is stored first, then `write'.      *)

ClearRead ==
    /\ ~clearing
    /\ clears < MaxClears
    /\ ExclusiveClear => writer.pc = "idle" /\ reader.pc = "idle"
    /\ read' = 0
    /\ clearing' = TRUE
    /\ clears' = clears + 1
    /\ taken' = accepted
    /\ UNCHANGED <<buf, write, skip_count, writer, reader, accepted, delivered>>

ClearWrite ==
    /\ clearing
    /\ write' = 0
    /\ clearing' = FALSE
    /\ UNCHANGED <<buf, read, skip_count, writer, reader, clears, history>>

-----------------------------------------------------------------------------
Next ==
    \/ \E n \in Requests : WriteBegin(n)
    \/ WriteByte
    \/ WriteEnd
    \/ WriteSkip
    \/ \E n \in Requests : ReadBegin(n)
    \/ ReadByte
    \/ ReadEnd
    \/ ReadFault
    \/ ClearRead
    \/ ClearWrite

Spec == Init /\ [][Next]_vars

-----------------------------------------------------------------------------
(* Properties                                                              *)

WriterType == [pc : {"idle", "copy", "skip"}, at : Pointers, size : Nat,
               next : Pointers, copied : Nat]

ReaderType == [pc : {"idle", "copy"}, at : Pointers, len : Nat,
               next : Pointers, got : Seq(Nat)]

(* Both pointers, and the ones an operation is about to store, stay within *)
(* [begin, end], and every counter is a number.                            *)
TypeOK ==
    /\ buf \in [0..(Size - 1) -> Nat]
    /\ read \in Pointers
    /\ write \in Pointers
    /\ skip_count \in Nat
    /\ writer \in WriterType
    /\ reader \in ReaderType
    /\ clearing \in BOOLEAN
    /\ clears \in Nat
    /\ accepted \in Nat
    /\ taken \in Nat
    /\ delivered \in Seq(Nat)

(* Whatever pointer values an operation happened to load, and even when a  *)
(* clear moved both pointers under it, its copy stays inside the vmalloc'ed *)
(* buffer: the first segment ends at `end' and the second is no longer than *)
(* the buffer (the two memcpy of write, the two copy_to_user of read).     *)
CopiesInBounds ==
    /\ writer.pc = "copy" => writer.at + writer.size <= 2 * Size
    /\ reader.pc = "copy" => reader.at + reader.len <= 2 * Size

(* The cells between read and write hold exactly the accepted bytes not    *)
(* yet taken, in the order in which they were written: none is lost,       *)
(* repeated, reordered or overwritten while write() runs on one side and   *)
(* read() on the other.                                                    *)
StoredInOrder ==
    ExclusiveClear /\ ~clearing =>
        /\ UsedSize(read, write) = accepted - taken
        /\ \A k \in 0..(Size - 1) : k < accepted - taken =>
               buf[Cell(read, k)] = taken + k + 1

(* A read in progress has copied the next bytes of the stream, although    *)
(* the producer may have wrapped around and be copying at the same time.   *)
ReadsInOrder ==
    ExclusiveClear =>
        \A k \in DOMAIN reader.got : reader.got[k] = taken + k

(* The two copies never touch the same cell: this is what makes the absence *)
(* of a lock in write and read harmless.                                   *)
NoDataRace ==
    ExclusiveClear /\ writer.pc = "copy" /\ reader.pc = "copy" =>
        \A i, j \in 0..(Size - 1) :
            i < writer.size /\ j < reader.len =>
                Cell(writer.at, i) # Cell(reader.at, j)

(* apt_usbtrx_write_tx_rb asks get_free_size before it writes.  The answer *)
(* is an upper bound that is off by at most one: a write that fits is never *)
(* larger than the free size, and only a write of exactly the free size    *)
(* can pass that check and still be refused.                               *)
FreeSizeBoundsWrite ==
    \A n \in Requests :
        IF WriteFits(read, write, n)
        THEN n <= FreeSize(read, write)
        ELSE n >= FreeSize(read, write)

(* The ring implements a bounded FIFO queue of bytes: the stored bytes are *)
(* those in the cells from read up to write.                               *)
Stored ==
    IF clearing THEN << >>
    ELSE [k \in 1..UsedSize(read, write) |-> buf[Cell(read, k - 1)]]

Fifo == INSTANCE ByteFifo WITH Capacity <- Size, queue <- Stored

(* Every step of write, read and clear is a step of the byte queue, or     *)
(* changes nothing its user can see.                                       *)
ImplementsFifo == Fifo!Spec
=============================================================================
