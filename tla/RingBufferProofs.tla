-------------------------- MODULE RingBufferProofs --------------------------
(***************************************************************************)
(* Proofs about RingBuffer, for every buffer size, every set of request    *)
(* sizes and every bound.                                                  *)
(*                                                                         *)
(*   - with no assumption on who clears the ring when: the pointers stay   *)
(*     in [begin, end] and every copy stays inside the buffer;             *)
(*   - when a clear excludes reads and writes: FIFO order, integrity of    *)
(*     the bytes a read returns, absence of data races, the meaning of     *)
(*     get_free_size, and that the ring implements ByteFifo.               *)
(***************************************************************************)
EXTENDS RingBuffer, TLAPS

-----------------------------------------------------------------------------
(* Pointer arithmetic                                                      *)

(* A copy that starts at a pointer of the ring and is at most one lap and  *)
(* a segment long only touches cells of the buffer.                        *)
LEMMA CellInBuffer ==
    ASSUME NEW p \in Pointers, NEW k \in Nat, p + k < 2 * Size
    PROVE  Cell(p, k) \in 0..(Size - 1)
BY SizeAssumption DEF Cell, Pointers

(* Within one lap, different bytes of a copy go to different cells.        *)
LEMMA CellsDistinct ==
    ASSUME NEW p \in Pointers,
           NEW i \in 0..(Size - 1), NEW j \in 0..(Size - 1), i # j
    PROVE  Cell(p, i) # Cell(p, j)
BY SizeAssumption DEF Cell, Pointers

(* UsedSize and FreeSize split the buffer.                                 *)
LEMMA UsedAndFree ==
    ASSUME NEW r \in Pointers, NEW w \in Pointers
    PROVE  /\ UsedSize(r, w) \in 0..Size
           /\ FreeSize(r, w) \in 0..Size
           /\ UsedSize(r, w) + FreeSize(r, w) = Size
BY SizeAssumption DEF UsedSize, FreeSize, Pointers

(* apt_usbtrx_ringbuffer_write accepts no more than get_free_size bytes,   *)
(* and refuses nothing smaller than that.                                  *)
LEMMA FitsAndFree ==
    ASSUME NEW r \in Pointers, NEW w \in Pointers, NEW n \in Nat \ {0}
    PROVE  IF WriteFits(r, w, n)
           THEN n <= FreeSize(r, w) ELSE n >= FreeSize(r, w)
BY SizeAssumption DEF UsedSize, FreeSize, WriteFits, Pointers

(* The free cells follow the used ones.                                    *)
LEMMA FreeCell ==
    ASSUME NEW r \in Pointers, NEW w \in Pointers, NEW i \in Nat,
           i < FreeSize(r, w)
    PROVE  Cell(w, i) = Cell(r, UsedSize(r, w) + i)
BY SizeAssumption DEF UsedSize, FreeSize, Cell, Pointers

(* An accepted write moves the write pointer to a pointer other than       *)
(* `begin' and makes exactly its n bytes used.                             *)
LEMMA WriteNextLemma ==
    ASSUME NEW r \in Pointers, NEW w \in Pointers, NEW n \in Nat \ {0}
    PROVE  /\ WriteNext(r, w, n) \in Pointers
           /\ WriteFits(r, w, n) =>
                /\ WriteNext(r, w, n) # 0
                /\ w + n <= 2 * Size
                /\ UsedSize(r, WriteNext(r, w, n)) = UsedSize(r, w) + n
           /\ ~WriteFits(r, w, n) => WriteNext(r, w, n) = w
BY SizeAssumption DEF UsedSize, WriteFits, WriteNext, Pointers

(* A read ends on a pointer of the ring and inside the second lap,         *)
(* whatever the pointers it loaded.                                        *)
LEMMA ReadBounds ==
    ASSUME NEW r \in Pointers, NEW w \in Pointers, NEW n \in Nat \ {0}
    PROVE  /\ ReadLen(r, w, n) \in Nat
           /\ ReadNext(r, w, n) \in Pointers
           /\ r + ReadLen(r, w, n) <= 2 * Size
BY SizeAssumption DEF ReadLen, ReadNext, ReadSecond, Lesser, Pointers

(* Where a pointer is after n bytes, in the form the proofs use.           *)
Advance(p, n) == IF p + n <= Size THEN p + n ELSE p + n - Size

(* A non-empty read takes no more than is used and moves the read pointer  *)
(* by what it takes.  (write is at `begin' only while read is: this        *)
(* excludes the one case in which a read that ends at `end' is taken back  *)
(* to `begin'.)                                                            *)
LEMMA ReadLemma ==
    ASSUME NEW r \in Pointers, NEW w \in Pointers, NEW n \in Nat \ {0},
           w = 0 => r = 0,
           ReadLen(r, w, n) > 0
    PROVE  /\ ReadLen(r, w, n) <= UsedSize(r, w)
           /\ ReadNext(r, w, n) = Advance(r, ReadLen(r, w, n))
BY SizeAssumption
   DEF ReadLen, ReadNext, ReadSecond, Lesser, UsedSize, Advance, Pointers

(* Moving the read pointer by n used bytes frees exactly these, and leaves *)
(* the others where they are.                                              *)
LEMMA TakenCells ==
    ASSUME NEW r \in Pointers, NEW w \in Pointers, NEW n \in Nat,
           n <= UsedSize(r, w)
    PROVE  /\ Advance(r, n) \in Pointers
           /\ UsedSize(Advance(r, n), w) = UsedSize(r, w) - n
           /\ \A k \in Nat : n + k < UsedSize(r, w) =>
                  Cell(Advance(r, n), k) = Cell(r, n + k)
BY SizeAssumption DEF UsedSize, Cell, Advance, Pointers

(* Space that was free for a write stays free when the reader moves on.    *)
LEMMA FitsStable ==
    ASSUME NEW r \in Pointers, NEW w \in Pointers, NEW m \in Nat \ {0},
           NEW n \in Nat, n <= UsedSize(r, w), WriteFits(r, w, m)
    PROVE  /\ WriteFits(Advance(r, n), w, m)
           /\ WriteNext(Advance(r, n), w, m) = WriteNext(r, w, m)
BY SizeAssumption DEF UsedSize, Advance, WriteFits, WriteNext, Pointers

-----------------------------------------------------------------------------
(* Memory safety, with no assumption on when a clear happens               *)

Bounds == TypeOK /\ CopiesInBounds

(* A byte copied by apt_usbtrx_ringbuffer_write only moves its progress.   *)
LEMMA WriterCopyStep ==
    ASSUME NEW x \in WriterType, NEW c \in Nat
    PROVE  /\ [x EXCEPT !.copied = c] \in WriterType
           /\ [x EXCEPT !.copied = c].pc = x.pc
           /\ [x EXCEPT !.copied = c].at = x.at
           /\ [x EXCEPT !.copied = c].size = x.size
           /\ [x EXCEPT !.copied = c].next = x.next
           /\ [x EXCEPT !.copied = c].copied = c
BY DEF WriterType

(* So does a byte copied by apt_usbtrx_ringbuffer_read.                    *)
LEMMA ReaderCopyStep ==
    ASSUME NEW x \in ReaderType, NEW s \in Seq(Nat)
    PROVE  /\ [x EXCEPT !.got = s] \in ReaderType
           /\ [x EXCEPT !.got = s].pc = x.pc
           /\ [x EXCEPT !.got = s].at = x.at
           /\ [x EXCEPT !.got = s].len = x.len
           /\ [x EXCEPT !.got = s].next = x.next
           /\ [x EXCEPT !.got = s].got = s
BY DEF ReaderType

(* apt_usbtrx_ringbuffer_init puts both pointers at `begin'.               *)
LEMMA InitBounds == Init => Bounds
<1> SUFFICES ASSUME Init
             PROVE  Bounds
  OBVIOUS
<1>1. 0 \in Pointers
  BY SizeAssumption DEF Pointers
<1>2. << >> \in Seq(Nat)
  OBVIOUS
<1>3. buf \in [0..(Size - 1) -> Nat]
  BY DEF Init
<1>4. QED
  BY <1>1, <1>2, <1>3
     DEF Init, Bounds, TypeOK, CopiesInBounds, IdleWriter, IdleReader,
         WriterType, ReaderType

(* Each operation decides on the pointers it loaded, so no step of another *)
(* actor can make its copy leave the buffer.                               *)
LEMMA NextBounds == Bounds /\ [Next]_vars => Bounds'
<1> SUFFICES ASSUME Bounds, [Next]_vars
             PROVE  Bounds'
  OBVIOUS
<1> USE SizeAssumption, RequestsAssumption DEF Bounds, TypeOK, CopiesInBounds,
                                             WriterType, ReaderType
<1>0. 0 \in Pointers
  BY DEF Pointers
<1>1. ASSUME NEW n \in Requests, WriteBegin(n)
      PROVE  Bounds'
  <2>1. /\ n \in Nat \ {0}
        /\ WriteNext(read, write, n) \in Pointers
        /\ WriteFits(read, write, n) => write + n <= 2 * Size
    BY WriteNextLemma
  <2>2. UNCHANGED <<buf, read, write, skip_count, reader, clearing, clears,
                    accepted, taken, delivered>>
    BY <1>1 DEF WriteBegin, pointers, history
  <2>3. writer' = [pc |-> IF WriteFits(read, write, n) THEN "copy" ELSE "skip",
                   at |-> write, size |-> n,
                   next |-> WriteNext(read, write, n), copied |-> 0]
    BY <1>1 DEF WriteBegin
  <2>4. CASE WriteFits(read, write, n)
    BY <2>1, <2>2, <2>3, <2>4
  <2>5. CASE ~WriteFits(read, write, n)
    BY <2>1, <2>2, <2>3, <2>5
  <2>6. QED
    BY <2>4, <2>5
<1>2. CASE WriteByte
  <2>1. accepted + writer.copied + 1 \in Nat
    OBVIOUS
  <2>2. buf' \in [0..(Size - 1) -> Nat]
    BY <1>2, <2>1 DEF WriteByte
  <2>3. UNCHANGED <<read, write, skip_count, reader, clearing, clears,
                    accepted, taken, delivered>>
    BY <1>2 DEF WriteByte, pointers, history
  <2>4. writer' = [writer EXCEPT !.copied = writer.copied + 1]
    BY <1>2 DEF WriteByte
  <2>5. /\ writer \in WriterType /\ writer.copied + 1 \in Nat
    BY DEF WriterType
  <2>6. /\ writer' \in WriterType
        /\ writer'.pc = writer.pc
        /\ writer'.at = writer.at
        /\ writer'.size = writer.size
    BY <2>4, <2>5, WriterCopyStep
  <2>7. QED
    BY <2>2, <2>3, <2>6 DEF WriterType
<1>3. CASE WriteEnd
  BY <1>0, <1>3 DEF WriteEnd, IdleWriter
<1>4. CASE WriteSkip
  BY <1>0, <1>4 DEF WriteSkip, IdleWriter, history
<1>5. ASSUME NEW n \in Requests, ReadBegin(n)
      PROVE  Bounds'
  <2>1. /\ n \in Nat \ {0}
        /\ ReadLen(read, write, n) \in Nat
        /\ ReadNext(read, write, n) \in Pointers
        /\ read + ReadLen(read, write, n) <= 2 * Size
    BY ReadBounds
  <2>2. << >> \in Seq(Nat)
    OBVIOUS
  <2>3. QED
    BY <1>5, <2>1, <2>2 DEF ReadBegin, pointers, history
<1>6. CASE ReadByte
  <2> DEFINE c == Len(reader.got)
  <2>0. /\ c \in Nat /\ reader.len \in Nat /\ reader.at \in Pointers
        /\ c < reader.len /\ reader.at + reader.len <= 2 * Size
    BY <1>6 DEF ReadByte
  <2>1. c \in Nat /\ reader.at + c < 2 * Size
    BY <2>0 DEF Pointers
  <2>2. buf[Cell(reader.at, c)] \in Nat
    BY <2>0, <2>1, CellInBuffer
  <2>3. PICK s \in Seq(Nat) : reader' = [reader EXCEPT !.got = s]
    <3>1. Append(reader.got, buf[Cell(reader.at, c)]) \in Seq(Nat)
      BY <2>2
    <3>2. QED
      BY <1>6, <3>1 DEF ReadByte
  <2>4. /\ reader' \in [pc : {"idle", "copy"}, at : Pointers, len : Nat,
                         next : Pointers, got : Seq(Nat)]
        /\ reader'.pc = reader.pc
        /\ reader'.at = reader.at /\ reader'.len = reader.len
    BY <2>3
  <2>5. UNCHANGED <<buf, read, write, skip_count, writer, clearing, clears,
                    accepted, taken, delivered>>
    BY <1>6 DEF ReadByte, pointers, history
  <2>6. QED
    BY <2>4, <2>5
<1>7. CASE ReadEnd
  BY <1>0, <1>7 DEF ReadEnd, IdleReader
<1>8. CASE ReadFault
  BY <1>0, <1>8 DEF ReadFault, IdleReader, pointers, history
<1>9. CASE ClearRead
  BY <1>0, <1>9 DEF ClearRead
<1>10. CASE ClearWrite
  BY <1>0, <1>10 DEF ClearWrite, history
<1>11. CASE UNCHANGED vars
  BY <1>11 DEF vars, history
<1> QED
  BY <1>1, <1>2, <1>3, <1>4, <1>5, <1>6, <1>7, <1>8, <1>9, <1>10, <1>11
     DEF Next

(* The pointers never leave [begin, end] and every field keeps its type,   *)
(* for any interleaving of read, write and clear.                          *)
THEOREM TypeCorrect == Spec => []TypeOK
<1>1. Bounds => TypeOK
  BY DEF Bounds
<1>2. QED
  BY <1>1, InitBounds, NextBounds, PTL DEF Spec

(* No memcpy or copy_to_user of the ring leaves the buffer, even when a    *)
(* clear moves both pointers in the middle of it.                          *)
THEOREM MemorySafe == Spec => []CopiesInBounds
<1>1. Bounds => CopiesInBounds
  BY DEF Bounds
<1>2. QED
  BY <1>1, InitBounds, NextBounds, PTL DEF Spec

-----------------------------------------------------------------------------
(* FIFO order, when a clear excludes reads and writes                      *)

(* The cells from read up to write are the accepted bytes not yet taken.   *)
Stream ==
    /\ UsedSize(read, write) = accepted - taken
    /\ write = 0 => read = 0
    /\ \A k \in 0..(Size - 1) : k < accepted - taken =>
           buf[Cell(read, k)] = taken + k + 1

(* The space the writer found is still free, although the reader has moved *)
(* since, and the bytes copied so far are in it.                           *)
WriterInv ==
    /\ writer.pc = "copy" =>
         /\ writer.at = write
         /\ writer.size # 0
         /\ WriteFits(read, write, writer.size)
         /\ writer.next = WriteNext(read, write, writer.size)
         /\ writer.copied <= writer.size
         /\ \A k \in 0..(Size - 1) : k < writer.copied =>
                buf[Cell(write, k)] = accepted + k + 1
    /\ writer.pc = "skip" => writer.next = write

(* The bytes the reader is copying are still used, although the writer has *)
(* moved since.                                                            *)
ReaderInv ==
    reader.pc = "copy" =>
        /\ reader.at = read
        /\ reader.len # 0
        /\ reader.len <= UsedSize(read, write)
        /\ reader.next = Advance(read, reader.len)

GotInv ==
    /\ reader.pc = "idle" => reader.got = << >>
    /\ Len(reader.got) <= reader.len
    /\ \A k \in DOMAIN reader.got : reader.got[k] = taken + k

Inv ==
    ExclusiveClear =>
        /\ GotInv
        /\ IF clearing
           THEN /\ read = 0 /\ accepted = taken
                /\ writer.pc = "idle" /\ reader.pc = "idle"
           ELSE Stream /\ WriterInv /\ ReaderInv

(* apt_usbtrx_ringbuffer_init leaves an empty ring.                        *)
LEMMA InitInv == Init => Inv
<1> SUFFICES ASSUME Init
             PROVE  Inv
  OBVIOUS
<1>1. GotInv
  BY DEF Init, GotInv, IdleReader
<1>2. Stream
  BY DEF Init, Stream, UsedSize
<1>3. WriterInv /\ ReaderInv
  BY DEF Init, WriterInv, ReaderInv, IdleWriter, IdleReader
<1>4. QED
  BY <1>1, <1>2, <1>3 DEF Init, Inv

(* When write() has decided that its bytes fit, the cells it will copy to  *)
(* are free.                                                               *)
LEMMA WriteBeginInv ==
    ASSUME Bounds, Inv, ExclusiveClear, NEW n \in Requests, WriteBegin(n)
    PROVE  Inv'
<1>1. /\ n \in Nat \ {0} /\ n # 0
      /\ read \in Pointers /\ write \in Pointers
  BY RequestsAssumption DEF Bounds, TypeOK
<1>2. UNCHANGED <<buf, read, write, reader, clearing, accepted, taken>>
  BY DEF WriteBegin, pointers, history
<1>3. ~clearing /\ GotInv /\ Stream /\ ReaderInv
  BY DEF WriteBegin, MayBegin, Inv
<1>4. GotInv' /\ Stream' /\ ReaderInv'
  BY <1>2, <1>3 DEF GotInv, Stream, ReaderInv
<1>5. writer' = [pc |-> IF WriteFits(read, write, n) THEN "copy" ELSE "skip",
                 at |-> write, size |-> n,
                 next |-> WriteNext(read, write, n), copied |-> 0]
  BY DEF WriteBegin
<1>6. WriterInv'
  <2>1. CASE WriteFits(read, write, n)
    BY <1>1, <1>2, <1>5, <2>1 DEF WriterInv
  <2>2. CASE ~WriteFits(read, write, n)
    <3>1. WriteNext(read, write, n) = write
      BY <1>1, <2>2, WriteNextLemma
    <3>2. QED
      BY <1>2, <1>5, <2>2, <3>1 DEF WriterInv
  <2>3. QED
    BY <2>1, <2>2
<1>7. QED
  BY <1>2, <1>3, <1>4, <1>6 DEF Inv

(* A byte goes into a free cell: neither the stored bytes nor the bytes    *)
(* copied before it are overwritten.                                       *)
LEMMA WriteByteInv ==
    ASSUME Bounds, Inv, ExclusiveClear, WriteByte
    PROVE  Inv'
<1> DEFINE c == writer.copied
           new == Cell(write, c)
<1>1. /\ read \in Pointers /\ write \in Pointers
      /\ c \in Nat /\ writer.size \in Nat /\ c < writer.size
      /\ accepted \in Nat /\ taken \in Nat
      /\ buf \in [0..(Size - 1) -> Nat]
  BY DEF Bounds, TypeOK, WriterType, WriteByte
<1>2. /\ ~clearing /\ GotInv /\ Stream /\ WriterInv /\ ReaderInv
      /\ writer.pc = "copy" /\ writer.at = write /\ writer.size # 0
      /\ WriteFits(read, write, writer.size)
  BY DEF WriteByte, Inv, WriterInv
<1>3. /\ UNCHANGED <<read, write, reader, clearing, accepted, taken>>
      /\ buf' = [buf EXCEPT ![new] = accepted + c + 1]
      /\ writer' = [writer EXCEPT !.copied = c + 1]
  BY <1>2 DEF WriteByte, pointers, history
<1>4. c < FreeSize(read, write)
  <2>1. writer.size <= FreeSize(read, write)
    BY <1>1, <1>2, FitsAndFree
  <2>2. QED
    BY SMTT(30), <1>1, <2>1, UsedAndFree
<1>5. /\ UsedSize(read, write) \in 0..Size
      /\ c \in 0..(Size - 1)
      /\ UsedSize(read, write) + c \in 0..(Size - 1)
      /\ new = Cell(read, UsedSize(read, write) + c)
  <2>1. /\ UsedSize(read, write) \in 0..Size
        /\ FreeSize(read, write) \in 0..Size
        /\ UsedSize(read, write) + FreeSize(read, write) = Size
    BY <1>1, UsedAndFree
  <2>2. new = Cell(read, UsedSize(read, write) + c)
    BY <1>1, <1>4, FreeCell
  <2>3. QED
    BY <1>1, <1>4, <2>1, <2>2, SizeAssumption
<1>6. new \in 0..(Size - 1)
  <2>1. write + c < 2 * Size
    BY <1>1, <1>5, SizeAssumption DEF Pointers
  <2>2. QED
    BY <1>1, <2>1, CellInBuffer
<1>7. Stream'
  <2>1. ASSUME NEW k \in 0..(Size - 1), k < accepted - taken
        PROVE  buf'[Cell(read, k)] = taken + k + 1
    <3>1. k < UsedSize(read, write)
      BY <1>2, <2>1 DEF Stream
    <3>2. Cell(read, k) # new
      BY <1>1, <1>5, <3>1, CellsDistinct
    <3>3. buf[Cell(read, k)] = taken + k + 1
      BY <1>2, <2>1 DEF Stream
    <3>4. QED
      BY <1>1, <1>3, <3>2, <3>3
  <2>2. QED
    BY <1>2, <1>3, <2>1 DEF Stream
<1>8. WriterInv'
  <2>1. /\ writer \in WriterType /\ c + 1 \in Nat
    BY <1>1 DEF Bounds, TypeOK
  <2>2. /\ writer'.pc = "copy" /\ writer'.at = write
        /\ writer'.size = writer.size /\ writer'.next = writer.next
        /\ writer'.copied = c + 1
    BY <1>2, <1>3, <2>1, WriterCopyStep
  <2>3. ASSUME NEW k \in 0..(Size - 1), k < c + 1
        PROVE  buf'[Cell(write, k)] = accepted + k + 1
    <3>1. CASE k = c
      BY <1>1, <1>3, <1>6, <3>1
    <3>2. CASE k # c
      <4>1. k < c
        BY <1>1, <2>3, <3>2
      <4>2. Cell(write, k) # new
        BY <1>1, <1>5, <3>2, CellsDistinct
      <4>3. buf[Cell(write, k)] = accepted + k + 1
        BY <1>2, <4>1 DEF WriterInv
      <4>4. QED
        BY <1>1, <1>3, <4>2, <4>3
    <3>3. QED
      BY <3>1, <3>2
  <2>4. QED
    BY <1>1, <1>2, <1>3, <2>2, <2>3 DEF WriterInv
<1>9. GotInv' /\ ReaderInv'
  BY <1>2, <1>3 DEF GotInv, ReaderInv
<1>10. QED
  BY <1>2, <1>3, <1>7, <1>8, <1>9 DEF Inv

(* Publishing the write pointer turns the cells just written into used     *)
(* cells that continue the stream.                                         *)
LEMMA WriteEndInv ==
    ASSUME Bounds, Inv, ExclusiveClear, WriteEnd
    PROVE  Inv'
<1> DEFINE m == writer.size
           u == UsedSize(read, write)
<1>1. /\ read \in Pointers /\ write \in Pointers
      /\ m \in Nat
      /\ accepted \in Nat /\ taken \in Nat
  BY DEF Bounds, TypeOK, WriterType
<1>2. /\ ~clearing /\ GotInv /\ Stream /\ WriterInv /\ ReaderInv
      /\ m \in Nat \ {0} /\ WriteFits(read, write, m)
  BY <1>1 DEF WriteEnd, Inv, WriterInv
<1>3. /\ UNCHANGED <<buf, read, reader, clearing, taken>>
      /\ write' = WriteNext(read, write, m)
      /\ accepted' = accepted + m
      /\ writer' = IdleWriter
  BY <1>2 DEF WriteEnd, WriterInv
<1>4. /\ write' \in Pointers /\ write' # 0
      /\ UsedSize(read, write') = u + m
  BY <1>1, <1>2, <1>3, WriteNextLemma
<1>5. /\ u \in 0..Size /\ u = accepted - taken
      /\ u + m <= Size
  <2>1. u \in 0..Size /\ u + m \in 0..Size
    BY <1>1, <1>4, UsedAndFree
  <2>2. QED
    BY <1>2, <2>1, SizeAssumption DEF Stream
<1>6. Stream'
  <2>1. ASSUME NEW k \in 0..(Size - 1), k < u + m
        PROVE  buf[Cell(read, k)] = taken + k + 1
    <3>1. CASE k < u
      BY <1>2, <1>5, <3>1 DEF Stream
    <3>2. CASE ~(k < u)
      <4> DEFINE i == k - u
      <4>1. i \in 0..(Size - 1) /\ i < m /\ u + i = k
        <5> HIDE DEF u, m
        <5> QED
          BY <1>1, <1>5, <2>1, <3>2, SizeAssumption
      <4>2. i < FreeSize(read, write)
        BY <1>1, <1>5, <4>1, UsedAndFree
      <4>3. Cell(write, i) = Cell(read, k)
        BY <1>1, <4>1, <4>2, FreeCell
      <4>4. buf[Cell(write, i)] = accepted + i + 1
        BY <1>2, <4>1 DEF WriterInv, WriteEnd
      <4>5. QED
        BY <1>1, <1>5, <4>1, <4>3, <4>4
    <3>3. QED
      BY <3>1, <3>2
  <2>2. accepted' - taken' = u + m
    BY <1>1, <1>3, <1>5
  <2>3. QED
    BY <1>3, <1>4, <2>1, <2>2 DEF Stream
<1>7. WriterInv'
  BY <1>3 DEF WriterInv, IdleWriter
<1>8. GotInv'
  BY <1>2, <1>3 DEF GotInv
<1>9. ReaderInv'
  <2>1. reader.pc = "copy" => reader.len \in Nat
    BY DEF Bounds, TypeOK, ReaderType
  <2>2. QED
    BY <1>1, <1>2, <1>3, <1>4, <1>5, <2>1 DEF ReaderInv
<1>10. QED
  BY <1>2, <1>3, <1>6, <1>7, <1>8, <1>9 DEF Inv

(* With no clear in between, a refused write stores back the value the     *)
(* write pointer has.                                                      *)
LEMMA WriteSkipInv ==
    ASSUME Bounds, Inv, ExclusiveClear, WriteSkip
    PROVE  Inv'
<1>1. /\ ~clearing /\ GotInv /\ Stream /\ WriterInv /\ ReaderInv
      /\ writer.next = write
  BY DEF WriteSkip, Inv, WriterInv
<1>2. /\ UNCHANGED <<buf, read, write, reader, clearing, accepted, taken>>
      /\ writer' = IdleWriter
  BY <1>1 DEF WriteSkip, history
<1>3. WriterInv'
  BY <1>2 DEF WriterInv, IdleWriter
<1>4. GotInv' /\ Stream' /\ ReaderInv'
  BY <1>1, <1>2 DEF GotInv, Stream, ReaderInv
<1>5. QED
  BY <1>1, <1>2, <1>3, <1>4 DEF Inv

(* What read() has decided to copy is stored.                              *)
LEMMA ReadBeginInv ==
    ASSUME Bounds, Inv, ExclusiveClear, NEW n \in Requests, ReadBegin(n)
    PROVE  Inv'
<1>1. /\ n \in Nat \ {0}
      /\ read \in Pointers /\ write \in Pointers
  BY RequestsAssumption DEF Bounds, TypeOK
<1>2. ~clearing /\ GotInv /\ Stream /\ WriterInv
  BY DEF ReadBegin, MayBegin, Inv
<1>3. /\ UNCHANGED <<buf, read, write, writer, clearing, accepted, taken>>
      /\ reader' = [pc |-> "copy", at |-> read, len |-> ReadLen(read, write, n),
                    next |-> ReadNext(read, write, n), got |-> << >>]
      /\ ReadLen(read, write, n) > 0
  BY DEF ReadBegin, pointers, history
<1>4. /\ ReadLen(read, write, n) \in Nat
      /\ ReadLen(read, write, n) <= UsedSize(read, write)
      /\ ReadNext(read, write, n) = Advance(read, ReadLen(read, write, n))
  BY <1>1, <1>2, <1>3, ReadBounds, ReadLemma DEF Stream
<1>5. ReaderInv'
  BY <1>3, <1>4 DEF ReaderInv
<1>6. GotInv'
  BY <1>3, <1>4 DEF GotInv
<1>7. Stream' /\ WriterInv'
  BY <1>2, <1>3 DEF Stream, WriterInv
<1>8. QED
  BY <1>2, <1>3, <1>5, <1>6, <1>7 DEF Inv

(* The byte the reader copies next is the next byte of the stream.         *)
LEMMA ReadByteInv ==
    ASSUME Bounds, Inv, ExclusiveClear, ReadByte
    PROVE  Inv'
<1> DEFINE c == Len(reader.got)
           byte == buf[Cell(read, c)]
           new == Append(reader.got, byte)
<1>1. /\ read \in Pointers /\ write \in Pointers
      /\ reader \in ReaderType /\ reader.got \in Seq(Nat)
      /\ c \in Nat /\ reader.len \in Nat /\ c < reader.len
      /\ accepted \in Nat /\ taken \in Nat
      /\ buf \in [0..(Size - 1) -> Nat]
  BY DEF Bounds, TypeOK, ReaderType, ReadByte
<1>2. /\ ~clearing /\ GotInv /\ Stream /\ WriterInv /\ ReaderInv
      /\ reader.pc = "copy" /\ reader.at = read
      /\ reader.len <= UsedSize(read, write)
  BY DEF ReadByte, Inv, ReaderInv
<1>3. /\ UNCHANGED <<buf, read, write, writer, clearing, accepted, taken>>
      /\ reader' = [reader EXCEPT !.got = new]
  BY <1>2 DEF ReadByte, pointers, history
<1>4. /\ c \in 0..(Size - 1)
      /\ c < accepted - taken
  <2>1. UsedSize(read, write) \in 0..Size
    BY <1>1, UsedAndFree
  <2>2. QED
    BY <1>1, <1>2, <2>1, SizeAssumption DEF Stream
<1>5. /\ byte = taken + c + 1
      /\ byte \in Nat
  BY <1>1, <1>2, <1>4 DEF Stream
<1>6. /\ new \in Seq(Nat)
      /\ Len(new) = c + 1
      /\ \A k \in 1..(c + 1) : new[k] = IF k <= c THEN reader.got[k] ELSE byte
  BY <1>1, <1>5
<1>7. /\ reader'.pc = "copy" /\ reader'.at = read
      /\ reader'.len = reader.len /\ reader'.next = reader.next
      /\ reader'.got = new
  BY <1>1, <1>2, <1>3, <1>6, ReaderCopyStep
<1>8. GotInv'
  <2>1. DOMAIN new = 1..(c + 1) /\ DOMAIN reader.got = 1..c
    BY <1>1, <1>6
  <2>2. ASSUME NEW k \in 1..(c + 1)
        PROVE  new[k] = taken + k
    <3>1. CASE k <= c
      <4>1. k \in DOMAIN reader.got
        BY <1>1, <2>1, <3>1
      <4>2. reader.got[k] = taken + k
        BY <1>2, <4>1 DEF GotInv
      <4>3. new[k] = reader.got[k]
        BY <1>6, <3>1
      <4>4. QED
        BY <4>2, <4>3
    <3>2. CASE k = c + 1
      BY <1>1, <1>5, <1>6, <3>2
    <3>3. QED
      BY <1>1, <3>1, <3>2
  <2>3. QED
    BY <1>1, <1>3, <1>6, <1>7, <2>1, <2>2 DEF GotInv
<1>9. ReaderInv'
  BY <1>2, <1>3, <1>7 DEF ReaderInv
<1>10. Stream' /\ WriterInv'
  BY <1>2, <1>3 DEF Stream, WriterInv
<1>11. QED
  BY <1>2, <1>3, <1>8, <1>9, <1>10 DEF Inv

(* Publishing the read pointer frees the bytes that were copied; the ones  *)
(* that remain, and the space a write in progress relies on, are untouched.*)
LEMMA ReadEndInv ==
    ASSUME Bounds, Inv, ExclusiveClear, ReadEnd
    PROVE  Inv'
<1> DEFINE m == reader.len
           u == UsedSize(read, write)
<1>1. /\ read \in Pointers /\ write \in Pointers
      /\ m \in Nat
      /\ accepted \in Nat /\ taken \in Nat
  BY DEF Bounds, TypeOK, ReaderType
<1>2. /\ ~clearing /\ Stream /\ WriterInv /\ m <= u
      /\ u = accepted - taken /\ u \in 0..Size
  BY <1>1, UsedAndFree DEF ReadEnd, Inv, ReaderInv, Stream
<1>3. /\ UNCHANGED <<buf, write, writer, clearing, accepted>>
      /\ read' = Advance(read, m)
      /\ taken' = taken + m
      /\ reader' = IdleReader
  BY <1>2 DEF ReadEnd, ReaderInv, Inv
<1>4. /\ read' \in Pointers
      /\ UsedSize(read', write) = u - m
      /\ \A k \in Nat : m + k < u => Cell(read', k) = Cell(read, m + k)
  BY <1>1, <1>2, <1>3, TakenCells
<1>5. Stream'
  <2>1. accepted' - taken' = u - m
    BY <1>1, <1>2, <1>3
  <2>2. ASSUME write = 0
        PROVE  read' = 0
    <3>1. read = 0 /\ u = 0
      BY <1>2, <2>2 DEF Stream, UsedSize
    <3>2. QED
      BY <1>1, <1>2, <1>3, <3>1, SizeAssumption DEF Advance
  <2>3. ASSUME NEW k \in 0..(Size - 1), k < u - m
        PROVE  buf[Cell(read', k)] = (taken + m) + k + 1
    <3>1. /\ m + k < u /\ k \in Nat
          /\ m + k \in 0..(Size - 1)
      <4> HIDE DEF u, m
      <4> QED
        BY <1>1, <1>2, <2>3, SizeAssumption
    <3>2. buf[Cell(read, m + k)] = taken + (m + k) + 1
      BY <1>2, <3>1 DEF Stream
    <3>3. QED
      BY <1>1, <1>4, <3>1, <3>2
  <2>4. QED
    BY <1>3, <1>4, <2>1, <2>2, <2>3 DEF Stream
<1>6. WriterInv'
  <2>1. CASE writer.pc = "copy"
    <3>1. /\ writer.size \in Nat \ {0}
          /\ WriteFits(read, write, writer.size)
      BY <1>2, <2>1 DEF WriterInv, Bounds, TypeOK, WriterType
    <3>2. /\ WriteFits(read', write, writer.size)
          /\ WriteNext(read', write, writer.size) =
               WriteNext(read, write, writer.size)
      BY <1>1, <1>2, <1>3, <3>1, FitsStable
    <3>3. QED
      BY <1>2, <1>3, <2>1, <3>2 DEF WriterInv
  <2>2. CASE writer.pc # "copy"
    BY <1>2, <1>3, <2>2 DEF WriterInv
  <2>3. QED
    BY <2>1, <2>2
<1>7. GotInv' /\ ReaderInv'
  BY <1>3 DEF GotInv, ReaderInv, IdleReader
<1>8. QED
  BY <1>2, <1>3, <1>5, <1>6, <1>7 DEF Inv

(* A failing copy_to_user leaves the ring as it was.                       *)
LEMMA ReadFaultInv ==
    ASSUME Bounds, Inv, ExclusiveClear, ReadFault
    PROVE  Inv'
<1>1. ~clearing /\ Stream /\ WriterInv
  BY DEF ReadFault, Inv
<1>2. /\ UNCHANGED <<buf, read, write, writer, clearing, accepted, taken>>
      /\ reader' = IdleReader
  BY DEF ReadFault, pointers, history
<1>3. GotInv' /\ ReaderInv'
  BY <1>2 DEF GotInv, ReaderInv, IdleReader
<1>4. Stream' /\ WriterInv'
  BY <1>1, <1>2 DEF Stream, WriterInv
<1>5. QED
  BY <1>1, <1>2, <1>3, <1>4 DEF Inv

(* A clear that excludes reads and writes leaves an empty ring, with an    *)
(* intermediate state that nobody looks at.                                *)
LEMMA ClearInv ==
    ASSUME Bounds, Inv, ExclusiveClear, ClearRead \/ ClearWrite
    PROVE  Inv'
<1>1. CASE ClearRead
  <2>1. /\ UNCHANGED <<writer, reader, accepted>>
        /\ read' = 0 /\ clearing' = TRUE /\ taken' = accepted
        /\ writer.pc = "idle" /\ reader.pc = "idle"
        /\ GotInv
    BY <1>1 DEF ClearRead, Inv
  <2>2. GotInv'
    BY <2>1 DEF GotInv
  <2>3. QED
    BY <2>1, <2>2 DEF Inv
<1>2. CASE ClearWrite
  <2>1. /\ UNCHANGED <<buf, read, writer, reader, accepted, taken>>
        /\ read = 0 /\ write' = 0 /\ clearing' = FALSE
        /\ accepted = taken /\ taken \in Nat
        /\ writer.pc = "idle" /\ reader.pc = "idle"
        /\ GotInv
    BY <1>2 DEF ClearWrite, Inv, history, Bounds, TypeOK
  <2>2. Stream'
    BY <2>1 DEF Stream, UsedSize
  <2>3. GotInv' /\ WriterInv' /\ ReaderInv'
    BY <2>1 DEF GotInv, WriterInv, ReaderInv
  <2>4. QED
    BY <2>1, <2>2, <2>3 DEF Inv
<1>3. QED
  BY <1>1, <1>2

(* The invariant survives every step of the producer, the consumer and the *)
(* clear.                                                                  *)
LEMMA NextInv == Bounds /\ Inv /\ [Next]_vars => Inv'
<1> SUFFICES ASSUME Bounds, Inv, [Next]_vars, ExclusiveClear
             PROVE  Inv'
  BY DEF Inv
<1>1. CASE UNCHANGED vars
  BY <1>1 DEF vars, history, Inv, GotInv, Stream, WriterInv, ReaderInv
<1>2. CASE Next
  BY <1>2, WriteBeginInv, WriteByteInv, WriteEndInv, WriteSkipInv,
     ReadBeginInv, ReadByteInv, ReadEndInv, ReadFaultInv, ClearInv
     DEF Next
<1>3. QED
  BY <1>1, <1>2

(* The invariant behind FIFO order holds in every reachable state.         *)
LEMMA Invariant == Spec => [](Bounds /\ Inv)
BY InitBounds, NextBounds, InitInv, NextInv, PTL DEF Spec

-----------------------------------------------------------------------------
(* What the invariant gives                                                *)

(* With a clear that excludes reads and writes, the cells from read to     *)
(* write are at all times exactly the accepted bytes not yet taken, in     *)
(* order: write() and read() need no lock.                                 *)
THEOREM StoredBytesInOrder == Spec => []StoredInOrder
<1>1. Bounds /\ Inv => StoredInOrder
  BY DEF Inv, StoredInOrder, Stream
<1>2. QED
  BY <1>1, Invariant, PTL

(* A read copies the next bytes of the stream whatever the writer does     *)
(* meanwhile.                                                              *)
THEOREM ReadsAreInOrder == Spec => []ReadsInOrder
<1>1. Bounds /\ Inv => ReadsInOrder
  BY DEF Inv, ReadsInOrder, GotInv
<1>2. QED
  BY <1>1, Invariant, PTL

(* A write in progress and a read in progress touch disjoint cells.        *)
THEOREM CopiesAreDisjoint == Spec => []NoDataRace
<1>1. ASSUME Bounds, Inv, ExclusiveClear,
             writer.pc = "copy", reader.pc = "copy",
             NEW i \in 0..(Size - 1), NEW j \in 0..(Size - 1),
             i < writer.size, j < reader.len
      PROVE  Cell(writer.at, i) # Cell(reader.at, j)
  <2> DEFINE u == UsedSize(read, write)
  <2>1. /\ read \in Pointers /\ write \in Pointers
        /\ writer.size \in Nat \ {0} /\ reader.len \in Nat
        /\ WriteFits(read, write, writer.size)
        /\ writer.at = write /\ reader.at = read /\ reader.len <= u
    BY <1>1 DEF Bounds, TypeOK, WriterType, ReaderType, Inv, WriterInv, ReaderInv
  <2>2. /\ u \in 0..Size /\ FreeSize(read, write) \in 0..Size
        /\ u + FreeSize(read, write) = Size
        /\ writer.size <= FreeSize(read, write)
    BY <2>1, UsedAndFree, FitsAndFree
  <2>3. i < FreeSize(read, write)
    BY <1>1, <2>1, <2>2, SizeAssumption
  <2>4. Cell(write, i) = Cell(read, u + i)
    BY <2>1, <2>3, FreeCell
  <2>5. u + i \in 0..(Size - 1) /\ j # u + i
    <3> HIDE DEF u
    <3> QED
      BY <1>1, <2>1, <2>2, <2>3, SizeAssumption
  <2>6. QED
    BY <2>1, <2>4, <2>5, CellsDistinct
<1>2. Bounds /\ Inv => NoDataRace
  BY <1>1 DEF NoDataRace
<1>3. QED
  BY <1>2, Invariant, PTL

(* get_free_size is the bound on what write accepts that                   *)
(* apt_usbtrx_write_tx_rb takes it for, up to the one refused size.        *)
THEOREM FreeSizeIsBound == Spec => []FreeSizeBoundsWrite
<1>1. Bounds => FreeSizeBoundsWrite
  BY RequestsAssumption, FitsAndFree DEF Bounds, TypeOK, FreeSizeBoundsWrite
<1>2. QED
  BY <1>1, InitBounds, NextBounds, PTL DEF Spec

-----------------------------------------------------------------------------
(* The ring implements the byte queue                                      *)

(* The bytes t + 1, ..., a of the stream.                                  *)
Window(t, a) == [k \in 1..(a - t) |-> t + k]

(* The queue that ByteFifo describes is the accepted bytes not yet taken.  *)
Queued ==
    /\ Stored = Window(taken, accepted)
    /\ accepted - taken \in 0..Size

(* It is so in the middle of any read, write or clear.                     *)
LEMMA StoredIsWindow == Bounds /\ Inv /\ ExclusiveClear => Queued
<1> SUFFICES ASSUME Bounds, Inv, ExclusiveClear
             PROVE  Queued
  OBVIOUS
<1> USE DEF Queued
<1>1. /\ read \in Pointers /\ write \in Pointers
      /\ taken \in Nat /\ accepted \in Nat
  BY DEF Bounds, TypeOK
<1>2. CASE clearing
  <2>1. accepted = taken
    BY <1>2 DEF Inv
  <2>2. Stored = << >> /\ accepted - taken = 0
    BY <1>1, <1>2, <2>1 DEF Stored
  <2>3. Window(taken, accepted) = << >>
    BY <2>2 DEF Window
  <2>4. QED
    BY <2>2, <2>3, SizeAssumption
<1>3. CASE ~clearing
  <2>1. Stream
    BY <1>3 DEF Inv
  <2>2. UsedSize(read, write) = accepted - taken
    BY <2>1 DEF Stream
  <2>3. accepted - taken \in 0..Size
    BY <1>1, <2>2, UsedAndFree
  <2>4. ASSUME NEW k \in 1..(accepted - taken)
        PROVE  buf[Cell(read, k - 1)] = taken + k
    <3>1. k - 1 \in 0..(Size - 1) /\ k - 1 < accepted - taken
      BY <1>1, <2>3, SizeAssumption
    <3>2. buf[Cell(read, k - 1)] = taken + (k - 1) + 1
      BY <2>1, <3>1 DEF Stream
    <3>3. QED
      BY <1>1, <2>3, <3>2
  <2>5. Stored = Window(taken, accepted)
    BY <1>3, <2>2, <2>4 DEF Stored, Window
  <2>6. QED
    BY <2>3, <2>5
<1>4. QED
  BY <1>2, <1>3 DEF Bounds, TypeOK

(* What Put and Get of ByteFifo do to consecutive bytes of the stream.     *)
LEMMA WindowSplit ==
    ASSUME NEW t \in Nat, NEW a \in Nat, NEW n \in Nat, t <= a
    PROVE  /\ Window(t, a) \in Seq(Nat)
           /\ Len(Window(t, a)) = a - t
           /\ Window(t, a) \o [i \in 1..n |-> a + i] = Window(t, a + n)
           /\ n <= a - t =>
                 /\ SubSeq(Window(t, a), 1, n) = [k \in 1..n |-> t + k]
                 /\ SubSeq(Window(t, a), n + 1, a - t) = Window(t + n, a)
BY DEF Window

(* The end of an accepted write is the Put of all of its bytes.            *)
LEMMA WriteEndIsPut ==
    ASSUME Bounds, Inv, ExclusiveClear, Queued, Queued', WriteEnd
    PROVE  \E n \in 1..Size : Fifo!Put(n)
<1> DEFINE n == writer.size
<1>1. ~clearing /\ WriterInv
  BY DEF WriteEnd, Inv
<1>2. /\ n \in Nat \ {0} /\ WriteFits(read, write, n)
      /\ read \in Pointers /\ write \in Pointers
      /\ accepted \in Nat /\ taken \in Nat
  BY <1>1 DEF WriteEnd, WriterInv, Bounds, TypeOK, WriterType
<1>3. accepted' = accepted + n /\ taken' = taken /\ delivered' = delivered
  BY DEF WriteEnd
<1>4. /\ Stored = Window(taken, accepted) /\ accepted - taken \in 0..Size
      /\ Stored' = Window(taken, accepted + n)
      /\ accepted + n - taken \in 0..Size
  <2> HIDE DEF n
  <2>1. /\ Stored' = Window(taken', accepted')
        /\ accepted' - taken' \in 0..Size
    BY DEF Queued
  <2>2. Window(taken', accepted') = Window(taken, accepted + n)
    BY <1>3
  <2>3. accepted + n - taken \in 0..Size
    BY <1>2, <1>3, <2>1
  <2>4. QED
    BY <2>1, <2>2, <2>3 DEF Queued
<1>5. n \in 1..Size /\ taken <= accepted
  BY <1>2, <1>4, SizeAssumption
<1>6. /\ Len(Stored) = accepted - taken
      /\ Stored \o [i \in 1..n |-> accepted + i] = Window(taken, accepted + n)
  BY ZenonT(30), <1>2, <1>4, <1>5, WindowSplit
<1>7. Len(Stored) + n <= Size
  BY <1>2, <1>4, <1>6
<1>8. Fifo!Put(n)
  BY <1>3, <1>4, <1>6, <1>7 DEF Fifo!Put
<1>9. QED
  BY <1>5, <1>8

(* The end of a read is the Get of the bytes it returns.                   *)
LEMMA ReadEndIsGet ==
    ASSUME Bounds, Inv, ExclusiveClear, Queued, Queued', ReadEnd
    PROVE  \E n \in 1..Size : Fifo!Get(n)
<1> DEFINE n == reader.len
<1>1. ~clearing /\ ReaderInv /\ GotInv
  BY DEF ReadEnd, Inv
<1>2. /\ n \in Nat \ {0} /\ n = Len(reader.got)
      /\ reader.got \in Seq(Nat)
      /\ accepted \in Nat /\ taken \in Nat
  BY <1>1 DEF ReadEnd, ReaderInv, Bounds, TypeOK, ReaderType
<1>3. accepted' = accepted /\ taken' = taken + n /\ delivered' = reader.got
  BY DEF ReadEnd
<1>4. /\ Stored = Window(taken, accepted) /\ accepted - taken \in 0..Size
      /\ Stored' = Window(taken + n, accepted)
      /\ accepted - (taken + n) \in 0..Size
  BY <1>3 DEF Queued
<1>5. n \in 1..Size /\ taken <= accepted /\ n <= accepted - taken
  BY <1>2, <1>4, SizeAssumption
<1>6. /\ Len(Stored) = accepted - taken
      /\ SubSeq(Stored, 1, n) = [k \in 1..n |-> taken + k]
      /\ SubSeq(Stored, n + 1, Len(Stored)) = Window(taken + n, accepted)
  <2> HIDE DEF n
  <2>1. /\ Len(Window(taken, accepted)) = accepted - taken
        /\ SubSeq(Window(taken, accepted), 1, n) = [k \in 1..n |-> taken + k]
        /\ SubSeq(Window(taken, accepted), n + 1, accepted - taken)
               = Window(taken + n, accepted)
    BY ZenonT(30), <1>2, <1>5, WindowSplit
  <2>2. QED
    BY <1>4, <2>1
<1>7. reader.got = [k \in 1..n |-> taken + k]
  <2> HIDE DEF n
  <2>1. /\ reader.got = [k \in 1..Len(reader.got) |-> reader.got[k]]
        /\ DOMAIN reader.got = 1..Len(reader.got)
    BY <1>2
  <2>2. \A k \in 1..n : reader.got[k] = taken + k
    BY <1>1, <1>2, <2>1 DEF GotInv
  <2>3. QED
    BY <1>2, <2>1, <2>2
<1>8. Fifo!Get(n)
  BY <1>3, <1>4, <1>5, <1>6, <1>7 DEF Fifo!Get
<1>9. QED
  BY <1>5, <1>8

(* The first store of a clear is the Discard: a ring whose pointers are    *)
(* equal is empty.                                                         *)
LEMMA ClearReadIsDiscard ==
    ASSUME ClearRead
    PROVE  Fifo!Discard
<1>1. /\ accepted' = accepted /\ taken' = accepted
      /\ delivered' = delivered /\ clearing' = TRUE
  BY DEF ClearRead
<1>2. Stored' = << >>
  BY <1>1 DEF Stored
<1>3. QED
  BY <1>1, <1>2 DEF Fifo!Discard

(* Every other step leaves the queue alone: deciding, copying, failing and *)
(* being refused are invisible to a user of the ring.                      *)
LEMMA OthersStutter ==
    ASSUME Queued, Queued', UNCHANGED <<accepted, taken, delivered>>
    PROVE  UNCHANGED Fifo!vars
BY DEF Queued, Window, Fifo!vars

(* With clears that exclude reads and writes, the lock-free ring is a      *)
(* bounded first-in first-out queue of bytes in which a write, a read and  *)
(* a clear each take effect at once.                                       *)
THEOREM RingImplementsFifo == ExclusiveClear => (Spec => ImplementsFifo)
<1> SUFFICES ASSUME ExclusiveClear
             PROVE  Spec => ImplementsFifo
  OBVIOUS
<1>1. Init => Fifo!Init
  BY DEF Init, Fifo!Init, Stored, UsedSize
<1>2. ASSUME Bounds, Inv, Queued, Queued', [Next]_vars
      PROVE  [Fifo!Next]_(Fifo!vars)
  <2>1. CASE WriteEnd
    BY <1>2, <2>1, WriteEndIsPut DEF Fifo!Next
  <2>2. CASE ReadEnd
    BY <1>2, <2>2, ReadEndIsGet DEF Fifo!Next
  <2>3. CASE ClearRead
    BY <1>2, <2>3, ClearReadIsDiscard DEF Fifo!Next
  <2>4. CASE UNCHANGED <<accepted, taken, delivered>>
    BY <1>2, <2>4, OthersStutter
  <2>5. \/ WriteEnd \/ ReadEnd \/ ClearRead
        \/ UNCHANGED <<accepted, taken, delivered>>
    BY <1>2 DEF Next, vars, history, WriteBegin, WriteByte, WriteSkip,
       ReadBegin, ReadByte, ReadFault, ClearWrite
  <2>6. QED
    BY <2>1, <2>2, <2>3, <2>4, <2>5
<1>3. QED
  <2>1. Spec => [](Bounds /\ Inv /\ Queued)
    BY Invariant, StoredIsWindow, PTL
  <2>2. QED
    BY <1>1, <1>2, <2>1, PTL DEF Spec, ImplementsFifo, Fifo!Spec
=============================================================================
