--------------------------- MODULE StoreDataProofs ---------------------------
(***************************************************************************)
(* Proofs about StoreData, for any stores of any number of frames, any     *)
(* ring, any size of a READ and any bounds: the list is faithful, what is  *)
(* read of a store is the store, a page fits into the ring, and no READ    *)
(* waits for a frame that nobody owes.                                     *)
(***************************************************************************)
EXTENDS StoreData, FiniteSetTheorems, SequenceTheorems, TLAPS
-----------------------------------------------------------------------------
(* The list                                                                *)

Reading == Transfer \cup {"meta", "next", "clear", "reset", "start", "verify"}

(* While the list is fetched the stores are those of the count and the     *)
(* list is as far as the index says, or one is missing and the list will   *)
(* fail; the list that is read is the one of the count.                    *)
ListInv ==
    /\ pc = "list" =>
           /\ index = Len(ids) + 1 /\ index <= Len(before)
           /\ \/ stores = before /\ \A k \in 1..Len(ids) : ids[k] = before[k]
              \/ Len(stores) < Len(before)
    /\ pc \in Reading => ids = before /\ index <= Len(ids)

-----------------------------------------------------------------------------
(* Between two transfers                                                   *)

(* Unless a transfer was left running, nothing moves between transfers and *)
(* a new one begins with an empty ring and fresh counters.                 *)
IdleInv ==
    ~dirty /\ pc \notin Transfer =>
        /\ ~sending.on /\ wire = << >>
        /\ pc \in {"reset", "start"} => ring = << >>
        /\ pc = "start" => received = 0 /\ ~complete

(* What the tool holds is from the store that it is reading; only a READ   *)
(* in progress holds frames that are not counted yet.                      *)
BufferInv ==
    /\ pc \in {"clear", "reset", "start", "starting"} => got = << >>
    /\ pc \in {"clear", "reset", "start", "starting", "loop", "wait", "check"} =>
           buffer = << >>

(* The loop ends when everything is read, after an error or a signal.      *)
SuccessInv ==
    pc \in {"stop", "stopping", "verify"} /\ ~failed /\ ~stop_requested =>
        Len(got) >= Frames[Current]

-----------------------------------------------------------------------------
(* The transfer                                                            *)

FramesIn(w, i) == Cardinality({j \in 1..i : w[j].kind = "frame"})
IsReply(m) == m.kind \in {"ok", "refused"}

(* The frames of the store, in order: first those that were read, then     *)
(* those in the buffer of the READ, in the ring and on the wire, then the  *)
(* one that the device sends next.                                         *)
Taken == Len(got) + Len(buffer)
Held == Taken + Len(ring)

TakenInv ==
    ~dirty /\ pc \in Transfer \cup {"verify"} =>
        /\ \A k \in 1..Len(got) : got[k] = <<Current, k>>
        /\ \A k \in 1..Len(buffer) : buffer[k] = <<Current, Len(got) + k>>
        /\ Taken <= Frames[Current]

NumberInv ==
    ~dirty /\ pc \in Transfer =>
        /\ sending.id = Current /\ sending.next <= Frames[Current] + 1
        /\ \A k \in 1..Len(ring) : ring[k] = <<Current, Taken + k>>
        /\ \A i \in 1..Len(wire) : wire[i].kind = "frame" =>
               wire[i].frame = <<Current, Held + FramesIn(wire, i)>>
        /\ Held + FramesOn(wire) = sending.next - 1

(* The page: what was requested and has not arrived, what has arrived; a   *)
(* new page is requested when nothing is left of the one before.           *)
PageInv ==
    ~dirty /\ pc \in Transfer =>
        /\ received + FramesOn(wire) + sending.page <= Page
        /\ Len(ring) <= received
        /\ pc = "copied" => complete \/ received >= Page
        /\ pc = "request" =>
               ring = << >> /\ received = 0 /\ FramesOn(wire) + sending.page = 0

(* At most one answer is under way, none but to the command in progress;   *)
(* the answer to the stop is the last message of the transfer.             *)
ReplyInv ==
    ~dirty /\ pc \in Transfer =>
        /\ pc \notin {"starting", "requesting", "stopping"} \/ answer # "none" =>
               \A i \in 1..Len(wire) : ~IsReply(wire[i])
        /\ \A i, j \in 1..Len(wire) : IsReply(wire[i]) /\ IsReply(wire[j]) => i = j
        /\ pc = "stopping" =>
               /\ ~sending.on
               /\ IF answer = "none"
                  THEN wire # << >> /\ IsReply(wire[Len(wire)])
                  ELSE wire = << >>

Inv ==
    /\ TypeOK /\ ListInv /\ IdleInv /\ BufferInv /\ SuccessInv
    /\ TakenInv /\ NumberInv /\ PageInv /\ ReplyInv /\ ~dropped

-----------------------------------------------------------------------------
(* The size of a page and the number of frames on the wire                 *)

LEMMA PageSize ==
    /\ Page \in Nat
    /\ \A q \in Seq(FrameSet) : Fits(q) <=> Len(q) + 1 <= Page
<1> USE SizesAssumption
<1>1. /\ Page \in Nat /\ FrameBytes * Page <= RingBytes - 1
      /\ RingBytes - 1 < FrameBytes * (Page + 1)
    BY DEF Page
<1>2. ASSUME NEW k \in Nat PROVE k * FrameBytes <= RingBytes - 1 <=> k <= Page
  <2>1. ASSUME k <= Page PROVE k * FrameBytes <= FrameBytes * Page
    <3>1. PICK d \in Nat : Page = k + d BY <1>1, <2>1
    <3> QED BY <3>1
  <2>2. ASSUME k > Page PROVE FrameBytes * (Page + 1) <= k * FrameBytes
    <3>1. PICK d \in Nat : k = (Page + 1) + d BY <1>1, <2>2
    <3> QED BY <1>1, <3>1
  <2> QED BY <1>1, <2>1, <2>2
<1> QED BY <1>1, <1>2 DEF Fits

LEMMA PageType == Page \in Nat
BY PageSize

LEMMA CountType ==
    ASSUME NEW w \in Seq(Message), NEW i \in 0..Len(w)
    PROVE  /\ IsFiniteSet({j \in 1..i : w[j].kind = "frame"})
           /\ FramesIn(w, i) \in 0..i
<1>1. IsFiniteSet(1..i) /\ Cardinality(1..i) = i BY FS_Interval
<1>2. {j \in 1..i : w[j].kind = "frame"} \in SUBSET (1..i) OBVIOUS
<1> HIDE DEF Message
<1> QED BY <1>1, <1>2, FS_Subset, FS_CardinalityType DEF FramesIn

LEMMA CountEmpty == FramesOn(<< >>) = 0 /\ FramesIn(<< >>, 0) = 0
<1>1. {j \in 1..Len(<< >>) : << >>[j].kind = "frame"} = {} OBVIOUS
<1>2. {j \in 1..0 : << >>[j].kind = "frame"} = {} OBVIOUS
<1> QED BY <1>1, <1>2, FS_EmptySet DEF FramesOn, FramesIn

(* A message at the end: a count up to a place before it stays.            *)
LEMMA CountAppend ==
    ASSUME NEW w \in Seq(Message), NEW m \in Message
    PROVE  /\ \A i \in 0..Len(w) : FramesIn(Append(w, m), i) = FramesIn(w, i)
           /\ FramesOn(Append(w, m)) =
                  IF m.kind = "frame" THEN FramesOn(w) + 1 ELSE FramesOn(w)
           /\ FramesIn(Append(w, m), Len(w) + 1) = FramesOn(Append(w, m))
<1> DEFINE new == Append(w, m)
           n == Len(w)
           B(s, k) == {j \in 1..k : s[j].kind = "frame"}
<1>1. /\ Len(new) = n + 1 /\ n \in Nat /\ new[n + 1] = m
      /\ \A j \in 1..n : new[j] = w[j]
    OBVIOUS
<1>2. \A i \in 0..n : B(new, i) = B(w, i) BY <1>1
<1>3. B(new, n + 1) = IF m.kind = "frame" THEN B(w, n) \cup {n + 1} ELSE B(w, n)
    BY <1>1
<1>4. IsFiniteSet(B(w, n)) /\ n + 1 \notin B(w, n) BY <1>1, CountType
<1>5. Cardinality(B(w, n) \cup {n + 1}) = Cardinality(B(w, n)) + 1
    BY <1>4, FS_AddElement
<1> HIDE DEF B
<1>6. Cardinality(B(new, n + 1)) =
          IF m.kind = "frame" THEN Cardinality(B(w, n)) + 1 ELSE Cardinality(B(w, n))
    BY <1>3, <1>5
<1>7. FramesIn(new, n + 1) = FramesOn(new) BY <1>1 DEF FramesIn, FramesOn
<1>8. /\ \A i \in 0..n : FramesIn(new, i) = Cardinality(B(new, i))
      /\ \A i \in 0..n : FramesIn(w, i) = Cardinality(B(w, i))
    BY DEF FramesIn, B
<1>9. /\ FramesOn(new) = Cardinality(B(new, n + 1))
      /\ FramesOn(w) = Cardinality(B(w, n))
    BY <1>1 DEF FramesOn, B
<1> QED BY <1>2, <1>6, <1>7, <1>8, <1>9

(* The first message leaves: every count is shifted by one place.          *)
LEMMA CountTail ==
    ASSUME NEW w \in Seq(Message), w # << >>
    PROVE  \A i \in 0..(Len(w) - 1) :
               FramesIn(Tail(w), i) = IF Head(w).kind = "frame"
                                      THEN FramesIn(w, i + 1) - 1
                                      ELSE FramesIn(w, i + 1)
<1> SUFFICES ASSUME NEW i \in 0..(Len(w) - 1)
             PROVE FramesIn(Tail(w), i) = IF Head(w).kind = "frame"
                                          THEN FramesIn(w, i + 1) - 1
                                          ELSE FramesIn(w, i + 1)
    OBVIOUS
<1> DEFINE A == {j \in 1..i : Tail(w)[j].kind = "frame"}
           B == {j \in 1..(i + 1) : w[j].kind = "frame"}
           C == B \ {1}
           f == [j \in A |-> j + 1]
<1>1. /\ Head(w) = w[1] /\ Len(w) \in Nat /\ Len(w) > 0
      /\ Len(Tail(w)) = Len(w) - 1 /\ Tail(w) \in Seq(Message)
      /\ \A j \in 1..i : Tail(w)[j] = w[j + 1]
    OBVIOUS
<1>2. IsFiniteSet(A) /\ IsFiniteSet(B)
  <2>1. i \in 0..Len(Tail(w)) /\ i + 1 \in 0..Len(w) BY <1>1
  <2> HIDE DEF Message
  <2>2. IsFiniteSet(A) BY <1>1, <2>1, CountType
  <2>3. IsFiniteSet(B) BY <2>1, CountType
  <2> QED BY <2>2, <2>3
<1>3. f \in Bijection(A, C)
  <2>1. f \in [A -> C] BY <1>1
  <2>2. \A j, k \in A : f[j] = f[k] => j = k OBVIOUS
  <2>3. ASSUME NEW c \in C PROVE \E j \in A : f[j] = c
    <3>1. c - 1 \in A BY <1>1
    <3>2. f[c - 1] = c BY <3>1
    <3> QED BY <3>1, <3>2
  <2> QED BY <2>1, <2>2, <2>3 DEF Bijection, Injection, IsInjective, Surjection
<1>4. Cardinality(C) = Cardinality(A)
    BY ZenonT(30), <1>2, <1>3, FS_Bijection DEF ExistsBijection
<1>5. /\ Cardinality(C) = IF 1 \in B THEN Cardinality(B) - 1 ELSE Cardinality(B)
      /\ Cardinality(B) \in Nat
    BY <1>2, FS_RemoveElement, FS_CardinalityType
<1>6. 1 \in B <=> Head(w).kind = "frame" BY <1>1
<1> QED BY <1>4, <1>5, <1>6 DEF FramesIn

LEMMA CountOn ==
    ASSUME NEW w \in Seq(Message)
    PROVE  /\ FramesOn(w) = FramesIn(w, Len(w)) /\ FramesOn(w) \in Nat
           /\ w # << >> => FramesOn(Tail(w)) = IF Head(w).kind = "frame"
                                               THEN FramesOn(w) - 1 ELSE FramesOn(w)
           /\ w # << >> /\ Head(w).kind = "frame" => FramesIn(w, 1) = 1
<1>1. FramesOn(w) = FramesIn(w, Len(w)) /\ FramesOn(w) \in Nat
    BY CountType DEF FramesOn, FramesIn
<1>2. ASSUME w # << >>
      PROVE  FramesOn(Tail(w)) = IF Head(w).kind = "frame"
                                 THEN FramesOn(w) - 1 ELSE FramesOn(w)
  <2>1. Len(Tail(w)) = Len(w) - 1 /\ Len(w) - 1 \in 0..(Len(w) - 1) BY <1>2
  <2>2. FramesOn(Tail(w)) = FramesIn(Tail(w), Len(w) - 1)
      BY <2>1 DEF FramesOn, FramesIn
  <2> QED BY <1>1, <1>2, <2>1, <2>2, CountTail
<1>3. ASSUME w # << >>, Head(w).kind = "frame" PROVE FramesIn(w, 1) = 1
  <2>1. {j \in 1..1 : w[j].kind = "frame"} = {1} BY <1>3
  <2> QED BY <2>1, FS_Singleton DEF FramesIn
<1> QED BY <1>1, <1>2, <1>3

-----------------------------------------------------------------------------
(* Types                                                                   *)

LEMMA Messages ==
    /\ \A r \in {"ok", "refused", "complete"} : [kind |-> r] \in Message
    /\ \A f \in FrameSet : [kind |-> "frame", frame |-> f] \in Message
    /\ \A m \in Message : m.kind \in {"frame", "ok", "refused", "complete"}
    /\ \A m \in Message : m.kind = "frame" => m.frame \in FrameSet
BY DEF Message

LEMMA Transfers ==
    /\ \A i \in Ids : [id |-> i, next |-> 1, page |-> Page, on |-> TRUE,
                      ended |-> FALSE] \in Sending
    /\ \A i \in Ids : [id |-> i, next |-> 1, page |-> 0, on |-> FALSE,
                      ended |-> TRUE] \in Sending
    /\ \A s \in Sending :
           /\ [s EXCEPT !.page = Page] \in Sending
           /\ [s EXCEPT !.on = FALSE, !.page = 0] \in Sending
           /\ s.page > 0 => [s EXCEPT !.next = @ + 1, !.page = @ - 1] \in Sending
           /\ \A on \in BOOLEAN : [s EXCEPT !.ended = TRUE, !.on = on] \in Sending
<1> HIDE DEF Page
<1>1. Page \in 0..Page /\ 0 \in 0..Page BY PageType
<1>2. ASSUME NEW s \in Sending, s.page > 0
      PROVE [s EXCEPT !.next = @ + 1, !.page = @ - 1] \in Sending
  <2>1. s.next + 1 \in Nat /\ s.page - 1 \in 0..Page BY <1>2, PageType DEF Sending
  <2> QED BY <2>1 DEF Sending
<1>3. ASSUME NEW i \in Ids
      PROVE  /\ [id |-> i, next |-> 1, page |-> Page, on |-> TRUE,
                 ended |-> FALSE] \in Sending
             /\ [id |-> i, next |-> 1, page |-> 0, on |-> FALSE,
                 ended |-> TRUE] \in Sending
    BY <1>1 DEF Sending
<1>4. ASSUME NEW s \in Sending
      PROVE  /\ [s EXCEPT !.page = Page] \in Sending
             /\ [s EXCEPT !.on = FALSE, !.page = 0] \in Sending
             /\ \A on \in BOOLEAN : [s EXCEPT !.ended = TRUE, !.on = on] \in Sending
    BY <1>1 DEF Sending
<1> QED BY <1>2, <1>3, <1>4

LEMMA Rest ==
    ASSUME NEW S, NEW s \in Seq(S), s # << >>
    PROVE  /\ Head(s) \in S /\ Head(s) = s[1] /\ Tail(s) \in Seq(S)
           /\ Len(Tail(s)) = Len(s) - 1
           /\ \A i \in 1..Len(Tail(s)) : Tail(s)[i] = s[i + 1]
OBVIOUS

LEMMA Removed ==
    ASSUME NEW S, NEW s \in Seq(S), NEW i \in DOMAIN s
    PROVE  RemoveAt(s, i) \in Seq(S) /\ Len(RemoveAt(s, i)) = Len(s) - 1
<1> DEFINE a == SubSeq(s, 1, i - 1)
           b == SubSeq(s, i + 1, Len(s))
<1>1. i \in 1..Len(s) /\ Len(s) \in Nat OBVIOUS
<1>2. a \in Seq(S) /\ Len(a) = i - 1 BY <1>1
<1>3. b \in Seq(S) /\ Len(b) = Len(s) - i BY <1>1
<1>4. RemoveAt(s, i) = a \o b BY DEF RemoveAt
<1> HIDE DEF a, b
<1>5. a \o b \in Seq(S) /\ Len(a \o b) = Len(a) + Len(b)
    BY <1>2, <1>3, ConcatProperties
<1>6. Len(a) + Len(b) = Len(s) - 1 BY <1>1, <1>2, <1>3
<1> QED BY <1>4, <1>5, <1>6

(* A READ copies the head of the ring and leaves the rest.                 *)
LEMMA Copied ==
    ASSUME TypeOK, ReadCopy
    PROVE  /\ buffer' \in Seq(FrameSet) /\ ring' \in Seq(FrameSet)
           /\ Len(buffer') + Len(ring') = Len(ring)
           /\ \A k \in 1..Len(buffer') : buffer'[k] = ring[k]
           /\ \A k \in 1..Len(ring') : ring'[k] = ring[Len(buffer') + k]
<1> DEFINE n == IF Len(ring) < ReadFrames THEN Len(ring) ELSE ReadFrames
<1>1. buffer' = SubSeq(ring, 1, n) /\ ring' = SubSeq(ring, n + 1, Len(ring))
    BY DEF ReadCopy
<1>2. ring \in Seq(FrameSet) /\ Len(ring) \in Nat BY DEF TypeOK
<1>3. n \in 0..Len(ring) BY <1>2, SizesAssumption
<1> HIDE DEF n, FrameSet
<1>4. buffer' \in Seq(FrameSet) /\ Len(buffer') = n BY <1>1, <1>2, <1>3
<1>5. ring' \in Seq(FrameSet) /\ Len(ring') = Len(ring) - n BY <1>1, <1>2, <1>3
<1>6. \A k \in 1..n : buffer'[k] = ring[k] BY <1>1, <1>2, <1>3
<1>7. \A k \in 1..(Len(ring) - n) : ring'[k] = ring[n + k] BY <1>1, <1>2, <1>3
<1> QED BY <1>2, <1>3, <1>4, <1>5, <1>6, <1>7

LEMMA TypeInit == Init => TypeOK
<1> SUFFICES ASSUME Init PROVE TypeOK OBVIOUS
<1> USE DEF Init
<1>1. stores \in Seq(Ids)
  <2>1. Cardinality(Ids) \in Nat BY IdsAssumption, FS_CardinalityType
  <2>2. stores \in [1..Cardinality(Ids) -> Ids] BY DEF SetToSeqs
  <2> QED BY <2>1, <2>2
<1>2. sending \in Sending
  <2>1. (CHOOSE i \in Ids : TRUE) \in Ids BY IdsAssumption
  <2> QED BY <2>1, Transfers DEF Off
<1>3. /\ complete \in BOOLEAN /\ attached \in BOOLEAN /\ failed \in BOOLEAN
      /\ stop_requested \in BOOLEAN /\ dirty \in BOOLEAN /\ dropped \in BOOLEAN
    BY Zenon
<1> HIDE DEF Page, Message, FrameSet, Sending
<1> QED BY <1>1, <1>2, <1>3, PageType, EventsAssumption DEF TypeOK, Transfer

(* The store that is being read is one of the list.                        *)
LEMMA CurrentType ==
    ASSUME TypeOK, ListInv, pc \in Reading
    PROVE  Current \in Ids /\ Frames[Current] \in Nat
BY FramesAssumption DEF TypeOK, ListInv, Current

LEMMA TypeStep == ASSUME TypeOK, ListInv, [Next]_vars PROVE TypeOK'
<1> USE DEF TypeOK, device, driver, tool, history
<1> HIDE DEF Page, Message, FrameSet, Sending, Transfer
<1>1. CASE UNCHANGED vars BY <1>1 DEF vars
<1>2. CASE GetCount BY <1>2 DEF GetCount, Transfer
<1>3. CASE GetId
  <2>1. CASE pc' = "exit" /\ UNCHANGED <<ids, index>> BY <1>3, <2>1 DEF GetId
  <2>2. CASE /\ index <= Len(stores) /\ ids' = Append(ids, stores[index])
             /\ index' = IF index = Len(before) THEN 1 ELSE index + 1
             /\ pc' = IF index = Len(before) THEN "meta" ELSE "list"
    <3>1. stores[index] \in Ids /\ ids' = Append(ids, stores[index])
        BY <1>3, <2>2 DEF GetId
    <3> HIDE DEF TypeOK
    <3>3. ids' \in Seq(Ids) /\ Len(ids') = Len(ids) + 1 /\ ids \in Seq(Ids)
        BY <3>1 DEF TypeOK
    <3> USE DEF TypeOK
    <3>2. index' \in 1..(Len(ids') + 1) BY <1>3, <2>2, <3>3 DEF GetId, ListInv
    <3> QED BY <1>3, <2>2, <3>2, <3>3 DEF GetId, Transfer
  <2> QED BY <1>3, <2>1, <2>2 DEF GetId
<1>4. CASE GetMeta
  <2>1. failed' \in BOOLEAN BY <1>4, Zenon DEF GetMeta
  <2> QED BY <1>4, <2>1 DEF GetMeta, Transfer
<1>5. CASE NextStore
  <2>1. failed' \in BOOLEAN BY <1>5, Zenon DEF NextStore
  <2>2. index' \in 1..(Len(ids) + 1) BY <1>5 DEF NextStore, ListInv, Reading
  <2> QED BY <1>5, <2>1, <2>2 DEF NextStore, Transfer
<1>6. CASE Clear BY <1>6, PageSize DEF Clear, Transfer
<1>7. CASE Reset
  <2>1. dirty' \in BOOLEAN BY <1>7, Zenon DEF Reset
  <2>2. complete' \in BOOLEAN BY <1>7, Zenon DEF Reset
  <2> QED BY <1>7, <2>1, <2>2 DEF Reset, Transfer
<1>8. CASE Start
  <2>1. Current \in Ids BY <1>8, CurrentType DEF Start, Reading
  <2>2. sending' \in Sending BY <1>8, <2>1, Transfers DEF Start, Command
  <2> QED BY <1>8, <2>2, Messages DEF Start, Command, Transfer
<1>9. CASE Started \/ Stopped \/ Verify BY <1>9 DEF Started, Stopped, Verify, Transfer
<1>10. CASE Loop BY <1>10 DEF Loop, Transfer
<1>11. CASE ReadCopy
  <2>1. /\ buffer' \in Seq(FrameSet) /\ ring' \in Seq(FrameSet)
        /\ Len(ring') <= Page
    <3>1. Len(buffer') \in Nat /\ Len(ring') \in Nat BY <1>11, Copied
    <3> QED BY <1>11, <3>1, Copied, PageType
  <2> QED BY <1>11, <2>1 DEF ReadCopy, Transfer
<1>12. CASE ReadFails \/ RequestRefused
  <2>1. failed' \in BOOLEAN BY <1>12, Zenon DEF ReadFails, RequestRefused
  <2> QED BY <1>12, <2>1 DEF ReadFails, RequestRefused, Transfer
<1>13. CASE ReadDone BY <1>13 DEF ReadDone, Returns, Transfer
<1>14. CASE PageReset BY <1>14 DEF PageReset, Transfer
<1>15. CASE Request
  <2>1. sending' \in Sending BY <1>15, Transfers DEF Request, Command
  <2>2. PICK m \in Message : wire' = Append(wire, m)
      BY <1>15, Messages DEF Request, Command
  <2> QED BY <1>15, <2>1, <2>2 DEF Request, Command, Transfer
<1>16. CASE Requested BY <1>16 DEF Requested, Returns, Transfer
<1>17. CASE Check
  <2>1. failed' \in BOOLEAN BY <1>17, Zenon DEF Check
  <2> QED BY <1>17, <2>1 DEF Check, Transfer
<1>18. CASE Stop
  <2>1. sending' \in Sending BY <1>18, Transfers DEF Stop, Command
  <2> QED BY <1>18, <2>1, Messages DEF Stop, Command, Transfer
<1>19. CASE ReadTimeout BY <1>19, EventsAssumption DEF ReadTimeout, Transfer
<1>20. CASE CommandFails
  <2>1. dirty' \in BOOLEAN BY <1>20, Zenon DEF CommandFails
  <2>2. failed' \in BOOLEAN BY <1>20, Zenon DEF CommandFails
  <2>3. events' \in 0..MaxEvents BY <1>20, EventsAssumption DEF CommandFails
  <2>4. pc' \in {"next", "stop", "exit"} BY <1>20 DEF CommandFails
  <2> QED BY <1>20, <2>1, <2>2, <2>3, <2>4 DEF CommandFails, Transfer
<1>21. CASE DeviceSendsFrame
  <2>1. sending' \in Sending BY <1>21, Transfers DEF DeviceSendsFrame
  <2>2. <<sending.id, sending.next>> \in FrameSet BY DEF FrameSet, Sending
  <2>3. PICK m \in Message : wire' = Append(wire, m)
      BY <1>21, <2>2, Messages DEF DeviceSendsFrame
  <2> QED BY <1>21, <2>1, <2>3 DEF DeviceSendsFrame, Transfer
<1>22. CASE DeviceCompletes
  <2>1. PICK on \in BOOLEAN : sending' = [sending EXCEPT !.ended = TRUE, !.on = on]
      BY <1>22 DEF DeviceCompletes
  <2>2. sending' \in Sending BY <2>1, Transfers
  <2> QED BY <1>22, <2>2, Messages DEF DeviceCompletes, Transfer
<1>23. CASE Dispatch
  <2>1. /\ Head(wire) \in Message /\ wire' = Tail(wire) /\ wire' \in Seq(Message)
      BY <1>23, Rest DEF Dispatch
  <2>2. CASE Head(wire).kind = "complete" BY ZenonT(30), <1>23, <2>1, <2>2 DEF Dispatch, Transfer
  <2>3. CASE Head(wire).kind \in {"ok", "refused"}
      BY <1>23, <2>1, <2>3 DEF Dispatch, Transfer
  <2>4. CASE Head(wire).kind = "frame"
    <3>1. Head(wire).frame \in FrameSet /\ Store(Head(wire).frame)
        BY <1>23, <2>1, <2>4, Messages DEF Dispatch
    <3>2. dropped' \in BOOLEAN BY <3>1, Zenon DEF Store
    <3>3. ring' \in Seq(FrameSet) /\ Len(ring') <= Page /\ received' \in Nat
        BY <3>1, PageSize DEF Store
    <3> QED BY <1>23, <2>1, <3>1, <3>2, <3>3 DEF Dispatch, Store, Transfer
  <2> QED BY <2>1, <2>2, <2>3, <2>4, Messages
<1>24. CASE Delete
  <2>1. PICK i \in DOMAIN stores : stores' = RemoveAt(stores, i) BY <1>24 DEF Delete
  <2>2. stores' \in Seq(Ids) BY <2>1, Removed
  <2> QED BY <1>24, <2>2, EventsAssumption DEF Delete, Transfer
<1>25. CASE Signal BY <1>25 DEF Signal, Transfer
<1>26. CASE Kill
  <2>1. dirty' \in BOOLEAN BY <1>26, Zenon DEF Kill
  <2>2. failed' \in BOOLEAN /\ stop_requested' \in BOOLEAN BY <1>26, Zenon DEF Kill
  <2> QED BY <1>26, <2>1, <2>2, EventsAssumption DEF Kill, Transfer
<1>27. CASE Unplug
  <2>1. attached' \in BOOLEAN BY <1>27, Zenon DEF Unplug
  <2> QED BY <1>27, <2>1 DEF Unplug, Transfer
<1> QED BY <1>1, <1>2, <1>3, <1>4, <1>5, <1>6, <1>7, <1>8, <1>9, <1>10, <1>11,
           <1>12, <1>13, <1>14, <1>15, <1>16, <1>17, <1>18, <1>19, <1>20, <1>21,
           <1>22, <1>23, <1>24, <1>25, <1>26, <1>27
        DEF Next, Tool

-----------------------------------------------------------------------------
(* The list, the pauses between transfers, the buffer and the result       *)

LEMMA ListStep == ASSUME TypeOK, ListInv, [Next]_vars PROVE ListInv'
<1> USE DEF device, driver, tool, history
<1>1. CASE UNCHANGED vars BY <1>1 DEF vars, ListInv, Reading, Transfer
<1>2. CASE GetCount
  <2>1. stores # << >> => Len(stores) > 0 BY DEF TypeOK
  <2> QED BY <1>2, <2>1 DEF GetCount, ListInv, Reading, Transfer
<1>3. CASE GetId
  <2>1. CASE pc' = "exit" /\ UNCHANGED <<ids, index>>
      BY <1>3, <2>1 DEF GetId, ListInv, Reading, Transfer
  <2>2. CASE /\ index <= Len(stores) /\ ids' = Append(ids, stores[index])
             /\ index' = IF index = Len(before) THEN 1 ELSE index + 1
             /\ pc' = IF index = Len(before) THEN "meta" ELSE "list"
    <3>1. /\ index = Len(ids) + 1 /\ index <= Len(before) /\ index \in Nat
          /\ ids \in Seq(Ids) /\ stores \in Seq(Ids) /\ before \in Seq(Ids)
          /\ ids' = Append(ids, stores[index]) /\ stores[index] \in Ids
        BY <1>3, <2>2 DEF GetId, ListInv, TypeOK
    <3>2. /\ Len(ids') = index /\ ids'[index] = stores[index]
          /\ \A k \in 1..Len(ids) : ids'[k] = ids[k]
        BY <3>1
    <3>3. stores = before => \A k \in 1..Len(ids') : ids'[k] = before[k]
      <4> SUFFICES ASSUME stores = before, NEW k \in 1..Len(ids')
                   PROVE  ids'[k] = before[k]
          OBVIOUS
      <4>1. CASE k = index BY <3>2, <4>1
      <4>2. CASE k # index
        <5>1. k \in 1..Len(ids) BY <3>1, <3>2, <4>2
        <5>2. \A j \in 1..Len(ids) : ids[j] = before[j]
            BY <1>3, <3>1 DEF ListInv, GetId
        <5> QED BY <3>2, <5>1, <5>2
      <4> QED BY <4>1, <4>2
    <3>4. CASE index = Len(before)
      <4>1. pc' = "meta" /\ index' = 1 BY <1>3, <2>2, <3>4 DEF GetId
      <4>2. stores = before BY <1>3, <2>2, <3>4 DEF ListInv, GetId
      <4>3. ids' \in Seq(Ids) BY <3>1
      <4>4. ids' = before BY <3>1, <3>2, <3>3, <3>4, <4>2, <4>3, SeqEqual
      <4> QED BY <1>3, <3>1, <3>2, <4>1, <4>4 DEF GetId, ListInv
    <3>5. CASE index # Len(before)
      <4>1. /\ pc' = "list" /\ index' = index + 1
            /\ stores' = stores /\ before' = before
        <5> HIDE DEF ListInv, TypeOK
        <5>1. index = Len(before) <=> FALSE BY <3>5
        <5> QED BY <1>3, <2>2, <5>1, <3>1 DEF GetId
      <4>2. stores = before \/ Len(stores) < Len(before)
          BY <1>3 DEF ListInv, GetId
      <4>3. Len(before) \in Nat BY <3>1
      <4> QED BY <3>1, <3>2, <3>3, <3>5, <4>1, <4>2, <4>3
              DEF ListInv, Reading, Transfer
    <3> QED BY <3>4, <3>5
  <2> QED BY <1>3, <2>1, <2>2 DEF GetId
<1>4. CASE GetMeta BY <1>4 DEF GetMeta, ListInv, Reading, Transfer
<1>5. CASE NextStore BY <1>5 DEF NextStore, ListInv, Reading, Transfer, TypeOK
<1>6. CASE Clear \/ Reset \/ Started \/ Loop \/ Stopped \/ Verify
    BY <1>6 DEF Clear, Reset, Started, Loop, Stopped, Answered, Verify, ListInv,
                Reading, Transfer
<1>7. CASE Start \/ Request \/ Stop
    BY <1>7 DEF Start, Request, Stop, Command, ListInv, Reading, Transfer
<1>8. CASE ReadCopy \/ ReadFails \/ ReadDone \/ ReadTimeout \/ Check
    BY <1>8 DEF ReadCopy, ReadFails, ReadDone, Returns, ReadTimeout, Check,
                ListInv, Reading, Transfer
<1>9. CASE PageReset \/ Requested \/ RequestRefused
    BY <1>9 DEF PageReset, Requested, Answered, Returns, RequestRefused, ListInv,
                Reading, Transfer
<1>10. CASE CommandFails BY <1>10 DEF CommandFails, ListInv, Reading, Transfer
<1>11. CASE DeviceSendsFrame \/ DeviceCompletes
    BY <1>11 DEF DeviceSendsFrame, DeviceCompletes, ListInv, Reading, Transfer
<1>12. CASE Dispatch BY <1>12 DEF Dispatch, Store, ListInv, Reading, Transfer
<1>13. CASE Delete
  <2>1. Len(stores') < Len(stores) /\ Len(stores) \in Nat /\ Len(stores') \in Nat
      BY SMTT(30), <1>13, Removed DEF Delete, TypeOK
  <2>2. pc' = pc /\ ids' = ids /\ index' = index /\ before' = before
      BY <1>13 DEF Delete
  <2>3. Len(before) \in Nat BY DEF TypeOK
  <2> QED BY <2>1, <2>2, <2>3 DEF ListInv, Reading, Transfer
<1>14. CASE Signal \/ Unplug BY <1>14 DEF Signal, Unplug, ListInv, Reading, Transfer
<1>15. CASE Kill BY <1>15 DEF Kill, ListInv, Reading, Transfer
<1> QED BY <1>1, <1>2, <1>3, <1>4, <1>5, <1>6, <1>7, <1>8, <1>9, <1>10, <1>11,
           <1>12, <1>13, <1>14, <1>15
        DEF Next, Tool

LEMMA IdleStep ==
    ASSUME TypeOK, IdleInv, ReplyInv, [Next]_vars
    PROVE  IdleInv'
<1> USE DEF device, driver, tool, history, Transfer
<1> SUFFICES ASSUME ~dirty', pc' \notin Transfer PROVE IdleInv' BY DEF IdleInv
<1>1. CASE UNCHANGED vars BY <1>1 DEF vars, IdleInv
<1>2. CASE GetCount \/ GetId \/ GetMeta \/ NextStore
    BY <1>2 DEF GetCount, GetId, GetMeta, NextStore, IdleInv
<1>3. CASE Clear BY <1>3 DEF Clear, IdleInv
<1>4. CASE Reset BY <1>4 DEF Reset, Quiet, IdleInv
<1>5. CASE Start \/ Request \/ Stop
    BY <1>5 DEF Start, Request, Stop, Command, IdleInv
<1>6. CASE Started \/ Loop \/ ReadCopy \/ ReadFails \/ ReadDone \/ ReadTimeout
    BY <1>6 DEF Started, Loop, ReadCopy, ReadFails, ReadDone, Returns, ReadTimeout,
                IdleInv
<1>7. CASE PageReset \/ Requested \/ RequestRefused \/ Check
    BY <1>7 DEF PageReset, Requested, Returns, RequestRefused, Check, IdleInv
<1>8. CASE Stopped
  <2>1. ~sending.on /\ wire = << >> BY <1>8 DEF Stopped, Answered, ReplyInv
  <2> QED BY <1>8, <2>1 DEF Stopped, IdleInv
<1>9. CASE Verify BY <1>9 DEF Verify, IdleInv
<1>10. CASE CommandFails
  <2>1. /\ sending' = sending /\ wire' = wire
        /\ pc' \notin {"reset", "start"}
      BY <1>10 DEF CommandFails
  <2>2. ~dirty /\ pc \notin Transfer
    <3>1. pc' # "stop" BY Zenon
    <3>2. CASE pc \in {"start", "starting"} /\ dirty' = TRUE BY <3>2
    <3>3. CASE pc \in {"stop", "stopping", "verify"} /\ dirty' = (dirty \/ pc # "verify")
        BY <3>3
    <3>4. CASE pc \in {"count", "list", "meta"} /\ dirty' = dirty BY <3>4
    <3> QED BY <1>10, <3>1, <3>2, <3>3, <3>4 DEF CommandFails
  <2> QED BY <2>1, <2>2 DEF IdleInv
<1>11. CASE DeviceSendsFrame \/ DeviceCompletes
    BY <1>11 DEF DeviceSendsFrame, DeviceCompletes, IdleInv
<1>12. CASE Dispatch BY <1>12 DEF Dispatch, IdleInv
<1>13. CASE Delete \/ Signal \/ Kill \/ Unplug
    BY <1>13 DEF Delete, Signal, Kill, Unplug, IdleInv
<1> QED BY <1>1, <1>2, <1>3, <1>4, <1>5, <1>6, <1>7, <1>8, <1>9, <1>10, <1>11,
           <1>12, <1>13
        DEF Next, Tool

LEMMA BufferStep == ASSUME BufferInv, [Next]_vars PROVE BufferInv'
<1> USE DEF device, driver, tool, history, BufferInv
<1>1. CASE UNCHANGED vars BY <1>1 DEF vars
<1>2. CASE GetCount \/ GetId \/ GetMeta \/ NextStore
    BY <1>2 DEF GetCount, GetId, GetMeta, NextStore
<1>3. CASE Clear \/ Reset \/ Start \/ Request \/ Stop
    BY <1>3 DEF Clear, Reset, Start, Request, Stop, Command
<1>4. CASE Started \/ Loop \/ ReadCopy \/ ReadFails \/ ReadDone \/ ReadTimeout
    BY <1>4 DEF Started, Answered, Loop, ReadCopy, ReadFails, ReadDone, Returns,
                ReadTimeout
<1>5. CASE PageReset \/ Requested \/ RequestRefused \/ Check \/ Stopped \/ Verify
    BY <1>5 DEF PageReset, Requested, Answered, Returns, RequestRefused, Check,
                Stopped, Verify
<1>6. CASE CommandFails BY <1>6 DEF CommandFails
<1>7. CASE DeviceSendsFrame \/ DeviceCompletes \/ Dispatch
    BY <1>7 DEF DeviceSendsFrame, DeviceCompletes, Dispatch
<1>8. CASE Delete \/ Signal \/ Kill \/ Unplug BY <1>8 DEF Delete, Signal, Kill, Unplug
<1> QED BY <1>1, <1>2, <1>3, <1>4, <1>5, <1>6, <1>7, <1>8 DEF Next, Tool

LEMMA SuccessStep == ASSUME SuccessInv, [Next]_vars PROVE SuccessInv'
<1> USE DEF device, driver, tool, history, SuccessInv, Current
<1>1. CASE UNCHANGED vars BY <1>1 DEF vars
<1>2. CASE GetCount \/ GetId \/ GetMeta \/ NextStore
    BY <1>2 DEF GetCount, GetId, GetMeta, NextStore
<1>3. CASE Clear \/ Reset \/ Start \/ Request \/ Stop
    BY <1>3 DEF Clear, Reset, Start, Request, Stop, Command
<1>4. CASE Started \/ Loop \/ ReadCopy \/ ReadFails \/ ReadDone \/ ReadTimeout
    BY <1>4 DEF Started, Answered, Loop, ReadCopy, ReadFails, ReadDone, Returns,
                ReadTimeout
<1>5. CASE PageReset \/ Requested \/ RequestRefused \/ Check \/ Stopped \/ Verify
    BY <1>5 DEF PageReset, Requested, Answered, Returns, RequestRefused, Check,
                Stopped, Verify
<1>6. CASE CommandFails BY <1>6 DEF CommandFails
<1>7. CASE DeviceSendsFrame \/ DeviceCompletes \/ Dispatch
    BY <1>7 DEF DeviceSendsFrame, DeviceCompletes, Dispatch
<1>8. CASE Delete \/ Signal \/ Kill \/ Unplug BY <1>8 DEF Delete, Signal, Kill, Unplug
<1> QED BY <1>1, <1>2, <1>3, <1>4, <1>5, <1>6, <1>7, <1>8 DEF Next, Tool

-----------------------------------------------------------------------------
(* The transfer: one lemma per action that moves a frame or an answer      *)

Moves == TakenInv /\ NumberInv /\ PageInv /\ ReplyInv

(* Nothing is said of what a transfer left behind, nor of the pauses.      *)
LEMMA NoMoves ==
    ASSUME dirty' \/ pc' \notin Transfer \cup {"verify"} PROVE Moves'
BY DEF Moves, TakenInv, NumberInv, PageInv, ReplyInv

LEMMA FramesRest ==
    ASSUME TakenInv, NumberInv, ~dirty, pc \in Transfer,
           UNCHANGED <<sending, wire, ring, ids, index, got, buffer>>
    PROVE  TakenInv' /\ NumberInv'
<1>1. Current' = Current /\ Taken' = Taken /\ Held' = Held
    BY DEF Current, Taken, Held
<1> QED BY <1>1 DEF TakenInv, NumberInv

(* Steps of the tool and of READ that only move the program counter.       *)
LEMMA ControlMoves ==
    ASSUME Inv, ~dirty, pc \in Transfer,
           \/ Started \/ Loop \/ ReadTimeout \/ ReadFails \/ PageReset
           \/ RequestRefused \/ Check \/ Stopped \/ CommandFails
    PROVE  Moves'
<1> USE DEF device, driver, tool, history
<1> HIDE DEF Page
<1>1. UNCHANGED <<sending, wire, ring, ids, index, got, buffer>>
    BY DEF Started, Loop, ReadTimeout, ReadFails, PageReset, RequestRefused, Check,
           Stopped, CommandFails
<1>2. TakenInv' /\ NumberInv' BY <1>1, FramesRest DEF Inv
<1>3. PageInv'
  <2>1. /\ received \in Nat /\ FramesOn(wire) \in Nat /\ Page \in Nat
        /\ sending.page \in Nat /\ Len(ring) \in Nat
      BY PageType, CountOn DEF Inv, TypeOK, Sending
  <2>2. CASE Started \/ Loop \/ ReadTimeout \/ ReadFails \/ RequestRefused \/ Check
             \/ Stopped \/ CommandFails
      BY <1>1, <2>2 DEF Inv, PageInv, Started, Loop, ReadTimeout, ReadFails,
                        RequestRefused, Check, Stopped, CommandFails
  <2>3. CASE PageReset
    <3>1. received >= Page /\ ring = << >>
        BY <2>3 DEF Inv, PageInv, PageReset, PageRead
    <3>2. FramesOn(wire) = 0 /\ sending.page = 0
        BY <2>1, <3>1 DEF Inv, PageInv
    <3> QED BY <1>1, <2>1, <2>3, <3>1, <3>2 DEF PageInv, PageReset
  <2> QED BY <2>2, <2>3
<1>4. ReplyInv'
    BY <1>1 DEF Inv, ReplyInv, Transfer, Started, Answered, Loop, ReadTimeout, ReadFails,
                PageReset, RequestRefused, Check, Stopped, CommandFails
<1> QED BY <1>2, <1>3, <1>4 DEF Moves

(* Steps that touch neither the transfer nor what the tool has read.       *)
LEMMA OtherMoves ==
    ASSUME Inv, \/ UNCHANGED vars
                \/ Delete \/ Signal \/ Unplug
    PROVE  Moves'
<1>1. UNCHANGED <<sending, wire, ring, received, complete, answer, pc, ids, index,
                  got, buffer, dirty>>
    BY DEF vars, Delete, Signal, Unplug, device, driver, tool, history
<1>2. Current' = Current /\ Taken' = Taken /\ Held' = Held
    BY <1>1 DEF Current, Taken, Held
<1>3. TakenInv' BY <1>1, <1>2 DEF Inv, TakenInv
<1>4. NumberInv' BY <1>1, <1>2 DEF Inv, NumberInv
<1>5. PageInv' BY <1>1 DEF Inv, PageInv
<1>6. ReplyInv' BY <1>1 DEF Inv, ReplyInv
<1> QED BY <1>3, <1>4, <1>5, <1>6 DEF Moves

(* A transfer begins: nothing is under way, and the page is free.          *)
LEMMA StartMoves == ASSUME Inv, ~dirty, Start PROVE Moves'
<1> USE DEF device, driver, tool, history
<1> HIDE DEF Page
<1>1. /\ wire = << >> /\ ring = << >> /\ received = 0 /\ got = << >> /\ buffer = << >>
      /\ Current \in Ids /\ Frames[Current] \in Nat
    BY CurrentType DEF Inv, Start, IdleInv, BufferInv, Transfer, Reading
<1>2. /\ wire' = Append(wire, [kind |-> "ok"]) /\ pc' = "starting"
      /\ UNCHANGED <<ring, received, complete, ids, index, got, buffer, dirty>>
      /\ sending' = [id |-> Current, next |-> 1, page |-> Page, on |-> TRUE,
                     ended |-> FALSE]
      /\ answer' = "none"
    BY DEF Start, Command
<1>3. /\ sending'.id = Current /\ sending'.next = 1 /\ sending'.page = Page
    BY <1>2
<1>4. /\ Len(wire') = 1 /\ wire'[1].kind = "ok"
    BY <1>1, <1>2
<1>5. FramesOn(wire') = 0
  <2>1. << >> \in Seq(Message) /\ [kind |-> "ok"] \in Message BY Messages
  <2> QED BY <1>1, <1>2, <2>1, CountAppend, CountEmpty
<1>6. Current' = Current /\ Taken' = 0 /\ Held' = 0
    BY <1>1, <1>2 DEF Current, Taken, Held
<1>7. TakenInv' BY <1>1, <1>2, <1>6 DEF TakenInv
<1>8. NumberInv'
    BY <1>1, <1>2, <1>3, <1>4, <1>5, <1>6 DEF NumberInv
<1>9. PageInv' BY <1>1, <1>2, <1>3, <1>5, PageType DEF PageInv
<1>10. ReplyInv' BY <1>2, <1>4 DEF ReplyInv
<1> QED BY <1>7, <1>8, <1>9, <1>10 DEF Moves

(* READ copies: frames pass from the ring to the buffer.                   *)
LEMMA CopyMoves == ASSUME Inv, ~dirty, ReadCopy PROVE Moves'
<1> USE DEF device, driver, tool, history
<1> HIDE DEF Page, FrameSet, Message
<1>1. /\ buffer = << >> /\ pc = "wait" /\ pc \in Transfer
      /\ ring \in Seq(FrameSet) /\ got \in Seq(FrameSet) /\ received \in Nat
    BY DEF Inv, BufferInv, ReadCopy, Transfer, TypeOK
<1>2. /\ UNCHANGED <<sending, wire, received, complete, answer, ids, index, got, dirty>>
      /\ pc' = "copied" /\ (received >= Page \/ complete)
    BY DEF ReadCopy, ReadEnable
<1>3. /\ buffer' \in Seq(FrameSet) /\ ring' \in Seq(FrameSet)
      /\ Len(buffer') + Len(ring') = Len(ring)
      /\ \A k \in 1..Len(buffer') : buffer'[k] = ring[k]
      /\ \A k \in 1..Len(ring') : ring'[k] = ring[Len(buffer') + k]
    BY Copied DEF Inv
<1>4. /\ Len(buffer') \in Nat /\ Len(ring') \in Nat /\ Len(ring) \in Nat
      /\ Len(got) \in Nat /\ Len(buffer) = 0
    BY <1>1, <1>3
<1>5. /\ Current' = Current /\ Taken' = Taken + Len(buffer') /\ Held' = Held
      /\ Taken = Len(got) /\ Held = Len(got) + Len(ring)
    BY SMTT(30), <1>2, <1>3, <1>4 DEF Current, Taken, Held
<1>6. /\ \A k \in 1..Len(got) : got[k] = <<Current, k>>
      /\ \A k \in 1..Len(ring) : ring[k] = <<Current, Len(got) + k>>
      /\ Held + FramesOn(wire) = sending.next - 1
      /\ sending.next <= Frames[Current] + 1
    BY <1>1, <1>5 DEF Inv, TakenInv, NumberInv
<1>7. FramesOn(wire) \in Nat /\ sending.next \in Nat /\ Frames[Current] \in Nat
    BY <1>1, CountOn, CurrentType DEF Inv, TypeOK, Sending, Reading
<1>8. \A k \in 1..Len(buffer') : buffer'[k] = <<Current, Len(got) + k>>
    BY <1>3, <1>4, <1>6
<1>9. \A k \in 1..Len(ring') : ring'[k] = <<Current, Len(got) + (Len(buffer') + k)>>
  <2> SUFFICES ASSUME NEW k \in 1..Len(ring')
               PROVE ring'[k] = <<Current, Len(got) + (Len(buffer') + k)>>
      OBVIOUS
  <2>1. Len(buffer') + k \in 1..Len(ring) BY <1>3, <1>4
  <2> QED BY <1>3, <1>6, <2>1
<1>10. TakenInv'
  <2>1. Taken' <= Frames[Current] BY SMTT(30), <1>3, <1>4, <1>5, <1>6, <1>7
  <2> QED BY <1>2, <1>5, <1>6, <1>8, <2>1 DEF TakenInv
<1>11. NumberInv'
  <2>1. \A k \in 1..Len(ring') : ring'[k] = <<Current', Taken' + k>>
    <3>1. \A k \in 1..Len(ring') : Len(got) + (Len(buffer') + k) = Taken' + k
        BY <1>4, <1>5
    <3> QED BY <1>5, <1>9, <3>1
  <2> QED BY <1>1, <1>2, <1>5, <2>1 DEF Inv, NumberInv
<1>12. PageInv' BY <1>1, <1>2, <1>3, <1>4 DEF Inv, PageInv
<1>13. ReplyInv' BY <1>1, <1>2 DEF Inv, ReplyInv
<1> QED BY <1>10, <1>11, <1>12, <1>13 DEF Moves

(* READ returns: frames pass from the buffer to the tool.                  *)
LEMMA ReturnMoves == ASSUME Inv, ~dirty, ReadDone \/ Requested PROVE Moves'
<1> USE DEF device, driver, tool, history
<1> HIDE DEF Page, FrameSet, Message
<1>1. /\ pc \in Transfer /\ pc' \in {"check", "loop"}
      /\ buffer \in Seq(FrameSet) /\ got \in Seq(FrameSet) /\ ring \in Seq(FrameSet)
    BY DEF Inv, ReadDone, Requested, Answered, Returns, Transfer, TypeOK
<1>2. /\ UNCHANGED <<sending, wire, ring, received, complete, answer, ids, index, dirty>>
      /\ got' = got \o buffer /\ buffer' = << >>
    BY DEF ReadDone, Requested, Returns
<1>3. /\ Len(got') = Len(got) + Len(buffer)
      /\ \A k \in 1..(Len(got) + Len(buffer)) :
             got'[k] = IF k <= Len(got) THEN got[k] ELSE buffer[k - Len(got)]
    BY <1>1, <1>2, ConcatProperties
<1>4. Len(got) \in Nat /\ Len(buffer) \in Nat /\ Len(ring) \in Nat /\ Len(buffer') = 0
    BY <1>1, <1>2
<1>5. /\ Current' = Current /\ Taken' = Taken /\ Held' = Held
    BY <1>2, <1>3, <1>4 DEF Current, Taken, Held
<1>6. /\ \A k \in 1..Len(got) : got[k] = <<Current, k>>
      /\ \A k \in 1..Len(buffer) : buffer[k] = <<Current, Len(got) + k>>
      /\ Taken <= Frames[Current]
    BY <1>1 DEF Inv, TakenInv
<1>7. \A k \in 1..Len(got') : got'[k] = <<Current, k>>
  <2> SUFFICES ASSUME NEW k \in 1..Len(got') PROVE got'[k] = <<Current, k>> OBVIOUS
  <2>1. CASE k <= Len(got) BY <1>3, <1>4, <1>6, <2>1
  <2>2. CASE k > Len(got)
    <3>1. k - Len(got) \in 1..Len(buffer) /\ Len(got) + (k - Len(got)) = k
        BY <1>3, <1>4, <2>2
    <3> QED BY <1>3, <1>4, <1>6, <2>2, <3>1
  <2> QED BY <1>3, <1>4, <2>1, <2>2
<1>8. TakenInv'
  <2>1. 1..Len(buffer') = {} BY <1>4
  <2> QED BY <1>2, <1>5, <1>6, <1>7, <2>1 DEF TakenInv
<1>9. NumberInv' BY <1>1, <1>2, <1>5 DEF Inv, NumberInv
<1>10. PageInv' BY <1>1, <1>2 DEF Inv, PageInv
<1>11. ReplyInv'
    BY <1>1, <1>2 DEF Inv, ReplyInv, ReadDone, Requested, Answered
<1> QED BY <1>8, <1>9, <1>10, <1>11 DEF Moves

(* A command of the tool: its answer is the last message.                  *)
LEMMA CommandMoves == ASSUME Inv, ~dirty, Request \/ Stop PROVE Moves'
<1> USE DEF device, driver, tool, history
<1> HIDE DEF Page, FrameSet, Message
<1>1. /\ pc \in Transfer /\ wire \in Seq(Message) /\ sending \in Sending
      /\ pc' \in {"requesting", "stopping"}
      /\ pc = "stop" <=> pc' = "stopping"
    BY DEF Inv, TypeOK, Request, Stop, Command, Transfer
<1>2. /\ UNCHANGED <<ring, received, complete, ids, index, got, buffer, dirty>>
      /\ answer' = "none"
    BY DEF Request, Stop, Command
<1>3. /\ sending'.id = sending.id /\ sending'.next = sending.next
      /\ sending'.page \in {sending.page, 0, Page}
      /\ sending'.page = Page => pc = "request" \/ sending.page = Page \/ Page = 0
      /\ pc = "stop" => ~sending'.on
    BY DEF Request, Stop, Command, Sending, Inv, TypeOK
<1>4. PICK r \in {"ok", "refused"} : wire' = Append(wire, [kind |-> r])
    BY DEF Request, Stop, Command
<1>5. /\ Len(wire') = Len(wire) + 1 /\ Len(wire) \in Nat
      /\ wire'[Len(wire) + 1] = [kind |-> r]
      /\ \A i \in 1..Len(wire) : wire'[i] = wire[i]
    BY <1>1, <1>4
<1>6. /\ [kind |-> r] \in Message /\ [kind |-> r].kind = r
    BY Messages
<1>7. /\ FramesOn(wire') = FramesOn(wire) /\ FramesOn(wire) \in Nat
      /\ \A i \in 0..Len(wire) : FramesIn(wire', i) = FramesIn(wire, i)
    BY <1>1, <1>4, <1>6, CountAppend, CountOn
<1>8. Current' = Current /\ Taken' = Taken /\ Held' = Held
    BY <1>2 DEF Current, Taken, Held
<1>9. TakenInv' BY <1>1, <1>2, <1>8 DEF Inv, TakenInv
<1>10. NumberInv'
  <2>1. ASSUME NEW i \in 1..Len(wire'), wire'[i].kind = "frame"
        PROVE  wire'[i].frame = <<Current', Held' + FramesIn(wire', i)>>
    <3>1. i # Len(wire) + 1 BY <1>5, <1>6, <2>1
    <3>2. i \in 1..Len(wire) /\ i \in 0..Len(wire) BY <1>5, <3>1
    <3> QED BY <1>1, <1>5, <1>7, <1>8, <2>1, <3>2 DEF Inv, NumberInv
  <2> QED BY <1>1, <1>2, <1>3, <1>7, <1>8, <2>1 DEF Inv, NumberInv
<1>11. PageInv'
  <2>1. /\ received \in Nat /\ sending.page \in Nat /\ Page \in Nat /\ Len(ring) \in Nat
      BY PageType DEF Inv, TypeOK, Sending
  <2>2. received' + FramesOn(wire') + sending'.page <= Page
      BY <1>1, <1>2, <1>3, <1>7, <2>1 DEF Inv, PageInv
  <2> QED BY <1>1, <1>2, <2>2 DEF Inv, PageInv
<1>12. ReplyInv'
  <2>1. pc \in {"request", "stop"} BY DEF Request, Stop, Command
  <2>2. \A i \in 1..Len(wire) : ~IsReply(wire[i])
      BY <1>1, <2>1 DEF Inv, ReplyInv
  <2>3. \A i \in 1..Len(wire') : IsReply(wire'[i]) <=> i = Len(wire')
    <3> SUFFICES ASSUME NEW i \in 1..Len(wire')
                 PROVE IsReply(wire'[i]) <=> i = Len(wire')
        OBVIOUS
    <3>1. CASE i = Len(wire') BY <1>5, <1>6, <3>1 DEF IsReply
    <3>2. CASE i # Len(wire')
      <4>1. i \in 1..Len(wire) BY <1>5, <3>2
      <4> QED BY <1>5, <2>2, <3>2, <4>1
    <3> QED BY <3>1, <3>2
  <2>4. wire' # << >> /\ Len(wire') \in 1..Len(wire') BY <1>5
  <2> QED BY <1>1, <1>2, <1>3, <2>3, <2>4 DEF ReplyInv
<1> QED BY <1>9, <1>10, <1>11, <1>12 DEF Moves

(* The device sends the next frame.                                        *)
LEMMA SendMoves == ASSUME Inv, ~dirty, DeviceSendsFrame PROVE Moves'
<1> USE DEF device, driver, tool, history
<1> HIDE DEF Page, FrameSet, Message
<1>1. /\ pc \in Transfer /\ wire \in Seq(Message) /\ sending \in Sending
      /\ sending.on /\ sending.page > 0 /\ sending.next <= Frames[Current]
      /\ sending.id = Current /\ Current \in Ids /\ Frames[Current] \in Nat
  <2>1. pc \in Transfer BY DEF Inv, IdleInv, DeviceSendsFrame
  <2> QED BY <2>1, CurrentType DEF Inv, TypeOK, NumberInv, DeviceSendsFrame, Reading
<1>2. UNCHANGED <<ring, received, complete, answer, pc, ids, index, got, buffer, dirty>>
    BY DEF DeviceSendsFrame
<1>3. /\ sending'.id = sending.id /\ sending'.next = sending.next + 1
      /\ sending'.page = sending.page - 1 /\ sending'.on = sending.on
    BY <1>1 DEF DeviceSendsFrame, Sending
<1> DEFINE m == [kind |-> "frame", frame |-> <<Current, sending.next>>]
<1>4. wire' = Append(wire, m) BY <1>1 DEF DeviceSendsFrame
<1>5. m \in Message /\ m.kind = "frame" /\ m.frame = <<Current, sending.next>>
  <2>1. <<Current, sending.next>> \in FrameSet BY <1>1 DEF FrameSet, Sending
  <2> QED BY <2>1, Messages
<1> HIDE DEF m
<1>6. /\ Len(wire') = Len(wire) + 1 /\ Len(wire) \in Nat
      /\ wire'[Len(wire) + 1] = m
      /\ \A i \in 1..Len(wire) : wire'[i] = wire[i]
    BY <1>1, <1>4, <1>5
<1>7. /\ FramesOn(wire') = FramesOn(wire) + 1 /\ FramesOn(wire) \in Nat
      /\ FramesIn(wire', Len(wire) + 1) = FramesOn(wire')
      /\ \A i \in 0..Len(wire) : FramesIn(wire', i) = FramesIn(wire, i)
    BY <1>1, <1>4, <1>5, CountAppend, CountOn
<1>8. Current' = Current /\ Taken' = Taken /\ Held' = Held
    BY <1>2 DEF Current, Taken, Held
<1>9. Held + FramesOn(wire) = sending.next - 1 /\ Held \in Nat
    BY <1>1 DEF Inv, NumberInv, Held, Taken, TypeOK
<1>10. TakenInv' BY <1>2, <1>8 DEF Inv, TakenInv
<1>11. NumberInv'
  <2>1. Held' + FramesOn(wire') = sending'.next - 1 /\ Held + FramesOn(wire') = sending.next
      BY <1>1, <1>3, <1>7, <1>8, <1>9 DEF Sending
  <2>2. ASSUME NEW i \in 1..Len(wire'), wire'[i].kind = "frame"
        PROVE  wire'[i].frame = <<Current', Held' + FramesIn(wire', i)>>
    <3>1. CASE i = Len(wire) + 1 BY <1>5, <1>6, <1>7, <1>8, <2>1, <3>1
    <3>2. CASE i # Len(wire) + 1
      <4>1. i \in 1..Len(wire) /\ i \in 0..Len(wire) BY <1>6, <3>2
      <4> QED BY <1>1, <1>6, <1>7, <1>8, <2>2, <4>1 DEF Inv, NumberInv
    <3> QED BY <3>1, <3>2
  <2>3. sending'.next <= Frames[Current] + 1 BY <1>1, <1>3 DEF Sending
  <2> QED BY <1>1, <1>2, <1>3, <1>8, <2>1, <2>2, <2>3 DEF Inv, NumberInv
<1>12. PageInv'
  <2>1. /\ received \in Nat /\ sending.page \in Nat /\ Page \in Nat /\ Len(ring) \in Nat
      BY PageType DEF Inv, TypeOK, Sending
  <2>2. pc # "request" BY <1>1, <1>7, <2>1 DEF Inv, PageInv
  <2>3. received' + FramesOn(wire') + sending'.page <= Page
      BY <1>1, <1>2, <1>3, <1>7, <2>1 DEF Inv, PageInv
  <2> QED BY <1>1, <1>2, <2>2, <2>3 DEF Inv, PageInv
<1>13. ReplyInv'
  <2>1. pc # "stopping" BY <1>1 DEF Inv, ReplyInv
  <2>2. ASSUME NEW i \in 1..Len(wire'), IsReply(wire'[i])
        PROVE  i \in 1..Len(wire) /\ IsReply(wire[i])
    <3>1. i # Len(wire) + 1 BY <1>5, <1>6, <2>2 DEF IsReply
    <3> QED BY <1>6, <2>2, <3>1
  <2> QED BY <1>1, <1>2, <2>1, <2>2 DEF Inv, ReplyInv
<1> QED BY <1>10, <1>11, <1>12, <1>13 DEF Moves

(* The device says that it has sent everything.                            *)
LEMMA CompleteMoves == ASSUME Inv, ~dirty, DeviceCompletes PROVE Moves'
<1> USE DEF device, driver, tool, history
<1> HIDE DEF Page, FrameSet, Message
<1>1. /\ pc \in Transfer /\ wire \in Seq(Message) /\ sending \in Sending /\ sending.on
  <2>1. pc \in Transfer BY DEF Inv, IdleInv, DeviceCompletes
  <2> QED BY <2>1 DEF Inv, TypeOK, DeviceCompletes
<1>2. UNCHANGED <<ring, received, complete, answer, pc, ids, index, got, buffer, dirty>>
    BY DEF DeviceCompletes
<1>3. /\ sending'.id = sending.id /\ sending'.next = sending.next
      /\ sending'.page = sending.page
    BY <1>1 DEF DeviceCompletes, Sending
<1> DEFINE m == [kind |-> "complete"]
<1>4. wire' = Append(wire, m) BY DEF DeviceCompletes
<1>5. m \in Message /\ m.kind = "complete" BY Messages
<1> HIDE DEF m
<1>6. /\ Len(wire') = Len(wire) + 1 /\ Len(wire) \in Nat
      /\ wire'[Len(wire) + 1] = m
      /\ \A i \in 1..Len(wire) : wire'[i] = wire[i]
    BY <1>1, <1>4, <1>5
<1>7. /\ FramesOn(wire') = FramesOn(wire)
      /\ \A i \in 0..Len(wire) : FramesIn(wire', i) = FramesIn(wire, i)
    BY <1>1, <1>4, <1>5, CountAppend
<1>8. Current' = Current /\ Taken' = Taken /\ Held' = Held
    BY <1>2 DEF Current, Taken, Held
<1>9. ASSUME NEW i \in 1..Len(wire'), wire'[i].kind # "complete"
      PROVE  i \in 1..Len(wire) /\ i \in 0..Len(wire) /\ wire'[i] = wire[i]
    BY <1>5, <1>6, <1>9
<1>10. TakenInv' BY <1>2, <1>8 DEF Inv, TakenInv
<1>11. NumberInv'
  <2>1. ASSUME NEW i \in 1..Len(wire'), wire'[i].kind = "frame"
        PROVE  wire'[i].frame = <<Current', Held' + FramesIn(wire', i)>>
      BY <1>1, <1>7, <1>8, <1>9, <2>1 DEF Inv, NumberInv
  <2> QED BY <1>1, <1>2, <1>3, <1>7, <1>8, <2>1 DEF Inv, NumberInv
<1>12. PageInv' BY <1>1, <1>2, <1>3, <1>7 DEF Inv, PageInv
<1>13. ReplyInv'
  <2>1. pc # "stopping" BY <1>1 DEF Inv, ReplyInv
  <2>2. ASSUME NEW i \in 1..Len(wire'), IsReply(wire'[i])
        PROVE  i \in 1..Len(wire) /\ IsReply(wire[i])
    <3>1. wire'[i].kind # "complete" BY <2>2 DEF IsReply
    <3> QED BY <1>9, <2>2, <3>1
  <2> QED BY <1>1, <1>2, <2>1, <2>2 DEF Inv, ReplyInv
<1> QED BY <1>10, <1>11, <1>12, <1>13 DEF Moves

(* The first message is dispatched: to the ring, as the end, or as an      *)
(* answer.  The others move one place forward.                             *)
LEMMA DispatchMoves ==
    ASSUME Inv, ~dirty, Dispatch
    PROVE  Moves' /\ ~dropped'
<1> USE DEF device, driver, tool, history
<1> HIDE DEF Page, FrameSet, Message
<1>1. /\ pc \in Transfer /\ wire \in Seq(Message) /\ wire # << >>
      /\ sending \in Sending /\ ring \in Seq(FrameSet) /\ received \in Nat
      /\ Held \in Nat /\ ~dropped
  <2>1. pc \in Transfer BY DEF Inv, IdleInv, Dispatch
  <2> QED BY <2>1 DEF Inv, TypeOK, Dispatch, Held, Taken
<1>2. UNCHANGED <<sending, pc, ids, index, got, buffer, dirty>> BY DEF Dispatch
<1> DEFINE m == Head(wire)
<1>3. /\ m \in Message /\ m = wire[1] /\ wire' = Tail(wire) /\ wire' \in Seq(Message)
      /\ Len(wire) \in Nat /\ Len(wire) >= 1 /\ Len(wire') = Len(wire) - 1
      /\ \A i \in 1..Len(wire') : wire'[i] = wire[i + 1]
  <2>1. wire' = Tail(wire) BY DEF Dispatch
  <2>2. Len(wire) \in Nat /\ Len(wire) >= 1 BY <1>1
  <2> QED BY <1>1, <2>1, <2>2, Rest
<1>4. /\ \A i \in 0..(Len(wire) - 1) :
             FramesIn(wire', i) = IF m.kind = "frame" THEN FramesIn(wire, i + 1) - 1
                                  ELSE FramesIn(wire, i + 1)
      /\ FramesOn(wire') = IF m.kind = "frame" THEN FramesOn(wire) - 1
                           ELSE FramesOn(wire)
      /\ FramesOn(wire) \in Nat /\ FramesOn(wire') \in Nat
      /\ m.kind = "frame" => FramesIn(wire, 1) = 1
    BY <1>1, <1>3, CountTail, CountOn
<1>5. m.kind \in {"frame", "ok", "refused", "complete"} BY <1>3, Messages
<1> HIDE DEF m
<1>6. Current' = Current /\ Taken' = Taken BY <1>2 DEF Current, Taken
<1>7. TakenInv' BY <1>2, <1>6 DEF Inv, TakenInv
<1>8. /\ \A i \in 1..Len(wire) : wire[i].kind = "frame" =>
             wire[i].frame = <<Current, Held + FramesIn(wire, i)>>
      /\ Held + FramesOn(wire) = sending.next - 1
      /\ sending.id = Current /\ sending.next <= Frames[Current] + 1
      /\ \A k \in 1..Len(ring) : ring[k] = <<Current, Taken + k>>
    BY <1>1 DEF Inv, NumberInv
<1>9. /\ received + FramesOn(wire) + sending.page <= Page
      /\ Len(ring) <= received
    BY <1>1 DEF Inv, PageInv
<1>10. ASSUME NEW i \in 1..Len(wire'), IsReply(wire'[i])
       PROVE  i + 1 \in 1..Len(wire) /\ IsReply(wire[i + 1])
    BY <1>3, <1>10
<1>11. CASE m.kind = "frame"
  <2>1. Store(m.frame) BY <1>11, <1>1 DEF Dispatch, m
  <2>2. /\ FramesOn(wire) >= 1 /\ m.frame = <<Current, Held + 1>>
      BY <1>3, <1>4, <1>8, <1>11
  <2>3. Fits(ring)
    <3>1. sending.page \in Nat /\ Page \in Nat /\ Len(ring) \in Nat
        BY <1>1, PageType DEF Sending
    <3>2. Len(ring) + 1 <= Page BY <1>1, <1>4, <1>9, <2>2, <3>1
    <3> QED BY <1>1, <3>2, PageSize
  <2>4. /\ ring' = Append(ring, m.frame) /\ received' = received + 1
        /\ UNCHANGED <<complete, answer>> /\ ~dropped'
    <3>1. ring' = Append(ring, m.frame) /\ received' = received + 1
        BY <2>1, <2>3 DEF Store
    <3>2. dropped' = (dropped \/ ~(Fits(ring) \/ dirty)) /\ UNCHANGED <<complete, answer>>
        BY <2>1 DEF Store
    <3>3. ~dropped' BY <1>1, <2>3, <3>2, Zenon
    <3> QED BY <3>1, <3>2, <3>3
  <2>5. /\ Len(ring') = Len(ring) + 1 /\ Len(ring) \in Nat
        /\ ring'[Len(ring) + 1] = m.frame
        /\ \A k \in 1..Len(ring) : ring'[k] = ring[k]
    <3>1. m.frame \in FrameSet BY <1>3, <1>11, Messages
    <3> QED BY <1>1, <2>4, <3>1
  <2>6. Held' = Held + 1 /\ Held = Taken + Len(ring)
    <3>1. Taken \in Nat BY DEF Inv, TypeOK, Taken
    <3> QED BY <1>6, <2>5, <3>1 DEF Held
  <2>7. NumberInv'
    <3>1. ASSUME NEW k \in 1..Len(ring') PROVE ring'[k] = <<Current', Taken' + k>>
      <4>1. CASE k = Len(ring) + 1
        <5>1. Taken \in Nat BY DEF Inv, TypeOK, Taken
        <5>2. Taken + k = Held + 1 BY <2>5, <2>6, <4>1, <5>1
        <5> QED BY <1>6, <2>2, <2>5, <4>1, <5>2
      <4>2. CASE k # Len(ring) + 1
        <5>1. k \in 1..Len(ring) BY <2>5, <4>2
        <5> QED BY <1>6, <1>8, <2>5, <5>1
      <4> QED BY <4>1, <4>2
    <3>2. ASSUME NEW i \in 1..Len(wire'), wire'[i].kind = "frame"
          PROVE  wire'[i].frame = <<Current', Held' + FramesIn(wire', i)>>
      <4>1. i + 1 \in 1..Len(wire) /\ i \in 0..(Len(wire) - 1) BY <1>3
      <4>2. wire'[i].frame = <<Current, Held + FramesIn(wire, i + 1)>>
          BY <1>3, <1>8, <3>2, <4>1
      <4>3. FramesIn(wire, i + 1) \in Nat
        <5>1. i + 1 \in 0..Len(wire) BY <1>3, <4>1
        <5>2. FramesIn(wire, i + 1) \in 0..(i + 1) BY <1>1, <5>1, CountType
        <5> QED BY <5>1, <5>2
      <4>4. Held' + FramesIn(wire', i) = Held + FramesIn(wire, i + 1)
          BY <1>1, <1>4, <1>11, <2>6, <4>1, <4>3
      <4> QED BY <1>6, <4>2, <4>4
    <3>3. Held' + FramesOn(wire') = sending'.next - 1
        BY <1>1, <1>2, <1>4, <1>8, <1>11, <2>6 DEF Sending
    <3> QED BY <1>2, <1>6, <1>8, <3>1, <3>2, <3>3 DEF NumberInv
  <2>8. PageInv'
    <3>1. sending.page \in Nat /\ Page \in Nat BY <1>1, PageType DEF Sending
    <3>2. pc # "request" BY <1>1, <1>4, <2>2, <3>1 DEF Inv, PageInv
    <3>3. received' + FramesOn(wire') = received + FramesOn(wire)
        BY <1>1, <1>4, <1>11, <2>4
    <3>4. received' + FramesOn(wire') + sending'.page <= Page BY <1>2, <1>9, <3>3
    <3>5. Len(ring') <= received' BY <1>1, <1>9, <2>4, <2>5
    <3>6. pc' = "copied" => complete' \/ received' >= Page
        BY <1>1, <1>2, <2>4, <3>1 DEF Inv, PageInv
    <3> QED BY <1>2, <3>2, <3>4, <3>5, <3>6 DEF PageInv
  <2>9. ReplyInv'
    <3>1. ~IsReply(m) BY <1>11 DEF IsReply
    <3>2. pc = "stopping" => wire' # << >> \/ answer # "none"
      <4> SUFFICES ASSUME pc = "stopping", answer = "none", wire' = << >>
                   PROVE FALSE
          OBVIOUS
      <4>1. Len(wire) = 1 BY <1>3
      <4> QED BY <1>1, <1>3, <3>1, <4>1 DEF Inv, ReplyInv
    <3>3. pc = "stopping" => answer = "none"
        BY <1>1 DEF Inv, ReplyInv
    <3>4. pc = "stopping" => IsReply(wire'[Len(wire')])
      <4> SUFFICES ASSUME pc = "stopping" PROVE IsReply(wire'[Len(wire')]) OBVIOUS
      <4>1. IsReply(wire[Len(wire)]) BY <1>1, <3>3 DEF Inv, ReplyInv
      <4>2. Len(wire') >= 1 BY <1>3, <3>2, <3>3
      <4>3. Len(wire') \in 1..Len(wire') /\ Len(wire') + 1 = Len(wire) BY <1>3, <4>2
      <4> QED BY <1>3, <4>1, <4>3
    <3>5. ASSUME NEW i \in 1..Len(wire'), NEW j \in 1..Len(wire'),
                 IsReply(wire'[i]), IsReply(wire'[j])
          PROVE  i = j
      <4>1. i + 1 = j + 1 BY <1>1, <1>10, <3>5 DEF Inv, ReplyInv
      <4> QED BY <4>1
    <3>6. ASSUME pc \notin {"starting", "requesting", "stopping"} \/ answer # "none",
                 NEW i \in 1..Len(wire')
          PROVE  ~IsReply(wire'[i])
        BY <1>1, <1>10, <3>6 DEF Inv, ReplyInv
    <3>7. pc = "stopping" => ~sending.on BY <1>1 DEF Inv, ReplyInv
    <3> QED BY <1>2, <2>4, <3>2, <3>3, <3>4, <3>5, <3>6, <3>7 DEF ReplyInv
  <2> QED BY <1>7, <2>4, <2>7, <2>8, <2>9 DEF Moves
<1>12. CASE m.kind # "frame"
  <2>1. /\ UNCHANGED <<ring, received, dropped>>
        /\ complete => complete'
        /\ ~IsReply(m) => answer' = answer
        /\ IsReply(m) => answer' # "none"
    <3>1. CASE m.kind = "complete" BY <3>1 DEF Dispatch, m, IsReply
    <3>2. CASE m.kind \in {"ok", "refused"} BY <3>2 DEF Dispatch, m, IsReply
    <3> QED BY <1>5, <1>12, <3>1, <3>2
  <2>2. Held' = Held BY <1>6, <2>1 DEF Held
  <2>3. NumberInv'
    <3>1. ASSUME NEW i \in 1..Len(wire'), wire'[i].kind = "frame"
          PROVE  wire'[i].frame = <<Current', Held' + FramesIn(wire', i)>>
      <4>1. i + 1 \in 1..Len(wire) /\ i \in 0..(Len(wire) - 1) BY <1>3
      <4> QED BY <1>3, <1>4, <1>6, <1>8, <1>12, <2>2, <3>1, <4>1
    <3> QED BY <1>2, <1>4, <1>6, <1>8, <1>12, <2>1, <2>2, <3>1 DEF NumberInv
  <2>4. PageInv' BY <1>1, <1>2, <1>4, <1>12, <2>1 DEF Inv, PageInv
  <2>5. ReplyInv'
    <3>1. ASSUME NEW i \in 1..Len(wire'), NEW j \in 1..Len(wire'),
                 IsReply(wire'[i]), IsReply(wire'[j])
          PROVE  i = j
      <4>1. i + 1 = j + 1 BY <1>1, <1>10, <3>1 DEF Inv, ReplyInv
      <4> QED BY <4>1
    <3>2. ASSUME IsReply(m), NEW i \in 1..Len(wire') PROVE ~IsReply(wire'[i])
      <4> SUFFICES ASSUME IsReply(wire'[i]) PROVE FALSE OBVIOUS
      <4>1. 1 \in 1..Len(wire) /\ i + 1 # 1 BY <1>3
      <4> QED BY <1>1, <1>3, <1>10, <3>2, <4>1 DEF Inv, ReplyInv
    <3>3. ASSUME ~IsReply(m), NEW i \in 1..Len(wire'),
                 pc \notin {"starting", "requesting", "stopping"} \/ answer # "none"
          PROVE  ~IsReply(wire'[i])
        BY <1>1, <1>10, <3>3 DEF Inv, ReplyInv
    <3>4. ASSUME pc = "stopping"
          PROVE  /\ ~sending.on /\ answer = "none" /\ IsReply(wire[Len(wire)])
        BY <1>1, <3>4 DEF Inv, ReplyInv
    <3>5. ASSUME pc = "stopping", IsReply(m) PROVE wire' = << >>
      <4>1. 1 \in 1..Len(wire) /\ Len(wire) \in 1..Len(wire) BY <1>3
      <4>2. Len(wire) = 1 BY <1>1, <1>3, <3>4, <3>5, <4>1 DEF Inv, ReplyInv
      <4> QED BY <1>3, <4>2
    <3>6. ASSUME pc = "stopping", ~IsReply(m)
          PROVE  wire' # << >> /\ IsReply(wire'[Len(wire')])
      <4>1. Len(wire) # 1 BY <1>3, <3>4, <3>6
      <4>2. Len(wire') \in 1..Len(wire') /\ Len(wire') + 1 = Len(wire) BY <1>3, <4>1
      <4>3. wire'[Len(wire')] = wire[Len(wire)] BY <1>3, <4>2
      <4>4. wire' # << >> BY <4>2
      <4> QED BY <3>4, <3>6, <4>3, <4>4
    <3>7. CASE IsReply(m)
        BY <1>1, <1>2, <2>1, <3>1, <3>2, <3>4, <3>5, <3>7 DEF ReplyInv
    <3>8. CASE ~IsReply(m)
        BY <1>1, <1>2, <2>1, <3>1, <3>3, <3>4, <3>6, <3>8 DEF ReplyInv
    <3> QED BY <3>7, <3>8
  <2> QED BY <1>1, <1>7, <2>1, <2>3, <2>4, <2>5 DEF Moves
<1> QED BY <1>11, <1>12

LEMMA MovesStep == ASSUME Inv, [Next]_vars PROVE Moves'
<1>1. CASE dirty' \/ pc' \notin Transfer \cup {"verify"} BY <1>1, NoMoves
<1>2. CASE ~dirty' /\ pc' \in Transfer \cup {"verify"}
  <2> USE <1>2 DEF device, driver, tool, history, Transfer
  <2>1. CASE UNCHANGED vars \/ Delete \/ Signal \/ Unplug BY <2>1, OtherMoves
  <2>2. CASE GetCount \/ GetId \/ GetMeta \/ NextStore \/ Clear \/ Reset \/ Verify \/ Kill
      BY <2>2 DEF GetCount, GetId, GetMeta, NextStore, Clear, Reset, Verify, Kill
  <2>3. CASE Start BY <2>3, StartMoves DEF Start, Command
  <2>4. CASE Started \/ Loop \/ ReadTimeout \/ ReadFails \/ PageReset
                 \/ RequestRefused \/ Check \/ Stopped
    <3>1. ~dirty /\ pc \in Transfer
        BY <2>4 DEF Started, Loop, ReadTimeout, ReadFails, PageReset, RequestRefused,
                    Check, Stopped, Answered
    <3> QED BY <2>4, <3>1, ControlMoves
  <2>5. CASE CommandFails
    <3>1. pc \in {"request", "requesting", "check"} BY <2>5 DEF CommandFails
    <3>2. ~dirty
      <4>1. dirty' = (dirty \/ pc # "check") BY <2>5, <3>1 DEF CommandFails
      <4> QED BY <4>1, Zenon
    <3> QED BY <2>5, <3>1, <3>2, ControlMoves
  <2>6. CASE ReadCopy BY <2>6, CopyMoves DEF ReadCopy
  <2>7. CASE ReadDone \/ Requested BY <2>7, ReturnMoves DEF ReadDone, Requested
  <2>8. CASE Request \/ Stop BY <2>8, CommandMoves DEF Request, Stop, Command
  <2>9. CASE DeviceSendsFrame BY <2>9, SendMoves DEF DeviceSendsFrame
  <2>10. CASE DeviceCompletes BY <2>10, CompleteMoves DEF DeviceCompletes
  <2>11. CASE Dispatch BY <2>11, DispatchMoves DEF Dispatch
  <2> QED BY <2>1, <2>2, <2>3, <2>4, <2>5, <2>6, <2>7, <2>8, <2>9, <2>10, <2>11
          DEF Next, Tool
<1> QED BY <1>1, <1>2

(* A frame that finds the ring full is one of a page that was requested    *)
(* behind the tool's back.                                                 *)
LEMMA DroppedStep == ASSUME Inv, [Next]_vars PROVE ~dropped'
<1>1. CASE Dispatch
  <2>1. CASE ~dirty BY <1>1, <2>1, DispatchMoves
  <2>2. CASE dirty
    <3>1. dropped' = dropped \/ dropped' = (dropped \/ ~(Fits(ring) \/ dirty))
        BY <1>1 DEF Dispatch, Store
    <3> QED BY <2>2, <3>1, Zenon DEF Inv
  <2> QED BY <2>1, <2>2
<1>2. CASE ~Dispatch
  <2>1. dropped' = dropped
    <3> USE <1>2 DEF device, driver, tool, history
    <3>1. CASE UNCHANGED vars BY <3>1 DEF vars
    <3>2. CASE GetCount \/ GetId \/ GetMeta \/ NextStore \/ Clear \/ Reset
        BY <3>2 DEF GetCount, GetId, GetMeta, NextStore, Clear, Reset
    <3>3. CASE Start \/ Request \/ Stop BY <3>3 DEF Start, Request, Stop, Command
    <3>4. CASE Started \/ Loop \/ ReadCopy \/ ReadFails \/ ReadDone \/ ReadTimeout
        BY <3>4 DEF Started, Loop, ReadCopy, ReadFails, ReadDone, ReadTimeout
    <3>5. CASE PageReset \/ Requested \/ RequestRefused \/ Check \/ Stopped \/ Verify
        BY <3>5 DEF PageReset, Requested, RequestRefused, Check, Stopped, Verify
    <3>6. CASE CommandFails BY <3>6 DEF CommandFails
    <3>7. CASE DeviceSendsFrame \/ DeviceCompletes
        BY <3>7 DEF DeviceSendsFrame, DeviceCompletes
    <3>8. CASE Delete \/ Signal \/ Kill \/ Unplug
        BY <3>8 DEF Delete, Signal, Kill, Unplug
    <3> QED BY <3>1, <3>2, <3>3, <3>4, <3>5, <3>6, <3>7, <3>8 DEF Next, Tool
  <2> QED BY <2>1 DEF Inv
<1> QED BY <1>1, <1>2

-----------------------------------------------------------------------------
(* What the tool waits for is to come                                      *)

OnWire(k) == \E i \in 1..Len(wire) : wire[i].kind = k

(* While the tool reads, the end of the transfer was noted, is on the wire *)
(* or is owed by the device.                                               *)
EndInv ==
    ~dirty /\ pc \in Transfer \ {"stop", "stopping"} =>
        complete \/ OnWire("complete") \/ (sending.on /\ ~sending.ended)

(* While a page is requested, as far as it was neither received nor sent   *)
(* the device owes it; the request counts once it is accepted.             *)
OweInv ==
    /\ ~dirty
    /\ \/ pc \in {"starting", "loop", "wait", "copied", "check"}
       \/ pc = "requesting" /\ (answer = "ok" \/ OnWire("ok"))
    => received + FramesOn(wire) + sending.page = Page

OweInvs == Inv /\ EndInv /\ OweInv

(* A message at the end is on the wire besides those that were there.      *)
LEMMA WireAppend ==
    ASSUME wire \in Seq(Message), NEW m \in Message, wire' = Append(wire, m), NEW k
    PROVE  OnWire(k)' <=> m.kind = k \/ OnWire(k)
<1> HIDE DEF Message
<1>1. /\ Len(wire') = Len(wire) + 1 /\ Len(wire) \in Nat
      /\ wire'[Len(wire) + 1] = m
      /\ \A i \in 1..Len(wire) : wire'[i] = wire[i]
    OBVIOUS
<1>2. ASSUME OnWire(k) PROVE OnWire(k)'
  <2>1. PICK i \in 1..Len(wire) : wire[i].kind = k BY <1>2 DEF OnWire
  <2>2. i \in 1..Len(wire') /\ wire'[i] = wire[i] BY <1>1, <2>1
  <2> QED BY <2>1, <2>2 DEF OnWire
<1>3. ASSUME m.kind = k PROVE OnWire(k)'
  <2>1. Len(wire) + 1 \in 1..Len(wire') BY <1>1
  <2> QED BY <1>1, <1>3, <2>1 DEF OnWire
<1>4. ASSUME OnWire(k)' PROVE m.kind = k \/ OnWire(k)
  <2>1. PICK i \in 1..Len(wire') : wire'[i].kind = k BY <1>4 DEF OnWire
  <2>2. i = Len(wire) + 1 \/ i \in 1..Len(wire) BY <1>1
  <2> QED BY <1>1, <2>1, <2>2 DEF OnWire
<1> QED BY <1>2, <1>3, <1>4

(* When the first message leaves, the others stay.                         *)
LEMMA WireTail ==
    ASSUME wire \in Seq(Message), wire # << >>, wire' = Tail(wire), NEW k
    PROVE  OnWire(k) <=> Head(wire).kind = k \/ OnWire(k)'
<1> HIDE DEF Message
<1>1. /\ Head(wire) = wire[1] /\ Len(wire') = Len(wire) - 1
      /\ \A i \in 1..Len(wire') : wire'[i] = wire[i + 1]
      /\ Len(wire) \in Nat /\ Len(wire) >= 1
    BY Rest
<1>2. ASSUME OnWire(k) PROVE Head(wire).kind = k \/ OnWire(k)'
  <2>1. PICK i \in 1..Len(wire) : wire[i].kind = k BY <1>2 DEF OnWire
  <2>2. CASE i = 1 BY <1>1, <2>1, <2>2
  <2>3. CASE i # 1
    <3>1. i - 1 \in 1..Len(wire') /\ (i - 1) + 1 = i BY <1>1, <2>3
    <3>2. wire'[i - 1] = wire[i] BY <1>1, <3>1
    <3> QED BY <2>1, <3>1, <3>2 DEF OnWire
  <2> QED BY <2>2, <2>3
<1>3. ASSUME Head(wire).kind = k PROVE OnWire(k)
  <2>1. 1 \in 1..Len(wire) BY <1>1
  <2> QED BY <1>1, <1>3, <2>1 DEF OnWire
<1>4. ASSUME OnWire(k)' PROVE OnWire(k)
  <2>1. PICK i \in 1..Len(wire') : wire'[i].kind = k BY <1>4 DEF OnWire
  <2>2. i + 1 \in 1..Len(wire) /\ wire'[i] = wire[i + 1] BY <1>1
  <2> QED BY <2>1, <2>2 DEF OnWire
<1> QED BY <1>2, <1>3, <1>4

LEMMA OweTypes ==
    ASSUME Inv
    PROVE  /\ wire \in Seq(Message) /\ sending \in Sending
           /\ received \in Nat /\ FramesOn(wire) \in Nat
           /\ sending.page \in Nat /\ Page \in Nat
<1> HIDE DEF Page, Message
<1>1. wire \in Seq(Message) /\ sending \in Sending /\ received \in Nat
    BY DEF Inv, TypeOK
<1> QED BY <1>1, CountOn, PageType DEF Sending

(* Steps that leave the transfer and the page alone.                       *)
LEMMA OweRest ==
    ASSUME EndInv, OweInv,
           ~dirty' => ~dirty,
           UNCHANGED <<sending, wire, received, complete, answer>>,
           pc' \in Transfer \ {"stop", "stopping"} =>
               pc \in Transfer \ {"stop", "stopping"},
           pc' \in {"starting", "loop", "wait", "copied", "check", "requesting"} =>
               \/ pc' = pc
               \/ pc \in {"starting", "loop", "wait", "copied", "check"}
               \/ pc = "requesting" /\ answer = "ok"
    PROVE  EndInv' /\ OweInv'
<1>1. OnWire("ok")' = OnWire("ok") /\ OnWire("complete")' = OnWire("complete")
    BY DEF OnWire
<1>2. EndInv' BY <1>1 DEF EndInv
<1>3. OweInv' BY <1>1 DEF OweInv
<1> QED BY <1>2, <1>3

(* A transfer begins with a whole page to come.                            *)
LEMMA OweStart == ASSUME Inv, ~dirty, Start PROVE EndInv' /\ OweInv'
<1> HIDE DEF Page
<1>1. wire = << >> /\ received = 0 BY DEF Inv, Start, IdleInv, Transfer
<1>2. /\ wire' = Append(wire, [kind |-> "ok"]) /\ received' = received
      /\ sending'.on /\ ~sending'.ended /\ sending'.page = Page
    BY DEF Start, Command, driver
<1>3. FramesOn(wire') = 0
  <2>1. << >> \in Seq(Message) /\ [kind |-> "ok"] \in Message BY Messages
  <2> QED BY <1>1, <1>2, <2>1, CountAppend, CountEmpty
<1>4. EndInv' BY <1>2 DEF EndInv
<1>5. OweInv' BY <1>1, <1>2, <1>3, PageType DEF OweInv
<1> QED BY <1>4, <1>5

(* The request is made when nothing is left of the page before; a request  *)
(* that is refused is not answered with "ok".                              *)
LEMMA OweRequest == ASSUME OweInvs, ~dirty, Request PROVE EndInv' /\ OweInv'
<1> HIDE DEF Page, Message
<1>1. /\ pc = "request" /\ pc' = "requesting" /\ answer' = "none"
      /\ UNCHANGED <<received, complete>>
      /\ sending'.on = sending.on /\ sending'.ended = sending.ended
    BY OweTypes DEF Request, Command, driver, OweInvs, Sending
<1>2. PICK r \in {"ok", "refused"} :
          wire' = Append(wire, [kind |-> r]) /\ (r = "ok" => sending'.page = Page)
    BY OweTypes DEF Request, Command, OweInvs, Sending
<1>3. [kind |-> r] \in Message /\ [kind |-> r].kind = r BY Messages
<1>4. /\ wire \in Seq(Message) /\ FramesOn(wire) \in Nat /\ sending.page \in Nat
      /\ Page \in Nat
    BY OweTypes DEF OweInvs
<1>5. FramesOn(wire) = 0 /\ received = 0
    BY <1>1, <1>4 DEF OweInvs, Inv, PageInv, Transfer
<1>6. FramesOn(wire') = 0 BY <1>2, <1>3, <1>4, <1>5, CountAppend
<1>7. ~OnWire("ok")
    BY <1>1 DEF OweInvs, Inv, ReplyInv, IsReply, OnWire, Transfer
<1>8. /\ OnWire("complete") => OnWire("complete")'
      /\ OnWire("ok")' <=> r = "ok" \/ OnWire("ok")
    BY <1>2, <1>3, <1>4, WireAppend
<1>9. EndInv' BY <1>1, <1>8 DEF OweInvs, EndInv, Transfer
<1>10. OweInv' BY <1>1, <1>2, <1>4, <1>5, <1>6, <1>7, <1>8 DEF OweInv
<1> QED BY <1>9, <1>10

(* What the device sends was owed, and is on the wire then.                *)
LEMMA OweSend ==
    ASSUME OweInvs, ~dirty, DeviceSendsFrame \/ DeviceCompletes
    PROVE  EndInv' /\ OweInv'
<1> HIDE DEF Page, Message, FrameSet
<1>1. UNCHANGED <<received, complete, answer, pc, dirty>>
    BY DEF DeviceSendsFrame, DeviceCompletes, driver, history
<1>2. /\ wire \in Seq(Message) /\ FramesOn(wire) \in Nat /\ sending.page \in Nat
      /\ sending \in Sending /\ received \in Nat /\ Page \in Nat
    BY OweTypes DEF OweInvs
<1>3. CASE DeviceSendsFrame
  <2> DEFINE m == [kind |-> "frame", frame |-> <<sending.id, sending.next>>]
  <2>1. wire' = Append(wire, m) BY <1>3 DEF DeviceSendsFrame
  <2>2. m \in Message /\ m.kind = "frame"
    <3>1. <<sending.id, sending.next>> \in FrameSet BY <1>2 DEF FrameSet, Sending
    <3> QED BY <3>1, Messages
  <2> HIDE DEF m
  <2>3. /\ sending'.on = sending.on /\ sending'.ended = sending.ended
        /\ sending'.page = sending.page - 1
      BY <1>2, <1>3 DEF DeviceSendsFrame, Sending
  <2>4. FramesOn(wire') = FramesOn(wire) + 1 BY <1>2, <2>1, <2>2, CountAppend
  <2>5. /\ OnWire("complete") => OnWire("complete")'
        /\ OnWire("ok")' <=> OnWire("ok")
      BY <1>2, <2>1, <2>2, WireAppend
  <2>6. EndInv' BY <1>1, <2>3, <2>5 DEF OweInvs, EndInv
  <2>7. received' + FramesOn(wire') + sending'.page =
            received + FramesOn(wire) + sending.page
      BY <1>1, <1>2, <2>3, <2>4
  <2>8. OweInv' BY <1>1, <2>5, <2>7 DEF OweInvs, OweInv
  <2> QED BY <2>6, <2>8
<1>4. CASE DeviceCompletes
  <2> DEFINE m == [kind |-> "complete"]
  <2>1. wire' = Append(wire, m) BY <1>4 DEF DeviceCompletes
  <2>2. m \in Message /\ m.kind = "complete" BY Messages
  <2> HIDE DEF m
  <2>3. sending'.page = sending.page BY <1>2, <1>4 DEF DeviceCompletes, Sending
  <2>4. FramesOn(wire') = FramesOn(wire) BY <1>2, <2>1, <2>2, CountAppend
  <2>5. OnWire("complete")' /\ (OnWire("ok")' <=> OnWire("ok"))
      BY <1>2, <2>1, <2>2, WireAppend
  <2>6. EndInv' BY <2>5 DEF EndInv
  <2>7. OweInv' BY <1>1, <2>3, <2>4, <2>5 DEF OweInvs, OweInv
  <2> QED BY <2>6, <2>7
<1> QED BY <1>3, <1>4

(* A frame that is dispatched was on the wire and is received; the end of  *)
(* the transfer is noted, and an answer is the answer.                     *)
LEMMA OweDispatch == ASSUME OweInvs, ~dirty, Dispatch PROVE EndInv' /\ OweInv'
<1> HIDE DEF Page, Message
<1>1. wire # << >> /\ wire' = Tail(wire) /\ UNCHANGED <<sending, pc, dirty>>
    BY DEF Dispatch, device, history
<1>2. /\ wire \in Seq(Message) /\ FramesOn(wire) \in Nat /\ sending.page \in Nat
      /\ received \in Nat /\ Page \in Nat
    BY OweTypes DEF OweInvs
<1> DEFINE m == Head(wire)
<1>3. m.kind \in {"frame", "ok", "refused", "complete"}
  <2>1. m \in Message BY <1>1, <1>2, Rest
  <2> QED BY <2>1, Messages
<1>4. FramesOn(wire') = IF m.kind = "frame" THEN FramesOn(wire) - 1 ELSE FramesOn(wire)
    BY <1>1, <1>2, CountOn
<1>5. \A k \in {"ok", "complete"} : OnWire(k) <=> m.kind = k \/ OnWire(k)'
    BY <1>1, <1>2, WireTail
<1> HIDE DEF m
<1>6. CASE m.kind = "frame"
  <2>1. Store(m.frame) BY <1>6 DEF Dispatch, m
  <2>2. Fits(ring)
    <3>1. ~dropped' BY DispatchMoves DEF OweInvs
    <3>2. dropped' = (dropped \/ ~(Fits(ring) \/ dirty)) BY <2>1 DEF Store
    <3> QED BY <3>1, <3>2, Zenon
  <2>3. received' = received + 1 /\ UNCHANGED <<complete, answer>>
      BY <2>1, <2>2 DEF Store
  <2>4. received' + FramesOn(wire') = received + FramesOn(wire)
      BY <1>2, <1>4, <1>6, <2>3
  <2>5. EndInv' BY <1>1, <1>5, <1>6, <2>3 DEF OweInvs, EndInv
  <2>6. OweInv' BY <1>1, <1>5, <1>6, <2>3, <2>4 DEF OweInvs, OweInv
  <2> QED BY <2>5, <2>6
<1>7. CASE m.kind = "complete"
  <2>1. complete' /\ UNCHANGED <<received, answer>> BY <1>7 DEF Dispatch, m
  <2>2. EndInv' BY <2>1 DEF EndInv
  <2>3. OweInv' BY <1>1, <1>4, <1>5, <1>7, <2>1 DEF OweInvs, OweInv
  <2> QED BY <2>2, <2>3
<1>8. CASE m.kind \in {"ok", "refused"}
  <2>1. answer' = m.kind /\ UNCHANGED <<received, complete>> BY <1>8 DEF Dispatch, m
  <2>2. EndInv' BY <1>1, <1>5, <1>8, <2>1 DEF OweInvs, EndInv
  <2>3. OweInv' BY <1>1, <1>4, <1>5, <1>8, <2>1 DEF OweInvs, OweInv
  <2> QED BY <2>2, <2>3
<1> QED BY <1>3, <1>6, <1>7, <1>8

LEMMA OweInit == Init => EndInv /\ OweInv
BY DEF Init, EndInv, OweInv, Transfer

LEMMA OweStep == ASSUME OweInvs, [Next]_vars PROVE EndInv' /\ OweInv'
<1> USE DEF device, driver, tool, history, Transfer
<1> HIDE DEF Page
<1>1. CASE UNCHANGED vars \/ Delete \/ Signal \/ Unplug
    BY <1>1, OweRest DEF OweInvs, vars, Delete, Signal, Unplug
<1>2. CASE GetCount \/ GetId \/ GetMeta \/ NextStore \/ Clear \/ Reset \/ Kill
    BY <1>2 DEF GetCount, GetId, GetMeta, NextStore, Clear, Reset, Kill, EndInv, OweInv
<1>3. CASE ReadFails \/ PageReset \/ RequestRefused \/ Stop \/ Stopped \/ Verify
  <2>1. CASE PageReset
    <3>1. EndInv' BY <2>1 DEF PageReset, OweInvs, EndInv, OnWire
    <3>2. OweInv' BY <2>1 DEF PageReset, OweInv
    <3> QED BY <3>1, <3>2
  <2>2. CASE ReadFails \/ RequestRefused \/ Stop \/ Stopped \/ Verify
      BY <2>2 DEF ReadFails, RequestRefused, Stop, Command, Stopped, Verify, EndInv,
                  OweInv
  <2> QED BY <1>3, <2>1, <2>2
<1>4. CASE Start
  <2>1. CASE ~dirty BY <1>4, <2>1, OweStart DEF OweInvs
  <2>2. CASE dirty BY <1>4, <2>2 DEF Start, Command, EndInv, OweInv
  <2> QED BY <2>1, <2>2
<1>5. CASE Started \/ Loop \/ ReadCopy \/ ReadDone \/ ReadTimeout \/ Requested \/ Check
  <2>1. UNCHANGED <<sending, wire, received, complete, answer, dirty>>
      BY <1>5 DEF Started, Loop, ReadCopy, ReadDone, ReadTimeout, Requested, Check
  <2>2. \/ pc \in {"starting", "loop", "wait", "copied", "check"}
        \/ pc = "requesting" /\ answer = "ok"
      BY <1>5 DEF Started, Answered, Loop, ReadCopy, ReadDone, ReadTimeout, Requested,
                  Check
  <2> QED BY <2>1, <2>2, OweRest DEF OweInvs
<1>6. CASE CommandFails
    BY <1>6 DEF CommandFails, EndInv, OweInv
<1>7. CASE Request \/ DeviceSendsFrame \/ DeviceCompletes \/ Dispatch
  <2>1. dirty' = dirty
      BY <1>7 DEF Request, Command, DeviceSendsFrame, DeviceCompletes, Dispatch
  <2>2. CASE dirty BY <2>1, <2>2 DEF EndInv, OweInv
  <2>3. CASE ~dirty BY <1>7, <2>3, OweRequest, OweSend, OweDispatch
  <2> QED BY <2>2, <2>3
<1> QED BY <1>1, <1>2, <1>3, <1>4, <1>5, <1>6, <1>7 DEF Next, Tool

-----------------------------------------------------------------------------
(* Theorems                                                                *)

THEOREM InvInit == Init => Inv
<1> SUFFICES ASSUME Init PROVE Inv OBVIOUS
<1>1. TypeOK BY TypeInit
<1>2. ListInv /\ IdleInv /\ BufferInv /\ SuccessInv
    BY DEF Init, ListInv, IdleInv, BufferInv, SuccessInv, Reading, Transfer, Off
<1>3. TakenInv /\ NumberInv /\ PageInv /\ ReplyInv
    BY DEF Init, TakenInv, NumberInv, PageInv, ReplyInv, Transfer
<1>4. ~dropped BY DEF Init
<1> QED BY <1>1, <1>2, <1>3, <1>4 DEF Inv

THEOREM InvStep == Inv /\ [Next]_vars => Inv'
<1> SUFFICES ASSUME Inv, [Next]_vars PROVE Inv' OBVIOUS
<1> USE DEF Inv
<1>1. TypeOK' /\ ListInv' BY TypeStep, ListStep
<1>2. IdleInv' /\ BufferInv' /\ SuccessInv' BY IdleStep, BufferStep, SuccessStep
<1>3. Moves' BY MovesStep
<1>4. ~dropped' BY DroppedStep
<1> QED BY <1>1, <1>2, <1>3, <1>4 DEF Moves

THEOREM Invariance == Spec => []Inv
BY InvInit, InvStep, PTL DEF Spec

(* The ring holds at most a page, the messages are messages, and the store *)
(* that is read is one of the list.                                        *)
THEOREM TypeCorrect == Spec => []TypeOK
<1>1. Inv => TypeOK BY DEF Inv
<1> QED BY <1>1, Invariance, PTL

(* read_store_data reads the store from its first frame on, without a gap, *)
(* a repetition or a frame of another store, and reports success only when *)
(* it has read all of it.                                                  *)
THEOREM StoreIsRead == Spec => []ReadsTheStore
<1>1. Inv => ReadsTheStore
  <2> SUFFICES ASSUME Inv PROVE ReadsTheStore OBVIOUS
  <2> HIDE DEF FrameSet, Page, Message
  <2>1. got \in Seq(FrameSet) /\ buffer \in Seq(FrameSet) /\ ids \in Seq(Ids)
      BY DEF Inv, TypeOK
  <2>2. /\ Len(got) \in Nat /\ Len(buffer) \in Nat
        /\ got \o buffer \in Seq(FrameSet)
        /\ Len(got \o buffer) = Len(got) + Len(buffer)
        /\ \A k \in 1..(Len(got) + Len(buffer)) :
               (got \o buffer)[k] = IF k <= Len(got) THEN got[k]
                                    ELSE buffer[k - Len(got)]
      BY <2>1, ConcatProperties
  <2>3. ASSUME ~dirty, pc \in Transfer \cup {"verify"}
        PROVE  /\ got \o buffer = Expected(Len(got) + Len(buffer))
               /\ got = Expected(Len(got)) /\ Len(got) <= Frames[Current]
    <3>1. /\ \A k \in 1..Len(got) : got[k] = <<Current, k>>
          /\ \A k \in 1..Len(buffer) : buffer[k] = <<Current, Len(got) + k>>
          /\ Len(got) + Len(buffer) <= Frames[Current]
        BY <2>3 DEF Inv, TakenInv, Taken
    <3>2. Current \in Ids /\ Frames[Current] \in Nat
        BY <2>3, CurrentType DEF Inv, Reading
    <3>3. ASSUME NEW n \in Nat, NEW s \in Seq(FrameSet), Len(s) = n,
                 \A k \in 1..n : s[k] = <<Current, k>>
          PROVE  s = Expected(n)
      <4>1. s = [k \in 1..n |-> s[k]] BY <3>3
      <4> QED BY <3>3, <4>1 DEF Expected
    <3>4. \A k \in 1..(Len(got) + Len(buffer)) : (got \o buffer)[k] = <<Current, k>>
      <4> SUFFICES ASSUME NEW k \in 1..(Len(got) + Len(buffer))
                   PROVE (got \o buffer)[k] = <<Current, k>>
          OBVIOUS
      <4>1. CASE k <= Len(got) BY <2>2, <3>1, <4>1
      <4>2. CASE k > Len(got)
        <5>1. k - Len(got) \in 1..Len(buffer) /\ Len(got) + (k - Len(got)) = k
            BY <2>2, <4>2
        <5> QED BY <2>2, <3>1, <4>2, <5>1
      <4> QED BY <2>2, <4>1, <4>2
    <3>5. got \o buffer = Expected(Len(got) + Len(buffer))
      <4>1. Len(got) + Len(buffer) \in Nat BY <2>2
      <4> QED BY <2>2, <3>3, <3>4, <4>1
    <3>6. got = Expected(Len(got)) BY <2>1, <2>2, <3>1, <3>3
    <3> QED BY <2>2, <3>1, <3>2, <3>5, <3>6
  <2>4. ASSUME pc = "verify", ~failed, ~stop_requested
        PROVE  Len(got) >= Frames[Current] /\ (~dirty => got = Expected(Frames[Current]))
    <3>1. Len(got) >= Frames[Current] BY <2>4 DEF Inv, SuccessInv
    <3>2. Frames[Current] \in Nat BY <2>4, CurrentType DEF Inv, Reading
    <3>3. ~dirty => Len(got) = Frames[Current] BY <2>2, <2>3, <2>4, <3>1, <3>2
    <3> QED BY <2>3, <2>4, <3>1, <3>3
  <2> QED BY <2>3, <2>4 DEF ReadsTheStore, Transfer
<1> QED BY <1>1, Invariance, PTL

(* What is requested, on the wire and received is never more than a page:  *)
(* the wait for a whole page ends with this page, and it fits the ring.    *)
THEOREM PageIsAlone == Spec => []OnePageAtATime
<1>1. Inv => OnePageAtATime BY DEF Inv, OnePageAtATime, PageInv, Transfer
<1> QED BY <1>1, Invariance, PTL

(* The ids of GET_STORE_DATA_ID_LIST are those at the time of the count.   *)
THEOREM ListIsTheCount == Spec => []ListIsFaithful
<1>1. Inv => ListIsFaithful BY DEF Inv, ListIsFaithful, ListInv, Reading
<1> QED BY <1>1, Invariance, PTL

(* No READ waits in vain: as long as a page has not arrived something of   *)
(* it is on the wire or the device has yet to send, whatever pages, reads  *)
(* that time out, refused requests and stores came before.                 *)
THEOREM PageWaitsAreServed == Spec => []WaitIsServed
<1>1. Init => EndInv /\ OweInv BY OweInit
<1>2. Inv /\ EndInv /\ OweInv /\ [Next]_vars => EndInv' /\ OweInv'
    BY OweStep DEF OweInvs
<1>3. Inv /\ EndInv /\ OweInv => WaitIsServed
  <2> SUFFICES ASSUME Inv, EndInv, OweInv, ~dirty, pc = "wait", ~ReadEnable, wire = << >>
               PROVE DeviceOwes
      BY DEF WaitIsServed
  <2> HIDE DEF Page
  <2>1. ~complete /\ ~(received >= Page) BY DEF ReadEnable
  <2>2. ~OnWire("complete") BY DEF OnWire
  <2>3. sending.on /\ ~sending.ended BY <2>1, <2>2 DEF EndInv, Transfer
  <2>4. FramesOn(wire) = 0 BY CountEmpty
  <2>5. received \in Nat /\ sending.page \in Nat /\ Page \in Nat BY OweTypes
  <2>6. received + FramesOn(wire) + sending.page = Page BY DEF OweInv
  <2>7. sending.page > 0 BY <2>1, <2>4, <2>5, <2>6
  <2> QED BY <2>3, <2>7 DEF DeviceOwes
<1> QED BY <1>1, <1>2, <1>3, Invariance, PTL DEF Spec
=============================================================================
