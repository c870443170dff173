----------------------------- MODULE RingBuffer -----------------------------
(***************************************************************************)
(* data_structures/ring-buffer.c between one producer and one consumer.    *)
(* A call is cut where the other side can come in between: the test of the *)
(* indices, the copy word by word, the store of the index.  The storage    *)
(* holds elements of Words words; an element is whole when all its words   *)
(* come from one write.  Masking with a power of two less one is % here.   *)
(***************************************************************************)
EXTENDS Integers, Sequences

CONSTANTS Value,       \* what a producer writes into all words of an element
          Words,       \* words of an element, copied one at a time
          Capacity,    \* slots
          OnFull,      \* what callers ask of ring_buffer_write for a full
                       \* buffer: overwrite, "EVICT", or not, "REFUSE"
          Guarded      \* a caller that overwrites or flushes shuts the other
                       \* side out meanwhile

ASSUME RingAssumption ==
  /\ Value # {}
  /\ Words \in Nat \ {0}
  /\ Capacity \in Nat \ {0}
  /\ OnFull \subseteq {"EVICT", "REFUSE"} /\ Guarded \in BOOLEAN

VARIABLES slot, head, tail,
          w,      \* the producer's call: where it is, what it asked for,
                  \* its value, words copied
          r,      \* the consumer's call: where it is, its slot, what it copied
          res     \* how the last call ended

ringVars == <<slot, head, tail, w, r, res>>

Index == 0 .. Capacity - 1
Element == [1 .. Words -> Value]
Whole(v) == [k \in 1 .. Words |-> v]

WIdle == [pc |-> "IDLE", onFull |-> "REFUSE"]
RIdle == [pc |-> "IDLE"]

RingTypeOK ==
  /\ slot \in [Index -> Element]
  /\ head \in Index /\ tail \in Index
  /\ w \in {WIdle} \cup
            [pc : {"EVICT", "COPY"}, onFull : {"EVICT", "REFUSE"}, value : Value, n : 0 .. Words]
  /\ r \in {RIdle} \cup [pc : {"COPY"}, index : Index, n : 0 .. Words, copy : Element]
  /\ res \in {<<"NONE">>, <<"PUT">>, <<"FULL">>, <<"EMPTY">>}
             \cup {<<"GOT", e>> : e \in Element}

RingInit ==
  /\ slot = [i \in Index |-> Whole(CHOOSE v \in Value : TRUE)]
  /\ head = 0 /\ tail = 0
  /\ w = WIdle /\ r = RIdle
  /\ res = <<"NONE">>

(* rb->mask is capacity - 1.                                               *)
NextIndex(i) == (i + 1) % Capacity

IsEmpty == head = tail
IsFull == NextIndex(head) = tail

-----------------------------------------------------------------------------
(* ring_buffer_write.                                                      *)
WriteBegin(v, onFull) ==
  /\ w = WIdle
  /\ Guarded /\ onFull = "EVICT" => r = RIdle
  /\ \/ /\ ~ IsFull
        /\ w' = [pc |-> "COPY", onFull |-> onFull, value |-> v, n |-> 0]
        /\ UNCHANGED res
     \/ /\ IsFull /\ onFull = "EVICT"
        /\ w' = [pc |-> "EVICT", onFull |-> onFull, value |-> v, n |-> 0]
        /\ UNCHANGED res
     \/ /\ IsFull /\ onFull = "REFUSE"
        /\ res' = <<"FULL">>
        /\ UNCHANGED w
  /\ UNCHANGED <<slot, head, tail, r>>

WriteEvict ==
  /\ w.pc = "EVICT"
  /\ tail' = NextIndex(tail)
  /\ w' = [w EXCEPT !.pc = "COPY"]
  /\ UNCHANGED <<slot, head, r, res>>

WriteWord ==
  /\ w.pc = "COPY" /\ w.n < Words
  /\ slot' = [slot EXCEPT ![head][w.n + 1] = w.value]
  /\ w' = [w EXCEPT !.n = @ + 1]
  /\ UNCHANGED <<head, tail, r, res>>

WritePublishShort ==
  /\ w.pc = "COPY" /\ w.n = Words - 1
  /\ head' = NextIndex(head)
  /\ w' = WIdle
  /\ res' = <<"PUT">>
  /\ UNCHANGED <<slot, tail, r>>

WritePublish ==
  /\ w.pc = "COPY" /\ w.n = Words
  /\ head' = NextIndex(head)
  /\ w' = WIdle
  /\ res' = <<"PUT">>
  /\ UNCHANGED <<slot, tail, r>>

(* ring_buffer_read.                                                       *)
ReadBegin ==
  /\ r = RIdle
  /\ ~ (Guarded /\ w.onFull = "EVICT")
  /\ \/ /\ IsEmpty
        /\ res' = <<"EMPTY">>
        /\ UNCHANGED r
     \/ /\ ~ IsEmpty
        /\ r' = [pc |-> "COPY", index |-> tail, n |-> 0, copy |-> slot[tail]]
        /\ UNCHANGED res
  /\ UNCHANGED <<slot, head, tail, w>>

ReadWord ==
  /\ r.pc = "COPY" /\ r.n < Words
  /\ r' = [r EXCEPT !.n = @ + 1, !.copy[r.n + 1] = slot[r.index][r.n + 1]]
  /\ UNCHANGED <<slot, head, tail, w, res>>

(* The fields are not volatile: the compiler may load tail again for the   *)
(* increment or go on with the value it has.                               *)
ReadPublish ==
  /\ r.pc = "COPY" /\ r.n = Words
  /\ tail' \in {NextIndex(tail), NextIndex(r.index)}
  /\ r' = RIdle
  /\ res' = <<"GOT", r.copy>>
  /\ UNCHANGED <<slot, head, w>>

(* ring_buffer_flush, which writes both indices: for one side alone, the   *)
(* other shut out.                                                         *)
Flush ==
  /\ Guarded /\ w = WIdle /\ r = RIdle
  /\ head' = 0 /\ tail' = 0
  /\ res' = <<"NONE">>
  /\ UNCHANGED <<slot, w, r>>

Write ==
  (\E v \in Value, onFull \in OnFull : WriteBegin(v, onFull))
    \/ WriteEvict \/ WriteWord \/ WritePublish
Read == ReadBegin \/ ReadWord \/ ReadPublish

RingNext == Write \/ Read \/ Flush

RingSpec == RingInit /\ [][RingNext]_ringVars

-----------------------------------------------------------------------------
(* The two sides never touch one slot at a time: the slot that is kept     *)
(* free between tail and head keeps the copies apart.                      *)
SidesKeepApart ==
  w.pc = "COPY" /\ r.pc = "COPY" => r.index # head

(* A published slot is a whole element.                                    *)
Count == (head - tail) % Capacity
Stored == [i \in 1 .. Count |-> slot[(tail + i - 1) % Capacity]]

BF == INSTANCE BoundedFifo WITH
        Element <- {Whole(v) : v \in Value}, Room <- Capacity - 1,
        Evicts <- "EVICT" \in OnFull, queue <- Stored

(* The calls, cut as they are, implement a bounded queue: elements come    *)
(* out whole, once and in order, FULL is answered only when Capacity - 1   *)
(* elements are stored and EMPTY only when none is.                        *)
ImplementsBoundedFifo == BF!Spec

-----------------------------------------------------------------------------
(* ring-buffer.h 13: "Safe for single-producer/single-consumer use (e.g.   *)
(* an ISR writing, the main loop reading)", so what is read is an element  *)
(* somebody wrote.  A write that overwrites moves the consumer's index and *)
(* then its slot under a read that is under way.                           *)
ReadsWholeElements ==
  res[1] = "GOT" => \E v \in Value : res[2] = Whole(v)
=============================================================================
