---------------------------- MODULE PartsProofs ----------------------------
(***************************************************************************)
(* What holds of the parts a received byte goes through, each on its own:  *)
(* the queue, the parser and the checksum.  The three share no variable,   *)
(* and no proof of one uses the assumptions of another.                    *)
(***************************************************************************)
EXTENDS RingBuffer, FrameParser, CrcLink, SequenceTheorems, FiniteSetTheorems,
        WellFoundedInduction, TLAPS

-----------------------------------------------------------------------------
(* THE QUEUE.  The ring buffer implements a bounded queue for every        *)
(* capacity, element size and set of values, however its two sides         *)
(* interleave, as long as nobody overwrites, or whoever does shuts the     *)
(* consumer out meanwhile and the buffer has a slot to spare.              *)
NoRace == "EVICT" \notin OnFull \/ (Guarded /\ Capacity > 1)

(* Arithmetic of the indices, without %.                                   *)
Wrap(x) == IF x < Capacity THEN x ELSE x - Capacity
Held == IF tail <= head THEN head - tail ELSE head - tail + Capacity
Place(i) == Wrap(tail + i - 1)

LEMMA ModSmall ==
  ASSUME NEW x \in Int, NEW c \in Nat \ {0}
  PROVE  /\ 0 <= x /\ x < c => x % c = x
         /\ c <= x /\ x < 2 * c => x % c = x - c
         /\ -c <= x /\ x < 0 => x % c = x + c
  OBVIOUS

LEMMA WrapIsMod ==
  ASSUME NEW x \in Int, 0 <= x, x < 2 * Capacity
  PROVE  x % Capacity = Wrap(x)
<1>1. Capacity \in Nat
  BY RingAssumption
<1>2. Capacity > 0
  BY RingAssumption
<1> QED
  BY <1>1, <1>2, ModSmall DEF Wrap

LEMMA DifferenceMod ==
  ASSUME NEW x \in Int, NEW y \in Int, 0 <= x, x < Capacity, 0 <= y, y < Capacity
  PROVE  (x - y) % Capacity = IF y <= x THEN x - y ELSE x - y + Capacity
<1>1. Capacity \in Nat
  BY RingAssumption
<1>2. Capacity > 0
  BY RingAssumption
<1> QED
  BY <1>1, <1>2, ModSmall

LEMMA NextIndexWraps ==
  ASSUME NEW i \in Index
  PROVE  NextIndex(i) = Wrap(i + 1) /\ NextIndex(i) \in Index
<1>1. Capacity \in Nat \ {0} /\ i \in Int /\ 0 <= i /\ i <= Capacity - 1
  BY RingAssumption DEF Index
<1>2. i + 1 \in Int /\ 0 <= i + 1 /\ i + 1 < 2 * Capacity
  BY <1>1
<1>3. (i + 1) % Capacity = Wrap(i + 1)
  BY <1>2, WrapIsMod
<1>4. Wrap(i + 1) \in Index
  BY <1>1 DEF Wrap, Index
<1> QED
  BY <1>3, <1>4 DEF NextIndex

LEMMA CountIsHeld ==
  ASSUME head \in Index, tail \in Index
  PROVE  Count = Held /\ Held \in 0 .. Capacity - 1
<1>1. /\ Capacity \in Nat \ {0}
      /\ head \in Int /\ 0 <= head /\ head <= Capacity - 1
      /\ tail \in Int /\ 0 <= tail /\ tail <= Capacity - 1
  BY RingAssumption DEF Index
<1>2. head < Capacity /\ tail < Capacity
  BY <1>1
<1>3. (head - tail) % Capacity = Held
  BY <1>1, <1>2, DifferenceMod DEF Held
<1>4. Held \in 0 .. Capacity - 1
  BY <1>1 DEF Held
<1> QED
  BY <1>3, <1>4 DEF Count

LEMMA StoredPlaces ==
  ASSUME head \in Index, tail \in Index
  PROVE  /\ Stored = [i \in 1 .. Held |-> slot[Place(i)]]
         /\ \A i \in 1 .. Held : Place(i) \in Index /\ Place(i) # head
<1>1. /\ Capacity \in Nat \ {0}
      /\ Held \in Int /\ 0 <= Held /\ Held <= Capacity - 1
      /\ head \in Int /\ 0 <= head /\ head <= Capacity - 1
      /\ tail \in Int /\ 0 <= tail /\ tail <= Capacity - 1
  BY RingAssumption, CountIsHeld DEF Index
<1>2. ASSUME NEW i \in 1 .. Held
      PROVE  (tail + i - 1) % Capacity = Place(i) /\ Place(i) \in Index /\ Place(i) # head
  <2>1. i \in Int /\ 1 <= i /\ i <= Held
    BY <1>1
  <2>2. tail + i - 1 \in Int /\ 0 <= tail + i - 1 /\ tail + i - 1 < 2 * Capacity
    BY <1>1, <2>1
  <2>3. (tail + i - 1) % Capacity = Place(i)
    BY <2>2, WrapIsMod DEF Place
  <2>4. Place(i) \in Index /\ Place(i) # head
    BY <1>1, <2>1 DEF Place, Wrap, Index, Held
  <2> QED
    BY <2>3, <2>4
<1>3. Count = Held
  BY CountIsHeld
<1> QED
  BY <1>2, <1>3 DEF Stored

LEMMA FullAndEmpty ==
  ASSUME head \in Index, tail \in Index
  PROVE  (IsFull <=> Held = Capacity - 1) /\ (IsEmpty <=> Held = 0)
<1>1. /\ Capacity \in Nat /\ Capacity > 0
      /\ head \in Int /\ 0 <= head /\ head <= Capacity - 1
      /\ tail \in Int /\ 0 <= tail /\ tail <= Capacity - 1
  BY RingAssumption DEF Index
<1> QED
  BY <1>1, NextIndexWraps DEF IsFull, IsEmpty, Held, Wrap

LEMMA HeadMoves ==
  ASSUME head \in Index, tail \in Index, ~ IsFull, head' = NextIndex(head), tail' = tail
  PROVE  /\ Held' = Held + 1
         /\ Place(Held + 1) = head
         /\ \A i \in Int : Place(i)' = Place(i)
         /\ head' # tail'
<1>1. /\ Capacity \in Nat /\ Capacity > 0
      /\ head \in Int /\ 0 <= head /\ head <= Capacity - 1
      /\ tail \in Int /\ 0 <= tail /\ tail <= Capacity - 1
  BY RingAssumption DEF Index
<1>2. head' = Wrap(head + 1) /\ Wrap(head + 1) # tail
  BY NextIndexWraps DEF IsFull
<1> QED
  BY <1>1, <1>2 DEF Held, Place, Wrap

LEMMA TailMoves ==
  ASSUME head \in Index, tail \in Index, ~ IsEmpty, tail' = NextIndex(tail), head' = head
  PROVE  /\ Held' = Held - 1
         /\ Place(1) = tail
         /\ \A i \in 1 .. Held - 1 : Place(i)' = Place(i + 1)
         /\ ~ IsFull'
<1>1. /\ Capacity \in Nat /\ Capacity > 0
      /\ head \in Int /\ 0 <= head /\ head <= Capacity - 1
      /\ tail \in Int /\ 0 <= tail /\ tail <= Capacity - 1
  BY RingAssumption DEF Index
<1>2. tail' = Wrap(tail + 1) /\ NextIndex(head) = Wrap(head + 1) /\ head # tail
  BY NextIndexWraps DEF IsEmpty
<1>3. Held' = Held - 1 /\ Place(1) = tail
  BY <1>1, <1>2 DEF Held, Place, Wrap
<1>4. \A i \in 1 .. Held - 1 : Place(i)' = Place(i + 1)
  BY <1>1, <1>2 DEF Held, Place, Wrap
<1>5. NextIndex(head)' = NextIndex(head) /\ Wrap(head + 1) # Wrap(tail + 1)
  BY <1>1, <1>2 DEF Wrap, NextIndex
<1> QED
  BY <1>2, <1>3, <1>4, <1>5 DEF IsFull

-----------------------------------------------------------------------------
(* A slot in the queue is whole; the producer fills the slot at head,      *)
(* which is in no queue; the consumer empties the slot at tail.            *)
SlotsWhole == \A i \in 1 .. Held : \E v \in Value : slot[Place(i)] = Whole(v)

ProducerInv ==
  /\ w.pc = "COPY" => ~ IsFull /\ \A k \in 1 .. w.n : slot[head][k] = w.value
  /\ w.pc = "EVICT" => IsFull /\ w.onFull = "EVICT" /\ w.n = 0

ConsumerInv ==
  r.pc = "COPY" => /\ ~ IsEmpty /\ r.index = tail
                   /\ \A k \in 1 .. r.n : r.copy[k] = slot[tail][k]

(* An overwriting call is one a caller makes, with the consumer shut out.  *)
EvictAsked == w.onFull = "EVICT" => "EVICT" \in OnFull
OneAtATime == Guarded /\ w.onFull = "EVICT" => r = RIdle

RingInv ==
  RingTypeOK /\ SlotsWhole /\ ProducerInv /\ ConsumerInv /\ EvictAsked /\ OneAtATime

LEMMA RingInitInv == RingInit => RingInv
<1> SUFFICES ASSUME RingInit PROVE RingInv
  OBVIOUS
<1>1. (CHOOSE v \in Value : TRUE) \in Value
  BY RingAssumption
<1>2. RingTypeOK
  <2>1. ASSUME NEW v \in Value PROVE Whole(v) \in Element
    BY DEF Whole, Element
  <2>2. 0 \in Index
    BY RingAssumption DEF Index
  <2> QED
    BY <1>1, <2>1, <2>2 DEF RingInit, RingTypeOK
<1>3. head = 0 /\ tail = 0 /\ w.pc = "IDLE" /\ r.pc = "IDLE" /\ w.onFull = "REFUSE"
  BY DEF RingInit, WIdle, RIdle
<1>4. Held = 0
  BY <1>3 DEF Held
<1> QED
  BY <1>2, <1>3, <1>4 DEF RingInv, SlotsWhole, ProducerInv, ConsumerInv, EvictAsked, OneAtATime

LEMMA RingStepType == RingTypeOK /\ ConsumerInv /\ [RingNext]_ringVars => RingTypeOK'
<1> SUFFICES ASSUME RingTypeOK, ConsumerInv, [RingNext]_ringVars PROVE RingTypeOK'
  OBVIOUS
<1> USE RingAssumption DEF RingTypeOK
<1>1. NextIndex(head) \in Index /\ NextIndex(tail) \in Index
  BY NextIndexWraps
<1>2. ASSUME NEW v \in Value, NEW onFull \in OnFull, WriteBegin(v, onFull) PROVE RingTypeOK'
  <2>1. onFull \in {"EVICT", "REFUSE"} /\ 0 \in 0 .. Words
    OBVIOUS
  <2>2. \/ w' = w
        \/ \E step \in {"EVICT", "COPY"} :
             w' = [pc |-> step, onFull |-> onFull, value |-> v, n |-> 0]
    BY <1>2 DEF WriteBegin
  <2>3. w' \in {WIdle} \cup [pc : {"EVICT", "COPY"}, onFull : {"EVICT", "REFUSE"},
                            value : Value, n : 0 .. Words]
    BY <2>1, <2>2
  <2>4. res' = res \/ res' = <<"FULL">>
    BY <1>2 DEF WriteBegin
  <2> QED
    BY <1>2, <2>3, <2>4 DEF WriteBegin
<1>3. CASE WriteEvict
  BY <1>1, <1>3 DEF WriteEvict, WIdle
<1>4. CASE WriteWord
  <2>1. slot' \in [Index -> Element]
    BY <1>4 DEF WriteWord, Element, WIdle
  <2>2. w' \in [pc : {"EVICT", "COPY"}, onFull : {"EVICT", "REFUSE"}, value : Value, n : 0 .. Words]
    BY <1>4 DEF WriteWord, WIdle
  <2> QED
    BY <1>4, <2>1, <2>2 DEF WriteWord
<1>5. CASE WritePublish
  BY <1>1, <1>5 DEF WritePublish
<1>6. CASE ReadBegin
  BY <1>6 DEF ReadBegin, RIdle
<1>7. CASE ReadWord
  <2>1. r \in [pc : {"COPY"}, index : Index, n : 0 .. Words, copy : Element]
    BY <1>7 DEF ReadWord, RIdle
  <2>2. r.n + 1 \in 1 .. Words /\ slot[r.index] \in Element /\ r.copy \in Element
    BY <1>7, <2>1 DEF ReadWord
  <2>3. [r.copy EXCEPT ![r.n + 1] = slot[r.index][r.n + 1]] \in Element
    BY <2>2 DEF Element
  <2>4. r' = [pc |-> "COPY", index |-> r.index, n |-> r.n + 1,
              copy |-> [r.copy EXCEPT ![r.n + 1] = slot[r.index][r.n + 1]]]
    BY <1>7, <2>1 DEF ReadWord
  <2>5. r' \in [pc : {"COPY"}, index : Index, n : 0 .. Words, copy : Element]
    <3>1. r.n + 1 \in 0 .. Words /\ r.index \in Index
      BY <2>1, <2>2
    <3> QED
      BY <2>3, <2>4, <3>1
  <2> QED
    BY <1>7, <2>5 DEF ReadWord
<1>8. CASE ReadPublish
  <2>1. NextIndex(r.index) \in Index /\ r.copy \in Element
    BY <1>8, NextIndexWraps DEF ReadPublish, RIdle
  <2> QED
    BY <1>1, <1>8, <2>1 DEF ReadPublish
<1>9. CASE Flush
  BY <1>9 DEF Flush, Index
<1>10. CASE UNCHANGED ringVars
  BY <1>10 DEF ringVars
<1> QED
  BY <1>2, <1>3, <1>4, <1>5, <1>6, <1>7, <1>8, <1>9, <1>10 DEF RingNext, Write, Read

LEMMA StepSlots == RingInv /\ NoRace /\ [RingNext]_ringVars => SlotsWhole'
<1> SUFFICES ASSUME RingInv, NoRace, [RingNext]_ringVars PROVE SlotsWhole'
  OBVIOUS
<1>1. /\ RingTypeOK /\ SlotsWhole /\ ProducerInv /\ ConsumerInv /\ EvictAsked
      /\ head \in Index /\ tail \in Index
      /\ \A i \in 1 .. Held : Place(i) \in Index /\ Place(i) # head
      /\ Held \in Int /\ 0 <= Held
  BY StoredPlaces, CountIsHeld, RingAssumption DEF RingInv, RingTypeOK
<1>2. ASSUME UNCHANGED <<slot, head, tail>> PROVE SlotsWhole'
  BY <1>1, <1>2 DEF SlotsWhole, Held, Place, Wrap
<1>3. ASSUME ~ IsEmpty, tail' = NextIndex(tail), UNCHANGED <<slot, head>> PROVE SlotsWhole'
  <2>1. Held' = Held - 1 /\ \A i \in 1 .. Held - 1 : Place(i)' = Place(i + 1)
    BY <1>1, <1>3, TailMoves
  <2>2. ASSUME NEW i \in 1 .. Held' PROVE \E v \in Value : slot'[Place(i)'] = Whole(v)
    <3>1. Place(i)' = Place(i + 1) /\ i + 1 \in 1 .. Held
      BY <1>1, <2>1
    <3> QED
      BY <1>1, <1>3, <3>1 DEF SlotsWhole
  <2> QED
    BY <2>2 DEF SlotsWhole, Whole
<1>4. CASE WriteEvict
  <2>1. IsFull /\ Capacity > 1 /\ tail' = NextIndex(tail)
    BY <1>1, <1>4 DEF WriteEvict, ProducerInv, EvictAsked, NoRace
  <2>2. ~ IsEmpty
    BY <1>1, <2>1, FullAndEmpty, RingAssumption
  <2> QED
    BY <1>3, <1>4, <2>1, <2>2 DEF WriteEvict
<1>5. CASE WriteWord
  <2>1. ASSUME NEW i \in 1 .. Held PROVE slot'[Place(i)] = slot[Place(i)]
    BY <1>1, <1>5 DEF WriteWord, RingTypeOK
  <2>2. Held' = Held /\ \A i \in 1 .. Held : Place(i)' = Place(i)
    BY <1>5 DEF WriteWord, Held, Place, Wrap
  <2> QED
    BY <1>1, <2>1, <2>2 DEF SlotsWhole, Whole
<1>6. CASE WritePublish
  <2>1. ~ IsFull /\ head' = NextIndex(head) /\ tail' = tail /\ slot' = slot
    BY <1>1, <1>6 DEF WritePublish, ProducerInv
  <2>2. Held' = Held + 1 /\ Place(Held + 1) = head /\ \A i \in Int : Place(i)' = Place(i)
    BY <1>1, <2>1, HeadMoves
  <2>3. w.value \in Value /\ w.n = Words
    BY <1>1, <1>6 DEF WritePublish, RingTypeOK, WIdle
  <2>4. slot[head] = Whole(w.value)
    BY <1>1, <1>6, <2>3 DEF WritePublish, ProducerInv, RingTypeOK, Element, Whole
  <2>5. ASSUME NEW i \in 1 .. Held' PROVE \E v \in Value : slot'[Place(i)'] = Whole(v)
    <3>1. i \in 1 .. Held \/ i = Held + 1
      BY <1>1, <2>2
    <3>2. Place(i)' = Place(i)
      BY <1>1, <2>2
    <3> QED
      BY <1>1, <2>1, <2>2, <2>3, <2>4, <3>1, <3>2 DEF SlotsWhole
  <2> QED
    BY <2>5 DEF SlotsWhole, Whole
<1>7. CASE ReadPublish
  <2>1. ~ IsEmpty /\ tail' = NextIndex(tail)
    BY <1>1, <1>7 DEF ReadPublish, ConsumerInv
  <2> QED
    BY <1>3, <1>7, <2>1 DEF ReadPublish
<1>8. CASE Flush
  <2>1. Held' = 0
    BY <1>8 DEF Flush, Held
  <2> QED
    BY <2>1 DEF SlotsWhole
<1> QED
  BY <1>2, <1>4, <1>5, <1>6, <1>7, <1>8
  DEF RingNext, Write, Read, WriteBegin, ReadBegin, ReadWord, ringVars

LEMMA StepProducer == RingInv /\ NoRace /\ [RingNext]_ringVars => ProducerInv'
<1> SUFFICES ASSUME RingInv, NoRace, [RingNext]_ringVars PROVE ProducerInv'
  OBVIOUS
<1>1. /\ RingTypeOK /\ ProducerInv /\ ConsumerInv /\ EvictAsked /\ OneAtATime
      /\ head \in Index /\ tail \in Index
  BY DEF RingInv, RingTypeOK
<1>2. ASSUME NEW v \in Value, NEW onFull \in OnFull, WriteBegin(v, onFull) PROVE ProducerInv'
  BY <1>1, <1>2 DEF WriteBegin, ProducerInv, IsFull, NextIndex, WIdle
<1>3. CASE WriteEvict
  <2>1. IsFull /\ Capacity > 1 /\ tail' = NextIndex(tail) /\ head' = head /\ w.n = 0
    BY <1>1, <1>3 DEF WriteEvict, ProducerInv, EvictAsked, NoRace
  <2>2. ~ IsEmpty
    BY <1>1, <2>1, FullAndEmpty, RingAssumption
  <2>3. ~ IsFull'
    BY <1>1, <2>1, <2>2, TailMoves
  <2>4. w'.pc = "COPY" /\ w'.n = 0
    BY <1>1, <1>3, <2>1 DEF WriteEvict, RingTypeOK, WIdle
  <2> QED
    BY <2>3, <2>4 DEF ProducerInv
<1>4. CASE WriteWord
  <2>1. w \in [pc : {"EVICT", "COPY"}, onFull : {"EVICT", "REFUSE"}, value : Value, n : 0 .. Words]
    BY <1>1, <1>4 DEF WriteWord, RingTypeOK, WIdle
  <2>2. w'.pc = "COPY" /\ w'.value = w.value /\ w'.n = w.n + 1
    BY <1>4, <2>1 DEF WriteWord
  <2>3. ASSUME NEW k \in 1 .. w.n + 1 PROVE slot'[head][k] = w.value
    <3>1. k \in 1 .. w.n \/ k = w.n + 1
      BY <2>1
    <3>2. k \in 1 .. Words
      <4>1. w.n < Words /\ w.n \in 0 .. Words
        BY <1>4, <2>1 DEF WriteWord
      <4> QED
        BY <3>1, <4>1, RingAssumption
    <3>3. slot[head] \in Element
      BY <1>1 DEF RingTypeOK
    <3> QED
      BY <1>1, <1>4, <3>1, <3>2, <3>3 DEF WriteWord, RingTypeOK, Element, ProducerInv
  <2>4. ~ IsFull' /\ head' = head
    BY <1>1, <1>4 DEF WriteWord, ProducerInv, IsFull, NextIndex
  <2> QED
    BY <2>2, <2>3, <2>4 DEF ProducerInv
<1>5. CASE WritePublish
  BY <1>5 DEF WritePublish, ProducerInv, WIdle
<1>6. CASE ReadPublish
  <2>1. ~ IsEmpty /\ tail' = NextIndex(tail) /\ head' = head /\ slot' = slot /\ w' = w
    BY <1>1, <1>6 DEF ReadPublish, ConsumerInv
  <2>2. ~ IsFull'
    BY <1>1, <2>1, TailMoves
  <2>3. w.pc # "EVICT"
    BY <1>1, <1>6 DEF ReadPublish, ProducerInv, NoRace, EvictAsked, OneAtATime, RIdle
  <2> QED
    BY <1>1, <2>1, <2>2, <2>3 DEF ProducerInv
<1>7. CASE Flush
  BY <1>7 DEF Flush, ProducerInv, WIdle
<1>8. CASE ReadBegin \/ ReadWord \/ UNCHANGED ringVars
  BY <1>1, <1>8 DEF ReadBegin, ReadWord, ringVars, ProducerInv, IsFull, NextIndex
<1> QED
  BY <1>2, <1>3, <1>4, <1>5, <1>6, <1>7, <1>8 DEF RingNext, Write, Read

LEMMA StepConsumer == RingInv /\ NoRace /\ [RingNext]_ringVars => ConsumerInv'
<1> SUFFICES ASSUME RingInv, NoRace, [RingNext]_ringVars PROVE ConsumerInv'
  OBVIOUS
<1>1. /\ RingTypeOK /\ ProducerInv /\ ConsumerInv /\ EvictAsked /\ OneAtATime
      /\ head \in Index /\ tail \in Index
  BY DEF RingInv, RingTypeOK
<1>2. ASSUME UNCHANGED <<slot, head, tail, r>> PROVE ConsumerInv'
  BY <1>1, <1>2 DEF ConsumerInv, IsEmpty
<1>3. CASE WriteEvict
  <2>1. r.pc # "COPY"
    BY <1>1, <1>3 DEF WriteEvict, ProducerInv, NoRace, EvictAsked, OneAtATime, RIdle
  <2> QED
    BY <1>3, <2>1 DEF WriteEvict, ConsumerInv
<1>4. CASE WriteWord
  <2>1. UNCHANGED <<head, tail, r>> /\ (r.pc = "COPY" => slot'[tail] = slot[tail])
    BY <1>1, <1>4 DEF WriteWord, ConsumerInv, IsEmpty, RingTypeOK
  <2> QED
    BY <1>1, <2>1 DEF ConsumerInv, IsEmpty
<1>5. CASE WritePublish
  <2>1. ~ IsFull /\ head' = NextIndex(head) /\ tail' = tail /\ slot' = slot /\ r' = r
    BY <1>1, <1>5 DEF WritePublish, ProducerInv
  <2>2. ~ IsEmpty'
    BY <1>1, <2>1, HeadMoves DEF IsEmpty
  <2> QED
    BY <1>1, <2>1, <2>2 DEF ConsumerInv
<1>6. CASE ReadBegin
  BY <1>1, <1>6 DEF ReadBegin, ConsumerInv, IsEmpty, RIdle
<1>7. CASE ReadWord
  <2>1. r \in [pc : {"COPY"}, index : Index, n : 0 .. Words, copy : Element]
    BY <1>1, <1>7 DEF ReadWord, RingTypeOK, RIdle
  <2>2. /\ r'.pc = "COPY" /\ r'.index = tail /\ r'.n = r.n + 1
        /\ r'.copy = [r.copy EXCEPT ![r.n + 1] = slot[tail][r.n + 1]]
        /\ UNCHANGED <<slot, head, tail>> /\ ~ IsEmpty
    BY <1>1, <1>7, <2>1 DEF ReadWord, ConsumerInv
  <2>3. ASSUME NEW k \in 1 .. r.n + 1 PROVE r'.copy[k] = slot[tail][k]
    <3>1. k \in 1 .. r.n \/ k = r.n + 1
      BY <2>1
    <3>2. k \in 1 .. Words
      <4>1. r.n < Words /\ r.n \in 0 .. Words
        BY <1>7, <2>1 DEF ReadWord
      <4> QED
        BY <3>1, <4>1, RingAssumption
    <3>3. r.copy \in [1 .. Words -> Value]
      BY <2>1 DEF Element
    <3>4. k \in 1 .. r.n => r.copy[k] = slot[tail][k]
      BY <1>1, <1>7 DEF ReadWord, ConsumerInv
    <3> QED
      BY <2>2, <3>1, <3>2, <3>3, <3>4
  <2> QED
    BY <2>2, <2>3 DEF ConsumerInv, IsEmpty
<1>8. CASE ReadPublish
  BY <1>8 DEF ReadPublish, ConsumerInv, RIdle
<1>9. CASE Flush
  BY <1>9 DEF Flush, ConsumerInv, RIdle
<1> QED
  BY <1>2, <1>3, <1>4, <1>5, <1>6, <1>7, <1>8, <1>9 DEF RingNext, Write, Read, WriteBegin, ringVars

LEMMA StepOneAtATime ==
  RingTypeOK /\ EvictAsked /\ OneAtATime /\ [RingNext]_ringVars
    => EvictAsked' /\ OneAtATime'
<1> SUFFICES ASSUME RingTypeOK, EvictAsked, OneAtATime, [RingNext]_ringVars
             PROVE  EvictAsked' /\ OneAtATime'
  OBVIOUS
<1> USE DEF EvictAsked, OneAtATime
<1>1. ASSUME NEW v \in Value, NEW onFull \in OnFull, WriteBegin(v, onFull)
      PROVE  EvictAsked' /\ OneAtATime'
  BY <1>1, RingAssumption DEF WriteBegin, WIdle
<1>2. CASE WriteEvict \/ WriteWord
  <2>1. w'.onFull = w.onFull /\ r' = r
    BY <1>2 DEF RingTypeOK, WriteEvict, WriteWord, WIdle
  <2> QED
    BY <2>1
<1>3. CASE WritePublish
  BY <1>3 DEF WritePublish, WIdle
<1>4. CASE ReadBegin \/ ReadWord \/ ReadPublish
  <2>1. w' = w /\ (r' # RIdle => r # RIdle \/ ~ (Guarded /\ w.onFull = "EVICT"))
    BY <1>4 DEF ReadBegin, ReadWord, ReadPublish, RIdle
  <2> QED
    BY <2>1
<1>5. CASE Flush \/ UNCHANGED ringVars
  BY <1>5 DEF Flush, ringVars
<1> QED
  BY <1>1, <1>2, <1>3, <1>4, <1>5 DEF RingNext, Write, Read

LEMMA RingStepInv == RingInv /\ NoRace /\ [RingNext]_ringVars => RingInv'
  BY RingStepType, StepSlots, StepProducer, StepConsumer, StepOneAtATime DEF RingInv

LEMMA RingInvariance == ASSUME NoRace PROVE RingSpec => []RingInv
<1>1. RingInv /\ [RingNext]_ringVars => RingInv'
  BY NoRace, RingStepInv
<1> QED
  BY <1>1, RingInitInv, PTL DEF RingSpec

(* The fields keep their types for every capacity.                         *)
THEOREM RingTypeCorrect == ASSUME NoRace PROVE RingSpec => []RingTypeOK
<1>1. RingInv => RingTypeOK
  BY DEF RingInv
<1> QED
  BY <1>1, RingInvariance, PTL

(* The free slot keeps the producer's copy and the consumer's apart,       *)
(* whatever the capacity and however the two interleave.                   *)
THEOREM SidesAlwaysApart == ASSUME NoRace PROVE RingSpec => []SidesKeepApart
<1>1. RingInv => SidesKeepApart
  BY DEF RingInv, ConsumerInv, SidesKeepApart, IsEmpty
<1> QED
  BY <1>1, RingInvariance, PTL

-----------------------------------------------------------------------------
StoredFacts ==
  /\ Stored \in Seq(Element) /\ Len(Stored) = Held /\ Held \in Nat
  /\ Stored = [i \in 1 .. Held |-> slot[Place(i)]]
  /\ \A i \in 1 .. Held : Stored[i] = slot[Place(i)]

LEMMA StoredIsSeq == RingInv => StoredFacts
<1> SUFFICES ASSUME RingInv PROVE StoredFacts
  OBVIOUS
<1>1. /\ head \in Index /\ tail \in Index /\ slot \in [Index -> Element]
      /\ Held \in Nat
  BY CountIsHeld, RingAssumption DEF RingInv, RingTypeOK
<1>2. /\ Stored = [i \in 1 .. Held |-> slot[Place(i)]]
      /\ \A i \in 1 .. Held : slot[Place(i)] \in Element
  BY <1>1, StoredPlaces
<1> QED
  BY <1>1, <1>2 DEF StoredFacts

LEMMA StoredIsSeqNext == RingInv' => StoredFacts'
  BY StoredIsSeq, PTL

LEMMA RefinesInit == RingInit => BF!Init
<1> SUFFICES ASSUME RingInit PROVE BF!Init
  OBVIOUS
<1>1. RingInv /\ head = 0 /\ tail = 0
  BY RingInitInv DEF RingInit
<1>2. Held = 0
  BY <1>1 DEF Held
<1>3. Stored = <<>>
  BY <1>1, <1>2, StoredIsSeq DEF StoredFacts
<1> QED
  BY <1>3 DEF RingInit, BF!Init

(* A step that leaves the queue as it is.                                  *)
LEMMA StoredStays ==
  ASSUME RingInv, UNCHANGED <<head, tail>>,
         \A i \in Index : i # head => slot'[i] = slot[i], RingInv'
  PROVE  Stored' = Stored
<1>1. Held' = Held /\ \A i \in 1 .. Held : Place(i)' = Place(i) /\ slot'[Place(i)] = slot[Place(i)]
  BY StoredPlaces DEF RingInv, RingTypeOK, Held, Place, Wrap
<1>2. Stored' = [i \in 1 .. Held' |-> slot'[Place(i)']]
  BY StoredIsSeqNext DEF StoredFacts
<1> QED
  BY <1>1, <1>2, StoredIsSeq DEF StoredFacts

LEMMA StoredTail ==
  ASSUME RingInv, RingInv', ~ IsEmpty, tail' = NextIndex(tail), UNCHANGED <<slot, head>>
  PROVE  Stored' = Tail(Stored) /\ Stored # <<>> /\ Head(Stored) = slot[tail]
<1>1. /\ head \in Index /\ tail \in Index
  BY DEF RingInv, RingTypeOK
<1>2. /\ Held' = Held - 1 /\ Place(1) = tail /\ Held # 0
      /\ \A i \in 1 .. Held - 1 : Place(i)' = Place(i + 1)
  BY <1>1, TailMoves, FullAndEmpty
<1>3. /\ Stored \in Seq(Element) /\ Len(Stored) = Held /\ Held \in Nat
      /\ \A i \in 1 .. Held : Stored[i] = slot[Place(i)]
  BY StoredIsSeq DEF StoredFacts
<1>4. /\ Stored' \in Seq(Element) /\ Len(Stored') = Held'
      /\ \A i \in 1 .. Held' : Stored'[i] = slot[Place(i)']
  <2>1. StoredFacts' /\ Element' = Element
    BY StoredIsSeqNext DEF Element
  <2> QED
    BY <2>1 DEF StoredFacts
<1>5. Stored # <<>> /\ Head(Stored) = slot[tail]
  BY <1>2, <1>3
<1>6. /\ Tail(Stored) \in Seq(Element) /\ Len(Tail(Stored)) = Held - 1
      /\ \A i \in 1 .. Held - 1 : Tail(Stored)[i] = Stored[i + 1]
  BY <1>3, <1>5, HeadTailProperties
<1>7. ASSUME NEW i \in 1 .. Held - 1 PROVE Stored'[i] = Tail(Stored)[i]
  BY <1>2, <1>3, <1>4, <1>6
<1> QED
  BY <1>2, <1>4, <1>5, <1>6, <1>7, SeqEqual

LEMMA StoredAppend ==
  ASSUME RingInv, RingInv', w.pc = "COPY", w.n = Words,
         head' = NextIndex(head), UNCHANGED <<slot, tail>>
  PROVE  Stored' = Append(Stored, slot[head]) /\ slot[head] = Whole(w.value) /\ w.value \in Value
<1>1. /\ head \in Index /\ tail \in Index /\ slot[head] \in Element /\ ~ IsFull
      /\ \A k \in 1 .. Words : slot[head][k] = w.value
  BY DEF RingInv, RingTypeOK, ProducerInv
<1>2. w.value \in Value
  BY DEF RingInv, RingTypeOK, WIdle
<1>3. slot[head] = Whole(w.value)
  BY <1>1 DEF Whole, Element
<1>4. /\ Held' = Held + 1 /\ Place(Held + 1) = head
      /\ \A i \in Int : Place(i)' = Place(i)
  BY <1>1, HeadMoves
<1>5. /\ Stored \in Seq(Element) /\ Len(Stored) = Held /\ Held \in Nat
      /\ \A i \in 1 .. Held : Stored[i] = slot[Place(i)]
  BY StoredIsSeq DEF StoredFacts
<1>6. /\ Stored' \in Seq(Element) /\ Len(Stored') = Held + 1
      /\ \A i \in 1 .. Held + 1 : Stored'[i] = slot[Place(i)]
  <2>1. StoredFacts' /\ Element' = Element
    BY StoredIsSeqNext DEF Element
  <2>2. \A i \in 1 .. Held + 1 : Place(i)' = Place(i)
    BY <1>4, <1>5
  <2> QED
    BY <1>4, <2>1, <2>2 DEF StoredFacts
<1>7. /\ Append(Stored, slot[head]) \in Seq(Element)
      /\ Len(Append(Stored, slot[head])) = Held + 1
      /\ \A i \in 1 .. Held : Append(Stored, slot[head])[i] = Stored[i]
      /\ Append(Stored, slot[head])[Held + 1] = slot[head]
  BY <1>1, <1>5
<1>8. ASSUME NEW i \in 1 .. Held + 1 PROVE Stored'[i] = Append(Stored, slot[head])[i]
  <2>1. i \in 1 .. Held \/ i = Held + 1
    BY <1>5
  <2> QED
    BY <1>4, <1>5, <1>6, <1>7, <2>1
<1> QED
  BY <1>2, <1>3, <1>6, <1>7, <1>8, SeqEqual

LEMMA RefinesStep == NoRace /\ RingInv /\ RingInv' /\ [RingNext]_ringVars => [BF!Next]_BF!fifoVars
<1> SUFFICES ASSUME NoRace, RingInv, RingInv', [RingNext]_ringVars PROVE [BF!Next]_BF!fifoVars
  OBVIOUS
<1> USE DEF BF!fifoVars
<1>1. /\ head \in Index /\ tail \in Index
      /\ Stored \in Seq(Element) /\ Len(Stored) = Held /\ Held \in Nat
  BY StoredIsSeq DEF StoredFacts, RingInv, RingTypeOK
<1>2. ASSUME UNCHANGED <<slot, head, tail>> PROVE Stored' = Stored
  BY <1>2, StoredStays
<1>3. ASSUME NEW v \in Value, NEW onFull \in OnFull, WriteBegin(v, onFull) PROVE [BF!Next]_BF!fifoVars
  <2>1. Stored' = Stored
    BY <1>2, <1>3 DEF WriteBegin
  <2>2. CASE IsFull /\ res' = <<"FULL">>
    <3>1. BF!Refuse
      BY <1>1, <2>1, <2>2, FullAndEmpty DEF BF!Refuse
    <3> QED
      BY <3>1 DEF BF!Next
  <2>3. CASE UNCHANGED res
    BY <2>1, <2>3
  <2> QED
    BY <1>3, <2>2, <2>3 DEF WriteBegin
<1>4. CASE WriteEvict
  <2>1. IsFull /\ Capacity > 1 /\ tail' = NextIndex(tail)
    BY <1>4 DEF WriteEvict, ProducerInv, EvictAsked, NoRace, RingInv
  <2>2. ~ IsEmpty /\ Held = Capacity - 1
    BY <1>1, <2>1, FullAndEmpty, RingAssumption
  <2>0. "EVICT" \in OnFull
    BY <1>4 DEF WriteEvict, ProducerInv, EvictAsked, RingInv
  <2>3. Stored' = Tail(Stored)
    BY <1>4, <2>1, <2>2, StoredTail DEF WriteEvict
  <2>4. BF!Evict
    BY <1>1, <1>4, <2>1, <2>2, <2>3, <2>0 DEF WriteEvict, BF!Evict
  <2> QED
    BY <2>4 DEF BF!Next
<1>5. CASE WriteWord
  <2>1. Stored' = Stored
    BY <1>5, StoredStays DEF WriteWord, RingInv, RingTypeOK
  <2> QED
    BY <1>5, <2>1 DEF WriteWord
<1>6. CASE WritePublish
  <2>1. Stored' = Append(Stored, Whole(w.value)) /\ w.value \in Value
    BY <1>6, StoredAppend DEF WritePublish
  <2>2. Len(Stored) < Capacity - 1
    BY <1>1, <1>6, FullAndEmpty, CountIsHeld, RingAssumption DEF WritePublish, ProducerInv, RingInv
  <2>3. BF!Put(Whole(w.value))
    BY <1>6, <2>1, <2>2 DEF WritePublish, BF!Put
  <2> QED
    BY <2>1, <2>3 DEF BF!Next
<1>7. CASE ReadBegin
  <2>1. Stored' = Stored
    BY <1>2, <1>7 DEF ReadBegin
  <2>2. CASE IsEmpty /\ res' = <<"EMPTY">>
    <3>1. Stored = <<>>
      BY <1>1, <2>2, FullAndEmpty
    <3>2. BF!Starve
      BY <2>1, <2>2, <3>1 DEF BF!Starve
    <3> QED
      BY <3>2 DEF BF!Next
  <2>3. CASE UNCHANGED res
    BY <2>1, <2>3
  <2> QED
    BY <1>7, <2>2, <2>3 DEF ReadBegin
<1>8. CASE ReadWord
  BY <1>2, <1>8 DEF ReadWord
<1>9. CASE ReadPublish
  <2>1. ~ IsEmpty /\ tail' = NextIndex(tail) /\ r.n = Words /\ r.pc = "COPY"
    BY <1>9 DEF ReadPublish, ConsumerInv, RingInv
  <2>2. Stored' = Tail(Stored) /\ Stored # <<>> /\ Head(Stored) = slot[tail]
    BY <1>9, <2>1, StoredTail DEF ReadPublish
  <2>3. r.copy = slot[tail]
    <3>1. r.copy \in Element /\ slot[tail] \in Element
      BY <2>1 DEF RingInv, RingTypeOK, RIdle
    <3>2. \A k \in 1 .. Words : r.copy[k] = slot[tail][k]
      BY <2>1 DEF RingInv, ConsumerInv
    <3>3. ASSUME NEW e \in Element, NEW f \in Element, \A k \in 1 .. Words : e[k] = f[k]
          PROVE  e = f
      <4>1. e = [k \in 1 .. Words |-> e[k]] /\ f = [k \in 1 .. Words |-> f[k]]
        BY DEF Element
      <4>2. [k \in 1 .. Words |-> e[k]] = [k \in 1 .. Words |-> f[k]]
        BY <3>3
      <4> QED
        BY <4>1, <4>2
    <3> QED
      BY <3>1, <3>2, <3>3
  <2>4. BF!Get
    BY <1>9, <2>2, <2>3 DEF ReadPublish, BF!Get
  <2> QED
    BY <2>4 DEF BF!Next
<1>10. CASE Flush
  <2>1. Held' = 0
    BY <1>10 DEF Flush, Held
  <2>2. Stored' = <<>>
    BY <2>1, StoredIsSeqNext DEF StoredFacts
  <2>3. BF!Clear
    BY <1>10, <2>2 DEF Flush, BF!Clear
  <2> QED
    BY <2>3 DEF BF!Next
<1>11. CASE UNCHANGED ringVars
  BY <1>2, <1>11 DEF ringVars
<1> QED
  BY <1>3, <1>4, <1>5, <1>6, <1>7, <1>8, <1>9, <1>10, <1>11 DEF RingNext, Write, Read

(* The ring buffer, cut where the other side can come in between,          *)
(* implements the bounded queue it promises for every capacity, element    *)
(* size and set of values.                                                 *)
THEOREM RingIsBoundedFifo == ASSUME NoRace PROVE RingSpec => ImplementsBoundedFifo
<1>1. RingInv /\ RingInv' /\ [RingNext]_ringVars => [BF!Next]_BF!fifoVars
  BY NoRace, RefinesStep
<1>2. RingSpec => []RingInv
  BY NoRace, RingInvariance
<1> QED
  BY <1>1, <1>2, RefinesInit, PTL DEF RingSpec, ImplementsBoundedFifo, BF!Spec

-----------------------------------------------------------------------------
(* THE PARSER.  A command is dispatched exactly for an intact frame,       *)
(* whatever was on the line before it: for payloads of every length, every *)
(* alphabet and every checksum.                                            *)

(* The bytes since the start byte are those the fields were filled from.   *)
Header(n) ==
  /\ Len(taken) >= n
  /\ n >= 1 => taken[1] = SofByte
  /\ n >= 2 => taken[2] = frame.opcode
  /\ n >= 3 => taken[3] = frame.length

Payload(n) == \A i \in 1 .. n : taken[3 + i] = frame.payload[i]

FieldsFromLine ==
  /\ frame.state = "OPCODE" => Len(taken) = 1 /\ Header(1)
  /\ frame.state = "LENGTH" => Len(taken) = 2 /\ Header(2)
  /\ frame.state = "PAYLOAD" =>
       /\ Len(taken) = 3 + frame.payload_idx /\ Header(3)
       /\ frame.payload_idx < frame.length /\ frame.length <= MaxPayload
       /\ Payload(frame.payload_idx)
  /\ frame.state \in {"CRC_LOW", "CRC_HIGH"} =>
       /\ Header(3) /\ frame.length <= MaxPayload /\ Payload(frame.length)
  /\ frame.state = "CRC_LOW" => Len(taken) = 3 + frame.length
  /\ frame.state = "CRC_HIGH" =>
       Len(taken) = 4 + frame.length /\ taken[4 + frame.length] = frame.crc_low

(* The host is always inside the copy it sends.                            *)
HostPlace == IF host = <<>> THEN sent = 0 ELSE sent < Len(Encoded(host))

FrameInv == FrameTypeOK /\ FieldsFromLine /\ AcceptedExactly /\ HostPlace

LEMMA Constants ==
  /\ MaxPayload \in Nat /\ MaxPayload > 0 /\ Byte \subseteq Nat /\ 0 \in Byte /\ SofByte \in Byte
  /\ \A n \in 0 .. MaxPayload : \A msg \in [1 .. n + 2 -> Byte] : Crc(msg) \in Byte \X Byte
  BY FrameAssumption

Concatenated(S, s, t) ==
  /\ s \o t \in Seq(S) /\ Len(s \o t) = Len(s) + Len(t)
  /\ \A i \in 1 .. Len(s) : (s \o t)[i] = s[i]
  /\ \A i \in 1 .. Len(t) : (s \o t)[Len(s) + i] = t[i]

LEMMA ConcatPoints ==
  ASSUME NEW S, NEW s \in Seq(S), NEW t \in Seq(S)
  PROVE  Concatenated(S, s, t)
  BY DEF Concatenated

(* The body that is checked and dispatched.                                *)
LEMMA SerializeIsBody ==
  ASSUME frame \in command_frame_t, frame.length <= MaxPayload
  PROVE  /\ Serialize \in Seq(Byte) /\ Len(Serialize) = frame.length + 2
         /\ Serialize[1] = frame.opcode /\ Serialize[2] = frame.length
         /\ \A i \in 1 .. frame.length : Serialize[2 + i] = frame.payload[i]
         /\ IsBody(Serialize)
         /\ Crc(Serialize) \in Byte \X Byte
<1>1. /\ frame.length \in Nat /\ frame.length \in Byte /\ frame.opcode \in Byte
      /\ frame.payload \in [1 .. MaxPayload -> Byte]
  BY Constants DEF command_frame_t
<1> DEFINE top == <<frame.opcode, frame.length>>
           rest == SubSeq(frame.payload, 1, frame.length)
<1>2. /\ rest \in Seq(Byte) /\ Len(rest) = frame.length
      /\ \A i \in 1 .. frame.length : rest[i] = frame.payload[i]
  <2>1. \A i \in 1 .. frame.length : frame.payload[i] \in Byte
    BY <1>1, Constants
  <2> QED
    BY <1>1, <2>1, SubSeqProperties
<1>3. top \in Seq(Byte) /\ Len(top) = 2 /\ top[1] = frame.opcode /\ top[2] = frame.length
  BY <1>1
<1>4. Serialize = top \o rest
  BY DEF Serialize
<1> HIDE DEF top, rest
<1>5. /\ Serialize \in Seq(Byte) /\ Len(Serialize) = 2 + frame.length
      /\ \A i \in 1 .. 2 : Serialize[i] = top[i]
      /\ \A i \in 1 .. frame.length : Serialize[2 + i] = rest[i]
  <2>1. Concatenated(Byte, top, rest)
    BY <1>2, <1>3, ConcatPoints
  <2> QED
    BY <1>1, <1>2, <1>3, <1>4, <2>1 DEF Concatenated
<1>6. /\ Serialize[1] = frame.opcode /\ Serialize[2] = frame.length
      /\ \A i \in 1 .. frame.length : Serialize[2 + i] = frame.payload[i]
  BY <1>2, <1>3, <1>5
<1>7. IsBody(Serialize)
  BY <1>1, <1>5, <1>6 DEF IsBody
<1>8. Serialize \in Seq(Byte) /\ Len(Serialize) = frame.length + 2
  BY <1>1, <1>5
<1>9. Crc(Serialize) \in Byte \X Byte
  <2>1. Serialize \in [1 .. frame.length + 2 -> Byte]
    BY <1>1, <1>8
  <2> QED
    BY <1>1, <2>1, Constants
<1> QED
  BY <1>6, <1>7, <1>8, <1>9

EncodedAs(msg, lo, high) ==
  /\ Encoded(msg) \in Seq(Byte) /\ Len(Encoded(msg)) = Len(msg) + 3
  /\ Encoded(msg)[1] = SofByte
  /\ \A i \in 1 .. Len(msg) : Encoded(msg)[1 + i] = msg[i]
  /\ Encoded(msg)[Len(msg) + 2] = lo /\ Encoded(msg)[Len(msg) + 3] = high

LEMMA EncodedBytes ==
  ASSUME NEW msg \in Seq(Byte), NEW lo \in Byte, NEW high \in Byte, Crc(msg) = <<lo, high>>
  PROVE  EncodedAs(msg, lo, high)
<1> DEFINE sof == <<SofByte>>
           crc == <<lo, high>>
<1>1. /\ sof \in Seq(Byte) /\ Len(sof) = 1 /\ sof[1] = SofByte
      /\ crc \in Seq(Byte) /\ Len(crc) = 2 /\ crc[1] = lo /\ crc[2] = high
      /\ Len(msg) \in Nat
  BY Constants
<1>2. Encoded(msg) = (sof \o msg) \o crc
  BY DEF Encoded
<1> HIDE DEF sof, crc
<1> DEFINE start == sof \o msg
<1>3. /\ start \in Seq(Byte) /\ Len(start) = 1 + Len(msg) /\ start[1] = SofByte
      /\ \A i \in 1 .. Len(msg) : start[1 + i] = msg[i]
  <2>1. Concatenated(Byte, sof, msg)
    BY <1>1, ConcatPoints
  <2> QED
    BY <1>1, <2>1 DEF Concatenated
<1> HIDE DEF start
<1>4. /\ Encoded(msg) \in Seq(Byte) /\ Len(Encoded(msg)) = 1 + Len(msg) + 2
      /\ \A i \in 1 .. 1 + Len(msg) : Encoded(msg)[i] = start[i]
      /\ Encoded(msg)[1 + Len(msg) + 1] = lo /\ Encoded(msg)[1 + Len(msg) + 2] = high
  <2>1. Encoded(msg) = start \o crc
    BY <1>2 DEF start
  <2>2. Concatenated(Byte, start, crc)
    BY <1>1, <1>3, ConcatPoints
  <2> QED
    BY <1>1, <1>3, <2>1, <2>2 DEF Concatenated
<1>5. \A i \in 1 .. Len(msg) : Encoded(msg)[1 + i] = msg[i]
  BY <1>1, <1>3, <1>4
<1>6. 1 + Len(msg) + 1 = Len(msg) + 2 /\ 1 + Len(msg) + 2 = Len(msg) + 3
  BY <1>1
<1> QED
  BY <1>1, <1>3, <1>4, <1>5, <1>6 DEF EncodedAs

BodyIn(t) ==
  /\ BodyOf(t) \in Seq(Byte) /\ Len(BodyOf(t)) = Len(t) - 3
  /\ \A i \in 1 .. Len(t) - 3 : BodyOf(t)[i] = t[i + 1]

LEMMA BodyBytes ==
  ASSUME NEW t \in Seq(Byte), Len(t) >= 5
  PROVE  BodyIn(t)
<1>1. /\ 2 \in Int /\ Len(t) - 2 \in Int /\ Len(t) \in Nat
      /\ \A i \in 2 .. Len(t) - 2 : t[i] \in Byte
  OBVIOUS
<1>2. /\ SubSeq(t, 2, Len(t) - 2) \in Seq(Byte)
      /\ Len(SubSeq(t, 2, Len(t) - 2)) = IF 2 <= Len(t) - 2 THEN Len(t) - 2 - 2 + 1 ELSE 0
      /\ \A i \in 1 .. Len(t) - 2 - 2 + 1 : SubSeq(t, 2, Len(t) - 2)[i] = t[2 + i - 1]
  BY <1>1, SubSeqProperties
<1>3. Len(t) - 2 - 2 + 1 = Len(t) - 3 /\ \A i \in 1 .. Len(t) - 3 : 2 + i - 1 = i + 1
  BY <1>1
<1>4. /\ Len(SubSeq(t, 2, Len(t) - 2)) = Len(t) - 3
      /\ \A i \in 1 .. Len(t) - 3 : SubSeq(t, 2, Len(t) - 2)[i] = t[i + 1]
  BY <1>1, <1>2, <1>3
<1> QED
  BY <1>2, <1>4 DEF BodyOf, BodyIn

(* The length byte gives an intact frame away.                             *)
LEMMA IntactLength ==
  ASSUME NEW t \in Seq(Byte), Intact(t)
  PROVE  Len(t) >= 5 /\ Len(t) = 5 + t[3]
<1>1. Len(t) >= 5 /\ Len(t) \in Nat /\ IsBody(BodyOf(t))
  BY DEF Intact
<1>2. BodyIn(t)
  BY <1>1, BodyBytes
<1>3. Len(BodyOf(t)) = Len(t) - 3 /\ BodyOf(t)[2] = t[2 + 1]
  BY <1>1, <1>2 DEF BodyIn
<1>4. t[3] \in Nat
  <2>1. t[3] \in Byte
    BY <1>1
  <2> QED
    BY <2>1, Constants, Zenon
<1>5. 2 + 1 = 3
  OBVIOUS
<1> QED
  BY <1>1, <1>3, <1>4, <1>5 DEF IsBody

(* A frame is intact when its two last bytes are the checksum of the rest. *)
LEMMA IntactCrc ==
  ASSUME NEW t \in Seq(Byte), NEW n \in 0 .. MaxPayload, NEW msg \in Seq(Byte),
         Len(t) = n + 5, t[1] = SofByte, IsBody(msg), Len(msg) = n + 2,
         \A i \in 1 .. n + 2 : msg[i] = t[i + 1]
  PROVE  /\ BodyOf(t) = msg
         /\ Intact(t) <=> Crc(msg) = <<t[n + 4], t[n + 5]>>
<1>1. BodyOf(t) = msg
  <2>0. BodyIn(t)
    BY BodyBytes
  <2>1. /\ BodyOf(t) \in Seq(Byte) /\ Len(BodyOf(t)) = n + 2
        /\ \A i \in 1 .. n + 2 : BodyOf(t)[i] = t[i + 1]
    BY <2>0 DEF BodyIn
  <2> QED
    BY <2>1, SeqEqual
<1>2. /\ n \in Nat /\ t[n + 4] \in Byte /\ t[n + 5] \in Byte
  OBVIOUS
<1>3. PICK lo \in Byte, high \in Byte : Crc(msg) = <<lo, high>>
  <2>1. msg \in [1 .. n + 2 -> Byte]
    OBVIOUS
  <2>2. Crc(msg) \in Byte \X Byte
    BY <2>1, Constants
  <2> QED
    BY <2>2
<1>4. /\ Encoded(msg) \in Seq(Byte) /\ Len(Encoded(msg)) = n + 5
      /\ Encoded(msg)[1] = SofByte
      /\ \A i \in 1 .. n + 2 : Encoded(msg)[1 + i] = msg[i]
      /\ Encoded(msg)[n + 4] = lo /\ Encoded(msg)[n + 5] = high
  <2>1. EncodedAs(msg, lo, high)
    BY <1>3, EncodedBytes
  <2>2. Len(msg) + 3 = n + 5 /\ Len(msg) + 2 = n + 4
    BY <1>2
  <2> QED
    BY <2>1, <2>2 DEF EncodedAs
<1>5. ASSUME Crc(msg) = <<t[n + 4], t[n + 5]>> PROVE t = Encoded(msg)
  <2>1. lo = t[n + 4] /\ high = t[n + 5]
    BY <1>3, <1>5
  <2>2. ASSUME NEW i \in 1 .. Len(t) PROVE t[i] = Encoded(msg)[i]
    <3>1. CASE i \in 2 .. n + 3
      <4>1. i - 1 \in 1 .. n + 2 /\ 1 + (i - 1) = i /\ (i - 1) + 1 = i
        BY <1>2, <3>1
      <4>2. Encoded(msg)[1 + (i - 1)] = msg[i - 1] /\ msg[i - 1] = t[(i - 1) + 1]
        BY <1>4, <4>1
      <4> QED
        BY <4>1, <4>2
    <3>2. i = 1 \/ i \in 2 .. n + 3 \/ i = n + 4 \/ i = n + 5
      BY <1>2
    <3> QED
      BY <1>4, <2>1, <3>1, <3>2
  <2> QED
    BY <1>4, <2>2, SeqEqual
<1>6. ASSUME t = Encoded(msg) PROVE Crc(msg) = <<t[n + 4], t[n + 5]>>
  BY <1>3, <1>4, <1>6
<1> QED
  BY <1>1, <1>2, <1>5, <1>6 DEF Intact

(* No byte of a frame is lost to the history.                              *)
Appended(b) ==
  /\ taken' \in Seq(Byte) /\ Len(taken') = Len(taken) + 1
  /\ \A i \in 1 .. Len(taken) : taken'[i] = taken[i]
  /\ taken'[Len(taken) + 1] = b

LEMMA RecordAppends ==
  ASSUME taken \in Seq(Byte), NEW b \in Byte, Len(taken) < MaxPayload + 5, Record(b)
  PROVE  Appended(b)
<1>1. taken' = Append(taken, b)
  BY DEF Record
<1> QED
  BY <1>1 DEF Appended

LEMMA PayloadStays ==
  ASSUME taken \in Seq(Byte), NEW b \in Byte, Appended(b), NEW n \in Nat, Len(taken) = n + 3,
         NEW payload, \A k \in 1 .. n : taken[3 + k] = payload[k]
  PROVE  /\ taken' \in Seq(Byte) /\ Len(taken') = n + 4 /\ taken'[n + 4] = b
         /\ taken'[1] = taken[1] /\ taken'[2] = taken[2] /\ taken'[3] = taken[3]
         /\ \A k \in 1 .. n : taken'[3 + k] = payload[k]
<1>1. ASSUME NEW k \in 1 .. n PROVE taken'[3 + k] = payload[k]
  <2>1. 3 + k \in 1 .. Len(taken)
    OBVIOUS
  <2>2. taken'[3 + k] = taken[3 + k]
    BY <2>1 DEF Appended
  <2> QED
    BY <2>2
<1>2. n + 3 + 1 = n + 4 /\ 1 \in 1 .. Len(taken) /\ 2 \in 1 .. Len(taken) /\ 3 \in 1 .. Len(taken)
  OBVIOUS
<1> QED
  BY <1>1, <1>2 DEF Appended

ParserType ==
  /\ frame \in command_frame_t
  /\ result \in {"PENDING", "IN_PROGRESS", "ERROR", "CRC_ERROR", "READY"}
  /\ accepted = <<>> \/ IsBody(accepted)
  /\ taken \in Seq(Byte) /\ Len(taken) <= MaxPayload + 5

ParserInv == ParserType /\ FieldsFromLine /\ AcceptedExactly

(* A step that accepts nothing is right unless it completes a frame.       *)
LEMMA NothingAccepted ==
  ASSUME accepted' = <<>>, taken' \in Seq(Byte), Len(taken') >= 5 => Len(taken') # 5 + taken'[3]
  PROVE  AcceptedExactly'
<1>1. ~ Intact(taken')
  BY IntactLength
<1>2. ~ Intact(taken)'
  BY <1>1 DEF Intact, BodyOf, Encoded, IsBody
<1> QED
  BY <1>2 DEF AcceptedExactly

LEMMA SofStep ==
  ASSUME ParserInv, NEW b \in Byte, OnSof(b)
  PROVE  ParserInv'
<1>1. frame \in command_frame_t /\ frame.state = "SOF" /\ accepted' = <<>>
  BY DEF ParserInv, ParserType, OnSof
<1>2. CASE b = SofByte /\ frame' = [frame EXCEPT !.state = "OPCODE"]
           /\ result' = "IN_PROGRESS" /\ taken' = <<b>>
  <2>1. taken' \in Seq(Byte) /\ Len(taken') = 1 /\ taken'[1] = SofByte
    BY <1>2
  <2>2. frame' \in command_frame_t /\ frame'.state = "OPCODE"
    BY <1>1, <1>2 DEF command_frame_t, State
  <2>3. ParserType'
    BY <1>1, <1>2, <2>1, <2>2, Constants DEF ParserType
  <2>4. FieldsFromLine'
    BY <2>1, <2>2 DEF FieldsFromLine, Header
  <2>5. AcceptedExactly'
    BY <1>1, <2>1, NothingAccepted
  <2> QED
    BY <2>3, <2>4, <2>5 DEF ParserInv
<1>3. CASE b # SofByte /\ UNCHANGED frame /\ result' = "PENDING" /\ taken' = <<>>
  <2>1. taken' \in Seq(Byte) /\ Len(taken') = 0
    BY <1>3
  <2>2. ParserType'
    BY <1>1, <1>3, <2>1, Constants DEF ParserType
  <2>3. FieldsFromLine'
    BY <1>1, <1>3 DEF FieldsFromLine
  <2>4. AcceptedExactly'
    BY <1>1, <2>1, NothingAccepted
  <2> QED
    BY <2>2, <2>3, <2>4 DEF ParserInv
<1> QED
  BY <1>2, <1>3 DEF OnSof

LEMMA OpcodeStep ==
  ASSUME ParserInv, NEW b \in Byte, OnOpcode(b)
  PROVE  ParserInv'
<1>1. /\ frame \in command_frame_t /\ frame.state = "OPCODE" /\ accepted' = <<>>
      /\ result' = "IN_PROGRESS" /\ Record(b) /\ Len(taken) = 1 /\ taken \in Seq(Byte)
      /\ taken[1] = SofByte /\ frame' = [frame EXCEPT !.opcode = b, !.state = "LENGTH"]
  BY DEF ParserInv, ParserType, FieldsFromLine, Header, OnOpcode, Take
<1>2. Appended(b)
  BY <1>1, RecordAppends, Constants
<1>3. taken' \in Seq(Byte) /\ Len(taken') = 2 /\ taken'[1] = SofByte /\ taken'[2] = b
  BY <1>1, <1>2 DEF Appended
<1>4. frame' \in command_frame_t /\ frame'.state = "LENGTH" /\ frame'.opcode = b
  BY <1>1 DEF command_frame_t, State
<1>5. ParserType'
  BY <1>1, <1>3, <1>4, Constants DEF ParserType
<1>6. FieldsFromLine'
  BY <1>3, <1>4 DEF FieldsFromLine, Header
<1>7. AcceptedExactly'
  BY <1>1, <1>3, NothingAccepted
<1> QED
  BY <1>5, <1>6, <1>7 DEF ParserInv

LEMMA LengthStep ==
  ASSUME ParserInv, NEW b \in Byte, OnLength(b)
  PROVE  ParserInv'
<1>1. /\ frame \in command_frame_t /\ frame.state = "LENGTH" /\ accepted' = <<>>
      /\ result' \in {"IN_PROGRESS", "ERROR"} /\ Record(b)
      /\ Len(taken) = 2 /\ taken \in Seq(Byte)
      /\ taken[1] = SofByte /\ taken[2] = frame.opcode
  BY DEF ParserInv, ParserType, FieldsFromLine, Header, OnLength, Take
<1>2. Appended(b)
  BY <1>1, RecordAppends, Constants
<1>3. /\ taken' \in Seq(Byte) /\ Len(taken') = 3 /\ taken'[1] = SofByte
      /\ taken'[2] = frame.opcode /\ taken'[3] = b
  BY <1>1, <1>2 DEF Appended
<1>4. /\ frame' \in command_frame_t /\ frame'.opcode = frame.opcode /\ frame'.length = b
      /\ \/ frame'.state = "SOF"
         \/ frame'.state = "CRC_LOW" /\ b = 0
         \/ frame'.state = "PAYLOAD" /\ b # 0 /\ b <= MaxPayload /\ frame'.payload_idx = 0
  <2>1. CASE TooLong(b) /\ frame' = [frame EXCEPT !.length = b, !.state = "SOF"]
    BY <1>1, <2>1 DEF command_frame_t, State
  <2>2. CASE b = 0 /\ frame' = [frame EXCEPT !.length = b, !.state = "CRC_LOW"]
    BY <1>1, <2>2 DEF command_frame_t, State
  <2>3. CASE b # 0 /\ ~ TooLong(b)
             /\ frame' = [frame EXCEPT !.length = b, !.payload_idx = 0, !.state = "PAYLOAD"]
    <3>1. b <= MaxPayload /\ 0 \in 0 .. MaxPayload - 1
      BY <2>3, Constants DEF TooLong
    <3> QED
      BY <1>1, <2>3, <3>1 DEF command_frame_t, State
  <2> QED
    BY <2>1, <2>2, <2>3 DEF OnLength
<1>5. ParserType'
  BY <1>1, <1>3, <1>4, Constants DEF ParserType
<1>6. FieldsFromLine'
  <2>1. b \in Nat
    BY Constants
  <2> QED
    BY <1>3, <1>4, <2>1, Constants DEF FieldsFromLine, Header, Payload
<1>7. AcceptedExactly'
  BY <1>1, <1>3, NothingAccepted
<1> QED
  BY <1>5, <1>6, <1>7 DEF ParserInv

LEMMA PayloadStep ==
  ASSUME ParserInv, NEW b \in Byte, OnPayload(b)
  PROVE  ParserInv'
<1> DEFINE i == frame.payload_idx
<1>1. /\ frame \in command_frame_t /\ frame.state = "PAYLOAD" /\ accepted' = <<>>
      /\ result' = "IN_PROGRESS" /\ Record(b)
      /\ Len(taken) = 3 + i /\ taken \in Seq(Byte) /\ taken[1] = SofByte
      /\ taken[2] = frame.opcode /\ taken[3] = frame.length
      /\ i < frame.length /\ frame.length <= MaxPayload
      /\ \A k \in 1 .. i : taken[3 + k] = frame.payload[k]
  <2>1. Header(3) /\ frame.state = "PAYLOAD" /\ ParserType /\ FieldsFromLine
    BY DEF ParserInv, FieldsFromLine, OnPayload, PayloadDone
  <2> QED
    BY <2>1 DEF ParserType, FieldsFromLine, Header, Payload, OnPayload, PayloadDone, Take
<1>2. i \in Nat /\ i \in 0 .. MaxPayload - 1 /\ frame.length \in Nat
  <2>1. frame.length \in Byte /\ i \in 0 .. MaxPayload - 1
    BY <1>1 DEF command_frame_t
  <2>2. frame.length \in Nat
    BY <2>1, Constants, Zenon
  <2> HIDE DEF i
  <2>3. i \in Nat
    BY <2>1
  <2> QED
    BY <2>1, <2>2, <2>3
<1>3. Appended(b)
  BY <1>1, <1>2, RecordAppends, Constants
<1>4. /\ taken' \in Seq(Byte) /\ Len(taken') = 4 + i /\ taken'[1] = SofByte
      /\ taken'[2] = frame.opcode /\ taken'[3] = frame.length
      /\ \A k \in 1 .. i : taken'[3 + k] = frame.payload[k]
      /\ taken'[3 + (i + 1)] = b
  <2>1. Len(taken) = i + 3 /\ i + 4 = 4 + i /\ 3 + (i + 1) = i + 4
    BY <1>1, <1>2
  <2> HIDE DEF i
  <2> QED
    BY <1>1, <1>2, <1>3, <2>1, PayloadStays
<1>5. /\ frame' \in command_frame_t /\ frame'.opcode = frame.opcode
      /\ frame'.length = frame.length
      /\ \A k \in 1 .. i : frame'.payload[k] = frame.payload[k]
      /\ frame'.payload[i + 1] = b
      /\ \/ frame'.state = "CRC_LOW" /\ i + 1 = frame.length
         \/ frame'.state = "PAYLOAD" /\ i + 1 # frame.length /\ frame'.payload_idx = i + 1
  <2>1. i + 1 \in 1 .. MaxPayload /\ \A k \in 1 .. i : k \in 1 .. MaxPayload /\ k # i + 1
    BY <1>2, Constants
  <2>2. CASE i + 1 = frame.length
    <3>1. frame' = [frame EXCEPT !.payload[i + 1] = b, !.payload_idx = 0, !.state = "CRC_LOW"]
      BY <2>2 DEF OnPayload, PayloadDone
    <3>2. 0 \in 0 .. MaxPayload - 1
      BY Constants
    <3> QED
      BY <1>1, <2>1, <2>2, <3>1, <3>2 DEF command_frame_t, State
  <2>3. CASE i + 1 # frame.length
    <3>1. frame' = [frame EXCEPT !.payload[i + 1] = b, !.payload_idx = i + 1]
      BY <2>3 DEF OnPayload, PayloadDone
    <3>2. i + 1 \in 0 .. MaxPayload - 1
      <4>1. i < frame.length /\ frame.length <= MaxPayload /\ i \in Nat /\ frame.length \in Nat
        BY <1>1, <1>2
      <4>2. MaxPayload \in Nat
        BY Constants
      <4> HIDE DEF i
      <4> QED
        BY <2>3, <4>1, <4>2
    <3> QED
      BY <1>1, <2>1, <2>3, <3>1, <3>2 DEF command_frame_t, State
  <2> QED
    BY <2>2, <2>3
<1>6. ParserType'
  BY <1>1, <1>2, <1>4, <1>5, Constants DEF ParserType
<1>7. \A k \in 1 .. i + 1 : taken'[3 + k] = frame'.payload[k]
  <2>1. ASSUME NEW k \in 1 .. i + 1 PROVE taken'[3 + k] = frame'.payload[k]
    <3>1. k \in 1 .. i \/ k = i + 1
      BY <1>2
    <3> QED
      BY <1>4, <1>5, <3>1
  <2> QED
    BY <2>1
<1>8. FieldsFromLine'
  <2>1. PICK n \in Nat : n = i + 1
    BY <1>2
  <2>2. /\ frame'.length = frame.length /\ n <= frame.length /\ frame.length <= MaxPayload
        /\ Len(taken') = 3 + n
    <3>1. frame'.length = frame.length /\ frame.length <= MaxPayload /\ i < frame.length
      BY <1>1, <1>5
    <3>2. Len(taken') = 4 + i
      BY <1>4
    <3> HIDE DEF i
    <3>3. n <= frame.length /\ Len(taken') = 3 + n
      BY <1>2, <2>1, <3>1, <3>2
    <3> QED
      BY <3>1, <3>3
  <2>3. Header(3)'
    BY <1>1, <1>4, <1>5, <2>2 DEF Header
  <2>4. Payload(n)'
    BY <1>7, <2>1 DEF Payload
  <2>5. CASE frame'.state = "CRC_LOW" /\ n = frame.length
    <3>1. Payload(frame.length)' /\ Len(taken') = 3 + frame'.length
      BY <2>2, <2>4, <2>5
    <3> QED
      BY <2>2, <2>3, <2>5, <3>1 DEF FieldsFromLine
  <2>6. CASE frame'.state = "PAYLOAD" /\ n # frame.length /\ frame'.payload_idx = n
    <3>1. Payload(frame.payload_idx)' /\ n < frame.length
      BY <1>2, <2>2, <2>4, <2>6
    <3> QED
      BY <2>2, <2>3, <2>6, <3>1 DEF FieldsFromLine
  <2> QED
    BY <1>5, <2>1, <2>5, <2>6
<1>9. AcceptedExactly'
  BY <1>1, <1>2, <1>4, NothingAccepted
<1> QED
  BY <1>6, <1>8, <1>9 DEF ParserInv

LEMMA CrcLowStep ==
  ASSUME ParserInv, NEW b \in Byte, OnCrcLow(b)
  PROVE  ParserInv'
<1>1. /\ frame \in command_frame_t /\ frame.state = "CRC_LOW" /\ accepted' = <<>>
      /\ result' = "IN_PROGRESS" /\ Record(b)
      /\ Len(taken) = 3 + frame.length /\ taken \in Seq(Byte) /\ taken[1] = SofByte
      /\ taken[2] = frame.opcode /\ taken[3] = frame.length /\ frame.length <= MaxPayload
      /\ \A k \in 1 .. frame.length : taken[3 + k] = frame.payload[k]
      /\ frame' = [frame EXCEPT !.crc_low = b, !.state = "CRC_HIGH"]
  <2>1. Header(3) /\ frame.state = "CRC_LOW" /\ ParserType /\ FieldsFromLine
    BY DEF ParserInv, FieldsFromLine, OnCrcLow
  <2> QED
    BY <2>1 DEF ParserType, FieldsFromLine, Header, Payload, OnCrcLow, Take
<1>2. frame.length \in Nat
  <2>1. frame.length \in Byte
    BY <1>1 DEF command_frame_t
  <2> QED
    BY <2>1, Constants, Zenon
<1>3. Appended(b)
  BY <1>1, <1>2, RecordAppends, Constants
<1>4. /\ taken' \in Seq(Byte) /\ Len(taken') = 4 + frame.length /\ taken'[1] = SofByte
      /\ taken'[2] = frame.opcode /\ taken'[3] = frame.length
      /\ \A k \in 1 .. frame.length : taken'[3 + k] = frame.payload[k]
      /\ taken'[4 + frame.length] = b
  <2> DEFINE n == frame.length
  <2>1. /\ Len(taken) = n + 3 /\ n + 4 = 4 + n /\ n \in Nat
        /\ taken[1] = SofByte /\ taken[2] = frame.opcode /\ taken[3] = n /\ taken \in Seq(Byte)
        /\ \A k \in 1 .. n : taken[3 + k] = frame.payload[k]
    BY <1>1, <1>2
  <2>2. /\ taken' \in Seq(Byte) /\ Len(taken') = 4 + n /\ taken'[1] = SofByte
        /\ taken'[2] = frame.opcode /\ taken'[3] = n
        /\ \A k \in 1 .. n : taken'[3 + k] = frame.payload[k]
        /\ taken'[4 + n] = b
    <3> HIDE DEF n
    <3> QED
      BY <1>3, <2>1, PayloadStays
  <2> QED
    BY <2>2
<1>5. /\ frame' \in command_frame_t /\ frame'.state = "CRC_HIGH" /\ frame'.crc_low = b
      /\ frame'.opcode = frame.opcode /\ frame'.length = frame.length
      /\ frame'.payload = frame.payload
  BY <1>1 DEF command_frame_t, State
<1>6. ParserType'
  <2>1. frame.length <= MaxPayload /\ Len(taken') = 4 + frame.length
    BY <1>1, <1>4
  <2>2. Len(taken') <= MaxPayload + 5
    BY <1>2, <2>1, Constants
  <2> QED
    BY <1>1, <1>4, <1>5, <2>2 DEF ParserType
<1>7. FieldsFromLine'
  BY <1>1, <1>2, <1>4, <1>5 DEF FieldsFromLine, Header, Payload
<1>8. AcceptedExactly'
  BY <1>1, <1>2, <1>4, NothingAccepted
<1> QED
  BY <1>6, <1>7, <1>8 DEF ParserInv

(* The last byte: here the serialised fields are the body on the line.     *)
LEMMA CrcHighStep ==
  ASSUME ParserInv, NEW b \in Byte, OnCrcHigh(b)
  PROVE  ParserInv'
<1> DEFINE n == frame.length
<1>1. /\ frame \in command_frame_t /\ frame.state = "CRC_HIGH" /\ Record(b)
      /\ Len(taken) = 4 + n /\ taken \in Seq(Byte) /\ taken[1] = SofByte
      /\ taken[2] = frame.opcode /\ taken[3] = n /\ n <= MaxPayload
      /\ \A k \in 1 .. n : taken[3 + k] = frame.payload[k]
      /\ taken[4 + n] = frame.crc_low
      /\ frame' = [frame EXCEPT !.state = "SOF"]
  <2>1. Header(3) /\ frame.state = "CRC_HIGH" /\ ParserType /\ FieldsFromLine
    BY DEF ParserInv, FieldsFromLine, OnCrcHigh
  <2> QED
    BY <2>1 DEF ParserType, FieldsFromLine, Header, Payload, OnCrcHigh
<1>2. n \in Nat /\ n \in 0 .. MaxPayload
  BY <1>1, Constants DEF command_frame_t
<1>3. Appended(b)
  BY <1>1, <1>2, RecordAppends, Constants
<1>4. /\ taken' \in Seq(Byte) /\ Len(taken') = n + 5 /\ taken'[1] = SofByte
      /\ taken'[2] = frame.opcode /\ taken'[3] = n
      /\ \A k \in 1 .. n : taken'[3 + k] = frame.payload[k]
      /\ taken'[n + 4] = frame.crc_low /\ taken'[n + 5] = b
  <2>1. /\ Len(taken) = n + 4 /\ n + 4 + 1 = n + 5 /\ taken[n + 4] = frame.crc_low
        /\ \A k \in {1, 2, 3, n + 4} : k \in 1 .. Len(taken)
        /\ \A k \in 1 .. n : 3 + k \in 1 .. Len(taken)
    BY <1>1, <1>2
  <2>2. ASSUME NEW k \in 1 .. n PROVE taken'[3 + k] = frame.payload[k]
    BY <1>1, <1>3, <2>1 DEF Appended
  <2> QED
    BY <1>1, <1>2, <1>3, <2>1, <2>2 DEF Appended
<1>5. /\ Serialize \in Seq(Byte) /\ Len(Serialize) = n + 2 /\ IsBody(Serialize)
      /\ Serialize[1] = frame.opcode /\ Serialize[2] = n
      /\ \A i \in 1 .. n : Serialize[2 + i] = frame.payload[i]
  BY <1>1, SerializeIsBody
<1>6. ASSUME NEW i \in 1 .. n + 2 PROVE Serialize[i] = taken'[i + 1]
  <2>1. CASE i \in 3 .. n + 2
    <3>1. i - 2 \in 1 .. n /\ 2 + (i - 2) = i /\ 3 + (i - 2) = i + 1
      BY <1>2, <2>1
    <3> QED
      BY <1>4, <1>5, <3>1
  <2>2. i = 1 \/ i = 2 \/ i \in 3 .. n + 2
    BY <1>2
  <2> QED
    BY <1>4, <1>5, <2>1, <2>2
<1>7. /\ BodyOf(taken') = Serialize
      /\ Intact(taken') <=> Crc(Serialize) = <<taken'[n + 4], taken'[n + 5]>>
  <2> HIDE DEF n
  <2> QED
    BY <1>2, <1>4, <1>5, <1>6, IntactCrc
<1>8. /\ Intact(taken)' <=> Crc(Serialize) = <<frame.crc_low, b>>
      /\ BodyOf(taken)' = Serialize
  BY <1>4, <1>7 DEF Intact, BodyOf, Encoded, IsBody
<1>9. /\ accepted' = IF Crc(Serialize) = <<frame.crc_low, b>> THEN Serialize ELSE <<>>
      /\ result' \in {"READY", "CRC_ERROR"}
  BY DEF OnCrcHigh
<1>10. AcceptedExactly'
  BY <1>8, <1>9 DEF AcceptedExactly
<1>11. frame' \in command_frame_t /\ frame'.state = "SOF"
  BY <1>1 DEF command_frame_t, State
<1>12. FieldsFromLine'
  BY <1>11 DEF FieldsFromLine
<1>13. ParserType'
  <2>1. Len(taken') <= MaxPayload + 5
    BY <1>2, <1>4, Constants
  <2>2. accepted' = <<>> \/ accepted' = Serialize
    BY <1>9
  <2>3. accepted' = <<>> \/ IsBody(accepted')
    BY <1>5, <2>2
  <2> QED
    BY <1>4, <1>9, <1>11, <2>1, <2>3 DEF ParserType, IsBody
<1> QED
  BY <1>10, <1>12, <1>13 DEF ParserInv

LEMMA FeedStep ==
  ASSUME ParserInv, NEW b \in Byte, Feed(b)
  PROVE  ParserInv'
BY SofStep, OpcodeStep, LengthStep, PayloadStep, CrcLowStep, CrcHighStep DEF Feed
-----------------------------------------------------------------------------
LEMMA HostFrame ==
  ASSUME NEW msg \in HostBody
  PROVE  /\ msg # <<>> /\ Len(Encoded(msg)) \in Nat /\ Len(Encoded(msg)) > 0
         /\ \A k \in 1 .. Len(Encoded(msg)) : Encoded(msg)[k] \in Byte
<1>1. msg \in Seq(Byte) /\ Len(msg) >= 2 /\ msg[2] <= MaxPayload /\ Len(msg) = 2 + msg[2]
  BY FrameAssumption DEF IsBody
<1>2. PICK n \in 0 .. MaxPayload : Len(msg) = n + 2
  <2>1. msg[2] \in Byte
    BY <1>1
  <2>2. msg[2] \in Nat
    BY <2>1, Constants, Zenon
  <2>3. msg[2] \in 0 .. MaxPayload /\ 2 + msg[2] = msg[2] + 2
    BY <1>1, <2>2, Constants
  <2> QED
    BY <1>1, <2>3
<1>3. PICK lo \in Byte, high \in Byte : Crc(msg) = <<lo, high>>
  <2>1. msg \in [1 .. n + 2 -> Byte]
    BY <1>1, <1>2
  <2>2. Crc(msg) \in Byte \X Byte
    BY <2>1, Constants
  <2> QED
    BY <2>2
<1>4. EncodedAs(msg, lo, high)
  BY <1>1, <1>3, EncodedBytes
<1>5. Encoded(msg) \in Seq(Byte) /\ Len(Encoded(msg)) = Len(msg) + 3
  BY <1>4 DEF EncodedAs
<1> QED
  BY <1>1, <1>5

LEMMA ParserStutters ==
  ASSUME ParserInv, UNCHANGED parserVars
  PROVE  ParserInv'
<1>1. frame' = frame /\ result' = result /\ accepted' = accepted /\ taken' = taken
  BY DEF parserVars
<1>2. ParserType'
  BY <1>1 DEF ParserInv, ParserType, command_frame_t, IsBody
<1>3. FieldsFromLine'
  BY <1>1 DEF ParserInv, FieldsFromLine, Header, Payload
<1>4. AcceptedExactly'
  BY <1>1 DEF ParserInv, AcceptedExactly, Intact, BodyOf, Encoded, IsBody
<1> QED
  BY <1>2, <1>3, <1>4 DEF ParserInv

LEMMA FrameInitInv == FrameInit => FrameInv
<1> SUFFICES ASSUME FrameInit PROVE FrameInv
  OBVIOUS
<1>1. 0 \in 0 .. MaxPayload - 1
  BY Constants
<1>2. /\ frame \in command_frame_t /\ frame.state = "SOF"
      /\ taken \in Seq(Byte) /\ Len(taken) = 0 /\ 0 <= MaxPayload + 5
  BY <1>1, Constants DEF FrameInit, command_frame_t, State
<1>3. FrameTypeOK
  BY <1>2 DEF FrameInit, FrameTypeOK
<1>4. AcceptedExactly
  BY <1>2 DEF FrameInit, AcceptedExactly, Intact
<1> QED
  BY <1>2, <1>3, <1>4 DEF FrameInv, FrameInit, FieldsFromLine, HostPlace

LEMMA FrameStepInv == FrameInv /\ [FrameNext]_frameVars => FrameInv'
<1> SUFFICES ASSUME FrameInv, [FrameNext]_frameVars PROVE FrameInv'
  OBVIOUS
<1>1. /\ ParserInv /\ HostPlace
      /\ host \in HostBody \cup {<<>>} /\ sent \in Nat /\ lost \in Nat
  BY DEF FrameInv, FrameTypeOK, ParserInv, ParserType
<1>2. ASSUME ParserInv', HostPlace', host' \in HostBody \cup {<<>>}, sent' \in Nat, lost' \in Nat
      PROVE  FrameInv'
  BY <1>2 DEF FrameInv, FrameTypeOK, ParserInv, ParserType
<1>3. CASE Noise
  <2>1. ParserInv'
    BY <1>1, <1>3, FeedStep DEF Noise
  <2>2. HostPlace'
    BY <1>1, <1>3 DEF Noise, HostPlace
  <2> QED
    BY <1>1, <1>2, <1>3, <2>1, <2>2 DEF Noise
<1>4. CASE HostBegins
  <2>1. ParserInv'
    BY <1>1, <1>4, ParserStutters DEF HostBegins
  <2>2. sent = 0 /\ sent' = 0 /\ host' \in HostBody
    BY <1>1, <1>4 DEF HostBegins, HostPlace
  <2>3. HostPlace'
    BY <2>2, HostFrame DEF HostPlace, Encoded
  <2> QED
    BY <1>1, <1>2, <1>4, <2>1, <2>2, <2>3 DEF HostBegins
<1>5. CASE HostByte
  <2>1. host \in HostBody /\ host' = host
    BY <1>1, <1>5 DEF HostByte
  <2> DEFINE wire == Encoded(host)
  <2>2. /\ Len(wire) \in Nat /\ Len(wire) > 0 /\ host # <<>>
        /\ \A k \in 1 .. Len(wire) : wire[k] \in Byte
    BY <2>1, HostFrame
  <2>3. sent < Len(wire)
    BY <1>1, <2>2 DEF HostPlace
  <2>4. /\ Feed(wire[sent + 1]) /\ sent' = (sent + 1) % Len(wire)
        /\ lost' = lost \/ lost' = lost + 1
    BY <1>5 DEF HostByte
  <2> HIDE DEF wire
  <2>5. wire[sent + 1] \in Byte
    BY <1>1, <2>2, <2>3
  <2>6. ParserInv'
    BY <1>1, <2>4, <2>5, FeedStep
  <2>7. sent' \in Nat /\ sent' < Len(wire)
    BY <1>1, <2>2, <2>4
  <2>8. HostPlace'
    BY <2>1, <2>2, <2>7 DEF HostPlace, wire, Encoded
  <2>9. lost' \in Nat
    BY <1>1, <2>4
  <2> QED
    BY <1>1, <1>2, <2>1, <2>6, <2>7, <2>8, <2>9
<1>6. CASE UNCHANGED frameVars
  <2>1. ParserInv'
    BY <1>1, <1>6, ParserStutters DEF frameVars, parserVars
  <2>2. HostPlace'
    BY <1>1, <1>6 DEF frameVars, HostPlace, Encoded
  <2> QED
    BY <1>1, <1>2, <1>6, <2>1, <2>2 DEF frameVars
<1> QED
  BY <1>3, <1>4, <1>5, <1>6 DEF FrameNext

(* The strengthening that every byte preserves: the fields the parser has  *)
(* filled so far are the bytes on the line since the start byte.           *)
THEOREM ParserInductive == FrameSpec => []FrameInv
  BY FrameInitInv, FrameStepInv, PTL DEF FrameSpec

(* The parser's fields keep their types on any line: no payload byte is    *)
(* stored past the end of its buffer, whatever length byte comes in.       *)
THEOREM FrameTypeCorrect == FrameSpec => []FrameTypeOK
<1>1. FrameInv => FrameTypeOK
  BY DEF FrameInv
<1> QED
  BY <1>1, ParserInductive, PTL

(* A command is dispatched exactly when the bytes since the start byte are *)
(* an intact frame, and it is that frame's command: for every checksum,    *)
(* every greatest length and everything the line can carry.                *)
THEOREM AlwaysAcceptedExactly == FrameSpec => []AcceptedExactly
<1>1. FrameInv => AcceptedExactly
  BY DEF FrameInv
<1> QED
  BY <1>1, ParserInductive, PTL

-----------------------------------------------------------------------------
(* RESYNCHRONISATION.  Of the copies the host repeats, the first are       *)
(* swallowed by the frame the noise has begun, which holds everything the  *)
(* host has sent so far; then the parser waits for a start byte, and the   *)
(* next one it sees is that of a copy; from there on it is in step.        *)
Bound(msg) == 1 + (MaxPayload + 3) \div Len(Encoded(msg))

Swallowed(msg) ==
  /\ frame.state # "SOF"
  /\ lost * Len(Encoded(msg)) + sent + 1 <= Len(taken)

Hunting(msg) ==
  /\ frame.state = "SOF"
  /\ sent # 0
  /\ lost < Bound(msg)

InStep(msg) ==
  /\ lost <= Bound(msg)
  /\ sent = 0 => frame.state = "SOF"
  /\ sent # 0 => /\ frame.state # "SOF"
                 /\ Len(taken) = sent
                 /\ \A k \in 1 .. sent : taken[k] = Encoded(msg)[k]

LossInv ==
  /\ host = <<>> => lost = 0
  /\ \A msg \in HostBody : host = msg => Swallowed(msg) \/ Hunting(msg) \/ InStep(msg)

LEMMA QuotientBounds ==
  ASSUME NEW a \in Nat, NEW b \in Nat \ {0}
  PROVE  a \div b \in Nat /\ (a \div b) * b <= a /\ a < (a \div b) * b + b
  BY Z3

LEMMA FewerTimes ==
  ASSUME NEW a \in Nat, NEW b \in Nat \ {0}, NEW c \in Nat, c * b <= a
  PROVE  c <= a \div b
<1> DEFINE q == a \div b
<1>1. q \in Nat /\ a < q * b + b
  BY QuotientBounds
<1> HIDE DEF q
<1>2. q < c => (q + 1) * b <= c * b
  <2> SUFFICES ASSUME q < c PROVE (q + 1) * b <= c * b
    OBVIOUS
  <2>1. PICK d \in Nat : c = (q + 1) + d
    <3>1. c - (q + 1) \in Nat /\ c = (q + 1) + (c - (q + 1))
      BY <1>1
    <3> QED
      BY <3>1
  <2>2. ((q + 1) + d) * b = (q + 1) * b + d * b /\ d * b >= 0
    BY <1>1, Z3
  <2>3. (q + 1) * b \in Nat /\ d * b \in Nat
    BY <1>1
  <2> QED
    BY <2>1, <2>2, <2>3
<1>3. (q + 1) * b = q * b + b /\ q * b \in Nat /\ c * b \in Nat
  BY <1>1, Z3
<1>4. c \in Nat /\ q \in Nat /\ (q < c \/ c <= q)
  BY <1>1
<1>5. ~ q < c
  BY <1>1, <1>2, <1>3
<1> QED
  BY <1>4, <1>5 DEF q

LEMMA OneMore ==
  ASSUME NEW c \in Nat, NEW n \in Nat
  PROVE  (c + 1) * n = c * n + n /\ c * n \in Nat /\ 0 * n = 0
  BY Z3

LEMMA Wraps ==
  ASSUME NEW a \in Nat, NEW n \in Nat \ {0}, a < n
  PROVE  (a + 1) % n = IF a + 1 = n THEN 0 ELSE a + 1
  BY Z3

(* The host's frame: one start byte, at its beginning, and the length in   *)
(* its place.                                                              *)
LEMMA HostWire ==
  ASSUME NEW msg \in HostBody
  PROVE  LET wire == Encoded(msg)
         IN  /\ wire \in Seq(Byte) /\ wire[1] = SofByte
             /\ \A k \in 2 .. Len(wire) : wire[k] # SofByte
             /\ \E n \in 0 .. MaxPayload : Len(wire) = n + 5 /\ wire[3] = n
             /\ Intact(wire) /\ BodyOf(wire) = msg
<1>1. /\ IsBody(msg) /\ msg \in Seq(Byte)
      /\ \A k \in 2 .. Len(Encoded(msg)) : Encoded(msg)[k] # SofByte
  BY FrameAssumption DEF IsBody
<1>2. PICK n \in 0 .. MaxPayload : Len(msg) = n + 2 /\ msg[2] = n
  <2>1. msg[2] \in Byte /\ msg[2] <= MaxPayload /\ Len(msg) = 2 + msg[2]
    BY <1>1 DEF IsBody
  <2>2. msg[2] \in Nat
    BY <2>1, Constants, Zenon
  <2>3. msg[2] \in 0 .. MaxPayload /\ 2 + msg[2] = msg[2] + 2
    BY <2>1, <2>2, Constants
  <2> QED
    BY <2>1, <2>3
<1>3. PICK lo \in Byte, high \in Byte : Crc(msg) = <<lo, high>>
  <2>1. msg \in [1 .. n + 2 -> Byte]
    BY <1>1, <1>2
  <2>2. Crc(msg) \in Byte \X Byte
    BY <2>1, Constants
  <2> QED
    BY <2>2
<1>4. EncodedAs(msg, lo, high)
  BY <1>1, <1>3, EncodedBytes
<1>5. /\ Encoded(msg) \in Seq(Byte) /\ Len(Encoded(msg)) = n + 5
      /\ Encoded(msg)[1] = SofByte /\ Encoded(msg)[3] = n
      /\ \A i \in 1 .. n + 2 : msg[i] = Encoded(msg)[i + 1]
  <2>1. n \in Nat /\ 2 \in 1 .. Len(msg) /\ 1 + 2 = 3
    BY <1>2
  <2>2. \A i \in 1 .. n + 2 : 1 + i = i + 1
    BY <2>1
  <2> QED
    BY <1>2, <1>4, <2>1, <2>2 DEF EncodedAs
<1>6. BodyOf(Encoded(msg)) = msg
  BY <1>1, <1>2, <1>5, IntactCrc
<1>7. Intact(Encoded(msg))
  BY <1>1, <1>2, <1>5, <1>6 DEF Intact
<1> QED
  BY <1>1, <1>5, <1>6, <1>7

(* How much of a frame the parser has taken in each of its states.         *)
LEMMA TakenByState ==
  ASSUME ParserInv, frame.state # "SOF"
  PROVE  /\ Len(taken) >= 1 /\ Len(taken) <= MaxPayload + 4 /\ Len(taken) \in Nat
         /\ frame.state \in {"OPCODE", "LENGTH"} => Len(taken) <= 2
         /\ frame.state = "LENGTH" => Len(taken) = 2
         /\ frame.state \in {"PAYLOAD", "CRC_LOW"} => Len(taken) >= 3 /\ Len(taken) < 4 + taken[3]
         /\ frame.state = "CRC_HIGH" => Len(taken) >= 4 /\ Len(taken) = 4 + taken[3]
<1>1. /\ frame \in command_frame_t /\ FieldsFromLine /\ taken \in Seq(Byte)
  BY DEF ParserInv, ParserType
<1>2. PICK n : n = frame.length
  OBVIOUS
<1>3. PICK i : i = frame.payload_idx
  OBVIOUS
<1>4. n \in Nat /\ i \in Nat
  <2>1. frame.length \in Byte /\ frame.payload_idx \in 0 .. MaxPayload - 1
    BY <1>1 DEF command_frame_t
  <2>2. frame.length \in Nat
    BY <2>1, Constants, Zenon
  <2> QED
    BY <1>2, <1>3, <2>1, <2>2
<1>5. frame.state \in State
  BY <1>1 DEF command_frame_t
<1>6. CASE frame.state = "OPCODE"
  <2>1. Len(taken) = 1
    BY <1>1, <1>6 DEF FieldsFromLine
  <2> QED
    BY <1>6, <2>1, Constants
<1>7. CASE frame.state = "LENGTH"
  <2>1. Len(taken) = 2
    BY <1>1, <1>7 DEF FieldsFromLine
  <2> QED
    BY <1>7, <2>1, Constants
<1>8. CASE frame.state = "PAYLOAD"
  <2>1. Len(taken) = 3 + i /\ taken[3] = n /\ i < n /\ n <= MaxPayload
    BY <1>1, <1>2, <1>3, <1>8 DEF FieldsFromLine, Header
  <2> QED
    BY <1>4, <1>8, <2>1, Constants
<1>9. CASE frame.state = "CRC_LOW"
  <2>1. Len(taken) = 3 + n /\ taken[3] = n /\ n <= MaxPayload
    BY <1>1, <1>2, <1>9 DEF FieldsFromLine, Header
  <2> QED
    BY <1>4, <1>9, <2>1, Constants
<1>10. CASE frame.state = "CRC_HIGH"
  <2>1. Len(taken) = 4 + n /\ taken[3] = n /\ n <= MaxPayload
    BY <1>1, <1>2, <1>10 DEF FieldsFromLine, Header
  <2> QED
    BY <1>4, <1>10, <2>1, Constants
<1> QED
  BY <1>5, <1>6, <1>7, <1>8, <1>9, <1>10 DEF State

(* What a byte does to the parser, seen from outside.                      *)
LEMMA FeedOutside ==
  ASSUME ParserInv, NEW b \in Byte, Feed(b)
  PROVE  /\ frame.state = "SOF" =>
              IF b = SofByte THEN frame'.state = "OPCODE" /\ taken' = <<b>>
                             ELSE frame'.state = "SOF"
         /\ frame.state # "SOF" => Appended(b)
         /\ frame.state \in {"OPCODE", "PAYLOAD", "CRC_LOW"} => frame'.state # "SOF"
         /\ frame.state = "LENGTH" /\ b <= MaxPayload => frame'.state # "SOF"
         /\ frame.state = "CRC_HIGH" => frame'.state = "SOF"
<1>1. frame \in command_frame_t /\ taken \in Seq(Byte)
  BY DEF ParserInv, ParserType
<1>2. ASSUME frame.state # "SOF", Record(b) PROVE Appended(b)
  <2>1. Len(taken) < MaxPayload + 5
    BY <1>2, TakenByState, Constants
  <2> QED
    BY <1>1, <1>2, <2>1, RecordAppends
<1>3. CASE OnSof(b)
  <2>1. CASE frame' = [frame EXCEPT !.state = "OPCODE"] /\ b = SofByte /\ taken' = <<b>>
    BY <1>1, <1>3, <2>1 DEF OnSof, command_frame_t
  <2>2. CASE frame' = frame /\ b # SofByte
    BY <1>1, <1>3, <2>2 DEF OnSof, command_frame_t
  <2> QED
    BY <1>3, <2>1, <2>2 DEF OnSof
<1>4. CASE OnOpcode(b)
  <2>1. frame.state = "OPCODE" /\ Record(b) /\ frame'.state = "LENGTH"
    BY <1>1, <1>4 DEF OnOpcode, Take, command_frame_t
  <2> QED
    BY <1>2, <2>1
<1>5. CASE OnLength(b)
  <2>1. /\ frame.state = "LENGTH" /\ Record(b)
        /\ \/ TooLong(b)
           \/ frame'.state \in {"CRC_LOW", "PAYLOAD"}
    BY <1>1, <1>5 DEF OnLength, Take, command_frame_t
  <2>2. b \in Nat /\ MaxPayload \in Nat
    BY Constants, Zenon
  <2>3. TooLong(b) => ~ b <= MaxPayload
    BY <2>2 DEF TooLong
  <2> QED
    BY <1>2, <2>1, <2>3
<1>6. CASE OnPayload(b)
  <2>1. frame.state = "PAYLOAD" /\ Record(b) /\ frame'.state \in {"CRC_LOW", "PAYLOAD"}
    BY <1>1, <1>6 DEF OnPayload, Take, command_frame_t
  <2> QED
    BY <1>2, <2>1
<1>7. CASE OnCrcLow(b)
  BY <1>1, <1>2, <1>7 DEF OnCrcLow, Take, command_frame_t
<1>8. CASE OnCrcHigh(b)
  BY <1>1, <1>2, <1>8 DEF OnCrcHigh, command_frame_t
<1> QED
  BY <1>3, <1>4, <1>5, <1>6, <1>7, <1>8 DEF Feed

(* One more byte of the host's frame.                                      *)
LEMMA LossStep ==
  ASSUME FrameInv, LossInv, ParserInv', AcceptedExactly', HostByte, NEW msg \in HostBody, host = msg
  PROVE  Swallowed(msg)' \/ Hunting(msg)' \/ InStep(msg)'
<1> DEFINE wire == Encoded(msg)
           L == Len(wire)
           B == Bound(msg)
<1>1. /\ ParserInv /\ sent \in Nat /\ lost \in Nat /\ taken \in Seq(Byte)
      /\ msg # <<>>
  BY HostFrame DEF FrameInv, FrameTypeOK, ParserInv, ParserType
<1>2. PICK n \in 0 .. MaxPayload : L = n + 5 /\ wire[3] = n
  BY HostWire
<1>3. /\ wire \in Seq(Byte) /\ wire[1] = SofByte
      /\ \A k \in 2 .. L : wire[k] # SofByte
      /\ Intact(wire) /\ BodyOf(wire) = msg
  BY HostWire
<1>4. n \in Nat /\ MaxPayload \in Nat /\ n <= MaxPayload /\ L \in Nat \ {0} /\ L >= 5
  BY <1>2, Constants
<1>5. sent < L
  BY <1>1 DEF FrameInv, HostPlace
<1>6. /\ Feed(wire[sent + 1]) /\ sent' = (sent + 1) % L
      /\ lost' = IF sent' = 0 /\ accepted' # msg /\ lost <= B THEN lost + 1 ELSE lost
  BY DEF HostByte, LossBound, Bound
<1>7. B \in Nat /\ B = 1 + (MaxPayload + 3) \div L /\ (MaxPayload + 3) \div L \in Nat
  <2>1. MaxPayload + 3 \in Nat
    BY <1>4
  <2> HIDE DEF L
  <2>2. (MaxPayload + 3) \div L \in Nat
    BY <1>4, <2>1, QuotientBounds
  <2>3. B = 1 + (MaxPayload + 3) \div L
    BY DEF Bound, L
  <2> QED
    BY <2>2, <2>3
<1>8. Swallowed(msg) \/ Hunting(msg) \/ InStep(msg)
  BY DEF LossInv
<1>9. PICK b \in Byte : b = wire[sent + 1]
  BY <1>1, <1>3, <1>4, <1>5
<1>10. sent' = IF sent + 1 = L THEN 0 ELSE sent + 1
  <2> HIDE DEF L
  <2> QED
    BY <1>1, <1>4, <1>5, <1>6, Wraps
<1>11. lost' \in Nat /\ lost' <= lost + 1 /\ (sent' # 0 => lost' = lost)
  BY <1>1, <1>6
<1>12. /\ Swallowed(msg) <=> frame.state # "SOF" /\ lost * L + sent + 1 <= Len(taken)
       /\ Hunting(msg) <=> frame.state = "SOF" /\ sent # 0 /\ lost < B
       /\ InStep(msg) <=> /\ lost <= B
                          /\ sent = 0 => frame.state = "SOF"
                          /\ sent # 0 => /\ frame.state # "SOF" /\ Len(taken) = sent
                                         /\ \A k \in 1 .. sent : taken[k] = wire[k]
  BY DEF Swallowed, Hunting, InStep
<1>13. /\ Swallowed(msg)' <=> frame'.state # "SOF" /\ lost' * L + sent' + 1 <= Len(taken')
       /\ Hunting(msg)' <=> frame'.state = "SOF" /\ sent' # 0 /\ lost' < B
       /\ InStep(msg)' <=> /\ lost' <= B
                           /\ sent' = 0 => frame'.state = "SOF"
                           /\ sent' # 0 => /\ frame'.state # "SOF" /\ Len(taken') = sent'
                                           /\ \A k \in 1 .. sent' : taken'[k] = wire[k]
  BY DEF Swallowed, Hunting, InStep
<1>14. PICK m \in Nat : m = Len(taken)
  BY <1>1
<1> HIDE DEF wire, L, B
<1>15. CASE Swallowed(msg)
  <2>1. frame.state # "SOF" /\ lost * L + sent + 1 <= m
    BY <1>12, <1>14, <1>15
  <2>2. m <= MaxPayload + 4
    BY <1>1, <1>14, <2>1, TakenByState
  <2>3. Len(taken') = m + 1
    BY <1>1, <1>6, <1>9, <1>14, <2>1, FeedOutside DEF Appended
  <2>4. PICK x \in Nat : x = lost * L
    BY <1>1, <1>4
  <2>5. PICK y \in Nat : y = lost' * L
    <3>1. lost' * L \in Nat
      BY <1>4, <1>11, OneMore
    <3> QED
      BY <3>1
  <2>6. \/ y = x
        \/ y = x + L /\ sent' = 0
    <3>1. CASE lost' = lost
      BY <2>4, <2>5, <3>1
    <3>2. CASE lost' = lost + 1 /\ sent' = 0
      <4>1. (lost + 1) * L = lost * L + L
        BY <1>1, <1>4, OneMore
      <4> QED
        BY <2>4, <2>5, <3>2, <4>1
    <3> QED
      BY <1>6, <3>1, <3>2
  <2>7. y + sent' <= x + sent + 1
    <3>1. sent' = 0 => sent + 1 = L
      BY <1>1, <1>10
    <3>2. sent' = 0 \/ sent' = sent + 1
      BY <1>10
    <3>3. \/ y = x /\ sent' \in {0, sent + 1}
          \/ y = x + (sent + 1) /\ sent' = 0
      BY <2>6, <3>1, <3>2
    <3> QED
      BY <1>1, <2>4, <2>5, <3>3
  <2>8. x + sent + 1 <= m
    BY <2>1, <2>4
  <2>9. CASE frame'.state # "SOF"
    <3>1. lost' * L + sent' + 1 <= m + 1
      <4>1. sent' \in Nat
        BY <1>1, <1>10
      <4>2. y + sent' + 1 <= m + 1
        BY <1>1, <1>14, <2>4, <2>5, <2>7, <2>8, <4>1
      <4> QED
        BY <2>5, <4>2
    <3> QED
      BY <1>13, <2>3, <2>9, <3>1
  <2>10. CASE frame'.state = "SOF"
    <3>1. x <= MaxPayload + 3
      BY <1>1, <1>4, <2>2, <2>4, <2>8
    <3>2. lost <= (MaxPayload + 3) \div L
      <4>1. MaxPayload + 3 \in Nat /\ lost * L <= MaxPayload + 3
        BY <1>4, <2>4, <3>1
      <4> QED
        BY <1>1, <1>4, <4>1, FewerTimes
    <3>3. lost < B
      BY <1>1, <1>7, <3>2
    <3>4. lost' <= B /\ (sent' # 0 => lost' < B)
      BY <1>1, <1>7, <1>11, <3>3
    <3> QED
      BY <1>13, <2>10, <3>4
  <2> QED
    BY <2>9, <2>10
<1>16. CASE Hunting(msg)
  <2>1. frame.state = "SOF" /\ sent # 0 /\ lost < B
    BY <1>12, <1>16
  <2>2. sent + 1 \in 2 .. L
    BY <1>1, <1>4, <1>5, <2>1
  <2>3. b # SofByte
    BY <1>3, <1>9, <2>2 DEF L
  <2>4. frame'.state = "SOF"
    BY <1>1, <1>6, <1>9, <2>1, <2>3, FeedOutside
  <2>5. lost' <= B /\ (sent' # 0 => lost' < B)
    BY <1>1, <1>7, <1>11, <2>1
  <2> QED
    BY <1>13, <2>4, <2>5
<1>17. CASE InStep(msg) /\ sent = 0
  <2>1. frame.state = "SOF" /\ b = SofByte /\ lost <= B
    BY <1>3, <1>9, <1>12, <1>17
  <2>2. frame'.state = "OPCODE" /\ taken' = <<b>>
    BY <1>1, <1>6, <1>9, <2>1, FeedOutside
  <2>3. sent' = 1 /\ lost' = lost
    BY <1>4, <1>10, <1>11, <1>17
  <2>4. Len(taken') = 1 /\ \A k \in 1 .. 1 : taken'[k] = wire[k]
    BY <1>3, <2>1, <2>2
  <2> QED
    BY <1>13, <2>1, <2>2, <2>3, <2>4
<1>18. CASE InStep(msg) /\ sent # 0
  <2>1. /\ frame.state # "SOF" /\ m = sent /\ lost <= B
        /\ \A k \in 1 .. m : taken[k] = wire[k]
    BY <1>12, <1>14, <1>18
  <2>2. /\ taken' \in Seq(Byte) /\ Len(taken') = m + 1
        /\ \A k \in 1 .. m : taken'[k] = taken[k]
        /\ taken'[m + 1] = b
    BY <1>1, <1>6, <1>9, <1>14, <2>1, FeedOutside DEF Appended
  <2>3. \A k \in 1 .. m + 1 : taken'[k] = wire[k]
    <3>1. \A k \in 1 .. m + 1 : k \in 1 .. m \/ k = m + 1
      BY <1>14
    <3> QED
      BY <1>9, <2>1, <2>2, <3>1
  <2>4. m >= 3 => taken[3] = n
    <3>1. m >= 3 => 3 \in 1 .. m
      BY <1>14
    <3> QED
      BY <1>2, <2>1, <3>1
  <2>5. frame.state \in State
    BY <1>1 DEF ParserInv, ParserType, command_frame_t
  <2>6. CASE frame.state # "CRC_HIGH"
    <3>1. m < n + 4
      <4>1. CASE frame.state \in {"OPCODE", "LENGTH"}
        BY <1>1, <1>4, <1>14, <2>1, <4>1, TakenByState
      <4>2. CASE frame.state \in {"PAYLOAD", "CRC_LOW"}
        <5>1. m >= 3 /\ m < 4 + taken[3]
          BY <1>1, <1>14, <2>1, <4>2, TakenByState
        <5> QED
          BY <1>4, <2>4, <5>1
      <4> QED
        BY <2>1, <2>5, <2>6, <4>1, <4>2 DEF State
    <3>2. sent' = m + 1 /\ lost' = lost
      BY <1>1, <1>2, <1>4, <1>10, <1>11, <1>14, <2>1, <3>1 DEF L
    <3>3. frame'.state # "SOF"
      <4>1. ASSUME frame.state = "LENGTH" PROVE b <= MaxPayload
        <5>1. m = 2
          BY <1>1, <1>14, <2>1, <4>1, TakenByState
        <5> QED
          BY <1>2, <1>4, <1>9, <2>1, <5>1
      <4>2. frame.state \in {"OPCODE", "LENGTH", "PAYLOAD", "CRC_LOW"}
        BY <2>1, <2>5, <2>6 DEF State
      <4> QED
        BY <1>1, <1>6, <1>9, <4>1, <4>2, FeedOutside
    <3>4. sent' # 0 /\ Len(taken') = sent' /\ \A k \in 1 .. sent' : taken'[k] = wire[k]
      BY <1>14, <2>2, <2>3, <3>2
    <3> QED
      BY <1>13, <2>1, <3>2, <3>3, <3>4
  <2>7. CASE frame.state = "CRC_HIGH"
    <3>1. m = n + 4
      <4>1. m >= 4 /\ m = 4 + taken[3]
        BY <1>1, <1>14, <2>1, <2>7, TakenByState
      <4> QED
        BY <1>4, <2>4, <4>1
    <3>2. sent' = 0 /\ Len(taken') = L
      BY <1>1, <1>2, <1>4, <1>10, <2>1, <2>2, <3>1
    <3>3. taken' = wire
      <4>1. \A k \in 1 .. Len(taken') : taken'[k] = wire[k]
        BY <1>14, <2>2, <2>3
      <4> QED
        BY <1>3, <2>2, <3>2, <4>1, SeqEqual DEF L
    <3>4. accepted' = msg
      <4>1. accepted' = IF Intact(taken') THEN BodyOf(taken') ELSE <<>>
        BY DEF AcceptedExactly, Intact, BodyOf, IsBody, Encoded
      <4> QED
        BY <1>3, <3>3, <4>1
    <3>5. lost' = lost
      BY <1>6, <3>4
    <3>6. frame'.state = "SOF"
      BY <1>1, <1>6, <1>9, <2>7, FeedOutside
    <3> QED
      BY <1>13, <2>1, <3>2, <3>5, <3>6
  <2> QED
    BY <2>6, <2>7
<1> QED
  BY <1>8, <1>15, <1>16, <1>17, <1>18

LEMMA LossKept == FrameInv /\ FrameInv' /\ LossInv /\ [FrameNext]_frameVars => LossInv'
<1> SUFFICES ASSUME FrameInv, FrameInv', LossInv, [FrameNext]_frameVars
             PROVE  LossInv'
  OBVIOUS
<1>1. /\ ParserInv /\ sent \in Nat /\ lost \in Nat /\ taken \in Seq(Byte)
  BY DEF FrameInv, FrameTypeOK, ParserInv, ParserType
<1>2. ParserInv' /\ AcceptedExactly'
  BY DEF FrameInv, FrameTypeOK, ParserInv, ParserType
<1>3. \A msg \in HostBody : msg # <<>>
  BY HostFrame
<1>4. CASE Noise
  BY <1>3, <1>4 DEF Noise, LossInv
<1>5. CASE HostBegins
  <2>1. sent = 0 /\ lost = 0 /\ host' \in HostBody
        /\ frame' = frame /\ taken' = taken /\ sent' = 0 /\ lost' = 0
    BY <1>5 DEF HostBegins, FrameInv, HostPlace, LossInv, parserVars
  <2>2. ASSUME NEW msg \in HostBody PROVE Swallowed(msg)' \/ InStep(msg)'
    <3>1. PICK n \in 0 .. MaxPayload : Len(Encoded(msg)) = n + 5
      BY HostWire
    <3>2. Len(Encoded(msg)) \in Nat \ {0} /\ MaxPayload + 3 \in Nat
      BY <3>1, Constants
    <3>3. 0 * Len(Encoded(msg)) = 0 /\ 0 <= Bound(msg)
      <4>1. (MaxPayload + 3) \div Len(Encoded(msg)) \in Nat
        BY <3>2, QuotientBounds
      <4> QED
        BY <3>2, <4>1, OneMore DEF Bound
    <3>4. CASE frame.state = "SOF"
      BY <2>1, <3>3, <3>4 DEF InStep
    <3>5. CASE frame.state # "SOF"
      <4>1. Len(taken) >= 1 /\ Len(taken) \in Nat
        BY <1>1, <3>5, TakenByState
      <4>2. lost' * Len(Encoded(msg)) + sent' + 1 <= Len(taken')
        BY <2>1, <3>3, <4>1
      <4> QED
        BY <2>1, <3>5, <4>2 DEF Swallowed
    <3> QED
      BY <3>4, <3>5
  <2> QED
    BY <1>3, <2>1, <2>2 DEF LossInv
<1>6. CASE HostByte
  <2>1. host # <<>> /\ host' = host
    BY <1>6 DEF HostByte
  <2>2. ASSUME NEW msg \in HostBody, host = msg
        PROVE  Swallowed(msg)' \/ Hunting(msg)' \/ InStep(msg)'
    BY <1>2, <1>6, <2>2, LossStep
  <2> QED
    BY <2>1, <2>2 DEF LossInv
<1>7. CASE UNCHANGED frameVars
  BY <1>7 DEF frameVars, LossInv, Swallowed, Hunting, InStep
<1> QED
  BY <1>4, <1>5, <1>6, <1>7 DEF FrameNext

(* The parser recovers from every state the line can leave it in, for      *)
(* every checksum, every greatest payload and every frame without an inner *)
(* start byte: it misses at most one copy more than those that fit in the  *)
(* rest of the longest frame.                                              *)
THEOREM LossAlwaysBounded == FrameSpec => []LossIsBounded
<1>1. FrameInit => LossInv
  BY HostFrame DEF FrameInit, LossInv
<1>2. FrameInv /\ LossInv => LossIsBounded
  <2> SUFFICES ASSUME FrameInv, LossInv, host # <<>> PROVE lost <= LossBound
    BY DEF LossIsBounded
  <2>1. PICK msg \in HostBody : host = msg
    BY DEF FrameInv, FrameTypeOK
  <2>2. LossBound = Bound(msg)
    BY <2>1 DEF LossBound, Bound
  <2> DEFINE L == Len(Encoded(msg))
             B == Bound(msg)
             Q == (MaxPayload + 3) \div L
  <2>3. PICK n \in 0 .. MaxPayload : L = n + 5
    BY HostWire
  <2>4. L \in Nat \ {0} /\ MaxPayload \in Nat /\ MaxPayload + 3 \in Nat
    BY <2>3, Constants
  <2>5. Q \in Nat /\ B = 1 + Q /\ lost \in Nat /\ sent \in Nat
    <3>1. B = 1 + Q /\ lost \in Nat /\ sent \in Nat
      BY DEF Bound, FrameInv, FrameTypeOK
    <3> HIDE DEF L
    <3>2. Q \in Nat
      BY <2>4, QuotientBounds
    <3> QED
      BY <3>1, <3>2
  <2>6. CASE Swallowed(msg)
    <3>1. frame.state # "SOF" /\ lost * L + sent + 1 <= Len(taken)
      BY <2>6 DEF Swallowed
    <3>2. Len(taken) \in Nat /\ Len(taken) <= MaxPayload + 4
      BY <3>1, TakenByState DEF FrameInv, FrameTypeOK, ParserInv, ParserType
    <3> HIDE DEF L
    <3>3. lost * L \in Nat
      BY <2>4, <2>5
    <3>4. lost * L <= MaxPayload + 3
      BY <2>4, <2>5, <3>1, <3>2, <3>3
    <3>5. lost <= Q
      BY <2>4, <2>5, <3>4, FewerTimes
    <3> HIDE DEF Q, B
    <3> QED
      BY <2>2, <2>5, <3>5 DEF B
  <2>7. CASE Hunting(msg) \/ InStep(msg)
    <3>1. lost < B \/ lost <= B
      BY <2>7 DEF Hunting, InStep
    <3> HIDE DEF Q, B
    <3> QED
      BY <2>2, <2>5, <3>1 DEF B
  <2> QED
    BY <2>1, <2>6, <2>7 DEF LossInv
<1> QED
  BY <1>1, <1>2, LossKept, ParserInductive, PTL DEF FrameSpec
-----------------------------------------------------------------------------
(* THE CHECKSUM.  A damaged byte is caught in frames of every length: the  *)
(* checksum loop loses nothing, so two registers that differ stay          *)
(* different over equal bytes, and registers that agree part over          *)
(* different ones.                                                         *)

LEMMA BitStepType == ASSUME NEW c \in Word PROVE BitStep(c) \in Word
  BY DEF Word, BitStep, ShiftLeft, Xor, Poly

(* The bit that is shifted out can be read off the lowest bit of the       *)
(* result, because the polynomial has the term 1.                          *)
LEMMA BitStepLowest == ASSUME NEW c \in Word PROVE 0 \in BitStep(c) <=> 15 \in c
<1>1. 0 \notin ShiftLeft(c)
  <2>1. ASSUME NEW i \in c PROVE i + 1 # 0
    <3>1. i \in 0 .. 15
      BY DEF Word
    <3> QED
      BY <3>1
  <2> QED
    BY <2>1 DEF ShiftLeft
<1> QED
  BY <1>1 DEF BitStep, Xor, Poly

LEMMA XorCancels ==
  ASSUME NEW a, NEW b, NEW p, Xor(a, p) = Xor(b, p)
  PROVE  a = b
<1>1. ASSUME NEW x PROVE x \in a <=> x \in b
  <2>1. x \in Xor(a, p) <=> x \in Xor(b, p)
    OBVIOUS
  <2> QED
    BY <2>1 DEF Xor
<1> QED
  BY <1>1

LEMMA ShiftInjective ==
  ASSUME NEW a \in Word, NEW b \in Word, ShiftLeft(a) = ShiftLeft(b), 15 \in a <=> 15 \in b
  PROVE  a = b
<1>1. ASSUME NEW x \in 0 .. 15, NEW c \in Word
      PROVE  x # 15 => (x \in c <=> x + 1 \in ShiftLeft(c))
  BY <1>1 DEF Word, ShiftLeft
<1>2. ASSUME NEW x \in 0 .. 15 PROVE x \in a <=> x \in b
  BY <1>1
<1> QED
  BY <1>2 DEF Word

LEMMA BitStepInjective ==
  ASSUME NEW a \in Word, NEW b \in Word, BitStep(a) = BitStep(b)
  PROVE  a = b
<1>1. 15 \in a <=> 15 \in b
  BY BitStepLowest
<1>2. ShiftLeft(a) = ShiftLeft(b)
  BY <1>1, XorCancels DEF BitStep
<1> QED
  BY <1>1, <1>2, ShiftInjective

LEMMA EightBitsInjective ==
  ASSUME NEW a \in Word, NEW b \in Word
  PROVE  /\ EightBits(a) \in Word
         /\ EightBits(a) = EightBits(b) => a = b
<1> DEFINE Four(c) == BitStep(BitStep(BitStep(BitStep(c))))
<1>1. ASSUME NEW c \in Word, NEW d \in Word
      PROVE  Four(c) \in Word /\ (Four(c) = Four(d) => c = d)
  BY BitStepType, BitStepInjective
<1>2. \A c : EightBits(c) = Four(Four(c))
  BY DEF EightBits
<1> HIDE DEF Four
<1> QED
  BY <1>1, <1>2

LEMMA ByteStepInjective ==
  ASSUME NEW c \in Word, NEW d \in Word, NEW x \in Octet, NEW y \in Octet
  PROVE  /\ ByteStep(c, x) \in Word
         /\ ByteStep(c, x) = ByteStep(d, x) => c = d
         /\ ByteStep(c, x) = ByteStep(c, y) => x = y
<1> DEFINE Up(z) == {i + 8 : i \in z}
<1>1. ASSUME NEW e \in Word, NEW z \in Octet PROVE Xor(e, Up(z)) \in Word
  <2>1. Up(z) \in Word
    BY DEF Word, Octet
  <2> QED
    BY <2>1 DEF Word, Xor
<1>2. Xor(c, Up(x)) = Xor(d, Up(x)) => c = d
  BY XorCancels
<1>3. ASSUME Up(x) = Up(y) PROVE x = y
  <2>1. ASSUME NEW i \in 0 .. 7, NEW z \in Octet PROVE i \in z <=> i + 8 \in Up(z)
    BY DEF Octet
  <2> QED
    BY <1>3, <2>1 DEF Octet
<1>4. ASSUME Xor(c, Up(x)) = Xor(c, Up(y)) PROVE x = y
  <2>1. ASSUME NEW i PROVE i \in Up(x) <=> i \in Up(y)
    <3>1. i \in Xor(c, Up(x)) <=> i \in Xor(c, Up(y))
      BY <1>4
    <3> QED
      BY <3>1 DEF Xor
  <2>2. Up(x) = Up(y)
    BY <2>1
  <2> QED
    BY <2>2, <1>3
<1> HIDE DEF Up
<1>5. \A e, z : ByteStep(e, z) = EightBits(Xor(e, Up(z)))
  BY DEF ByteStep, Up
<1> QED
  BY <1>1, <1>2, <1>4, <1>5, EightBitsInjective

(* Splitting a word into bytes and joining bytes to a word are inverse.    *)
LEMMA SplitAndJoin ==
  /\ \A c \in Word : /\ LowByte(c) \in Octet /\ HighByte(c) \in Octet
                     /\ JoinBytes(LowByte(c), HighByte(c)) = c
  /\ \A l, h \in Octet : /\ LowByte(JoinBytes(l, h)) = l
                        /\ HighByte(JoinBytes(l, h)) = h
<1>1. ASSUME NEW c \in Word
      PROVE  /\ LowByte(c) \in Octet /\ HighByte(c) \in Octet
             /\ JoinBytes(LowByte(c), HighByte(c)) = c
  <2>1. LowByte(c) \in Octet /\ HighByte(c) \in Octet
    BY DEF Word, Octet, LowByte, HighByte
  <2>2. ASSUME NEW i \in 0 .. 15 PROVE i \in JoinBytes(LowByte(c), HighByte(c)) <=> i \in c
    <3>1. CASE i \in 0 .. 7
      BY <3>1 DEF Word, LowByte, HighByte, JoinBytes
    <3>2. CASE i \in 8 .. 15
      <4>1. i - 8 \in HighByte(c) <=> i \in c
        BY <3>2 DEF Word, HighByte
      <4>2. i \in JoinBytes(LowByte(c), HighByte(c)) <=> i - 8 \in HighByte(c)
        BY <3>2, <2>1 DEF JoinBytes, LowByte, Octet
      <4> QED
        BY <4>1, <4>2
    <3> QED
      BY <3>1, <3>2
  <2>3. JoinBytes(LowByte(c), HighByte(c)) \in Word
    BY <2>1 DEF JoinBytes, Octet, Word
  <2> QED
    BY <2>1, <2>2, <2>3 DEF Word
<1>2. ASSUME NEW l \in Octet, NEW h \in Octet
      PROVE  LowByte(JoinBytes(l, h)) = l /\ HighByte(JoinBytes(l, h)) = h
  <2>1. LowByte(JoinBytes(l, h)) = l
    <3>1. \A j \in {i + 8 : i \in h} : j \notin 0 .. 7
      BY DEF Octet
    <3>2. ASSUME NEW j PROVE j \in LowByte(JoinBytes(l, h)) <=> j \in l
      BY <3>1 DEF Octet, LowByte, JoinBytes
    <3> QED
      BY <3>2
  <2>2. JoinBytes(l, h) \cap 8 .. 15 = {i + 8 : i \in h}
    BY DEF Octet, JoinBytes
  <2>3. ASSUME NEW i \in 0 .. 7 PROVE i \in HighByte(JoinBytes(l, h)) <=> i \in h
    <3>1. HighByte(JoinBytes(l, h)) = {j - 8 : j \in {k + 8 : k \in h}}
      BY <2>2 DEF HighByte
    <3>2. \A k \in h : k \in Int /\ (k + 8) - 8 = k
      BY DEF Octet
    <3> QED
      BY <3>1, <3>2
  <2>4. HighByte(JoinBytes(l, h)) \subseteq 0 .. 7
    BY DEF HighByte
  <2> QED
    BY <2>1, <2>3, <2>4 DEF Octet
<1> QED
  BY <1>1, <1>2
-----------------------------------------------------------------------------
LEMMA NumberIsNat == ASSUME NEW b PROVE Number(b) \in Nat
BY DEF Number

LEMMA AfterIsPlace == ASSUME NEW at \in FramePlace, NEW b PROVE After(at, b) \in FramePlace
<1>1. \A f \in BodyField \cup {"CRC_LOW", "CRC_HIGH", "END"} : AtField(f) \in FramePlace
  BY DEF FramePlace, AtField
<1>2. Number(b) > 0 => [field |-> "PAYLOAD", left |-> Number(b)] \in FramePlace
  BY NumberIsNat DEF FramePlace, BodyField
<1>3. at.left > 1 => [at EXCEPT !.left = @ - 1] \in FramePlace
  BY DEF FramePlace
<1>4. Number(b) > 0 \/ Number(b) = 0
  BY NumberIsNat
<1> QED
  BY <1>1, <1>2, <1>3, <1>4 DEF After, BodyField

(* What is put on the wire is a byte.                                      *)
LEMMA OfferedIsOctet == CrcTypeOK => Offered \subseteq Octet
BY CrcLinkAssumption, SplitAndJoin DEF CrcTypeOK, Offered

LEMMA ArrivesType ==
  ASSUME CrcTypeOK, NEW b \in Octet, NEW got \in Octet, Arrives(b, got)
  PROVE  hits' \in Nat /\ flips' \in Nat /\ lengthHit' \in BOOLEAN
<1>1. IsFiniteSet(0 .. 7)
  <2>1. 0 \in Int /\ 7 \in Int
    OBVIOUS
  <2> QED
    BY <2>1, FS_Interval, Zenon
<1>2. Xor(b, got) \subseteq 0 .. 7
  BY DEF Octet, Xor
<1>3. Cardinality(Xor(b, got)) \in Nat
  BY <1>1, <1>2, FS_Subset, FS_CardinalityType
<1>4. hits' \in Nat /\ flips' \in Nat
  <2>1. hits \in Nat /\ flips \in Nat
    BY DEF CrcTypeOK
  <2>2. \/ hits' = hits /\ flips' = flips
        \/ hits' = hits + 1 /\ flips' = flips + Cardinality(Xor(b, got))
    BY DEF Arrives
  <2> QED
    BY <1>3, <2>1, <2>2
<1>5. lengthHit' \in BOOLEAN
  BY Zenon DEF Arrives, CrcTypeOK
<1> QED
  BY <1>4, <1>5

(* The registers stay 16 bits wide: the shift loses bit 15.                *)
THEOREM CrcTypeCorrect == CrcSpec => []CrcTypeOK
<1>1. CrcInit => CrcTypeOK
  <2>1. AtField("OPCODE") \in FramePlace
    BY DEF FramePlace, AtField, BodyField
  <2>2. InitialCrc \in Word /\ {} \in Octet
    BY DEF Word, Octet, InitialCrc
  <2>3. FALSE \in BOOLEAN /\ 0 \in Nat /\ <<>> \in Seq(Octet)
    OBVIOUS
  <2> QED
    BY <2>1, <2>2, <2>3, Zenon DEF CrcInit, CrcTypeOK
<1>2. CrcTypeOK /\ [CrcNext]_crcVars => CrcTypeOK'
  <2> SUFFICES ASSUME CrcTypeOK, [CrcNext]_crcVars PROVE CrcTypeOK'
    OBVIOUS
  <2>1. ASSUME NEW b \in Offered, NEW got \in Octet, Transfer(b, got)
        PROVE  CrcTypeOK'
    <3>1. b \in Octet
      BY OfferedIsOctet
    <3>2. hits' \in Nat /\ flips' \in Nat /\ lengthHit' \in BOOLEAN
      BY <2>1, <3>1, ArrivesType DEF Transfer
    <3>3. sender' \in FramePlace
      BY <2>1, AfterIsPlace DEF Transfer, Sends, CrcTypeOK
    <3>4. body' \in Seq(Octet) /\ sum' \in Word
      BY <2>1, <3>1, ByteStepInjective DEF Transfer, Sends, CrcTypeOK
    <3>5. AtField("END") \in FramePlace
      BY DEF AtField, FramePlace
    <3>6. receiver' \in FramePlace
      BY <2>1, <3>5, AfterIsPlace DEF Transfer, TakesBody, TakesCrcLow, TakesCrcHigh, CrcTypeOK
    <3>7. computed' \in Word
      BY <2>1, ByteStepInjective DEF Transfer, TakesBody, TakesCrcLow, TakesCrcHigh, CrcTypeOK
    <3>8. low' \in Octet /\ phase' \in {"RECEIVING", "ACCEPTED", "DISCARDED"}
      BY <2>1 DEF Transfer, TakesBody, TakesCrcLow, TakesCrcHigh, CrcTypeOK
    <3> QED
      BY <3>2, <3>3, <3>4, <3>6, <3>7, <3>8 DEF CrcTypeOK
  <2>2. CASE UNCHANGED crcVars
    BY <2>2 DEF crcVars, CrcTypeOK
  <2> QED
    BY <2>1, <2>2 DEF CrcNext
<1> QED
  BY <1>1, <1>2, PTL DEF CrcSpec

(* As long as LENGTH is not hit, both sides are at the same place of the   *)
(* frame: what the sender sends as checksum the receiver takes for it.     *)
Together ==
  /\ lengthHit => hits > 0
  /\ phase = "RECEIVING" => lengthHit \/ receiver = sender
  /\ phase # "RECEIVING" => receiver.field = "END"

BodyMove(b, got) ==
  /\ receiver.field \in BodyField /\ receiver'.field \in BodyField \cup {"CRC_LOW"}
  /\ Arrives(b, got)
  /\ body' = Append(body, b) /\ sum' = ByteStep(sum, b) /\ computed' = ByteStep(computed, got)
  /\ UNCHANGED low /\ phase = "RECEIVING" /\ phase' = "RECEIVING"

LowMove(got) ==
  /\ receiver.field = "CRC_LOW" /\ receiver'.field = "CRC_HIGH"
  /\ Arrives(LowByte(sum), got)
  /\ low' = got
  /\ UNCHANGED <<body, sum, computed>> /\ phase = "RECEIVING" /\ phase' = "RECEIVING"

HighMove(got) ==
  /\ receiver.field = "CRC_HIGH" /\ receiver'.field = "END"
  /\ Arrives(HighByte(sum), got)
  /\ phase' = IF computed = JoinBytes(low, got) THEN "ACCEPTED" ELSE "DISCARDED"
  /\ UNCHANGED <<body, sum, computed, low>> /\ phase = "RECEIVING"

LEMMA AfterFields ==
  ASSUME NEW at \in FramePlace, NEW b
  PROVE  /\ at.field \in BodyField => After(at, b).field \in BodyField \cup {"CRC_LOW"}
         /\ at.field = "CRC_LOW" => After(at, b).field = "CRC_HIGH"
         /\ at.field = "CRC_HIGH" => After(at, b).field = "END"
         /\ at.field # "LENGTH" => \A c : After(at, c) = After(at, b)
<1>1. at.field \in BodyField => After(at, b).field \in BodyField \cup {"CRC_LOW"}
  <2>1. CASE at.field = "OPCODE"
    BY <2>1 DEF After, AtField, BodyField
  <2>2. CASE at.field = "LENGTH"
    <3>1. Number(b) > 0 \/ Number(b) = 0
      BY NumberIsNat
    <3> QED
      BY <2>2, <3>1 DEF After, AtField, BodyField
  <2>3. CASE at.field = "PAYLOAD"
    <3>1. at.left > 1 \/ at.left <= 1
      BY DEF FramePlace
    <3>2. [at EXCEPT !.left = @ - 1].field = at.field
      BY DEF FramePlace
    <3> QED
      BY <2>3, <3>1, <3>2 DEF After, AtField, BodyField
  <2> QED
    BY <2>1, <2>2, <2>3 DEF BodyField
<1>2. at.field = "CRC_LOW" => After(at, b).field = "CRC_HIGH"
  BY DEF After, AtField
<1>3. at.field = "CRC_HIGH" => After(at, b).field = "END"
  BY DEF After, AtField
<1>4. at.field # "LENGTH" => \A c : After(at, c) = After(at, b)
  BY DEF After
<1> QED
  BY <1>1, <1>2, <1>3, <1>4

LEMMA Moves ==
  ASSUME CrcTypeOK, Together, NEW b \in Offered, NEW got \in Octet, Transfer(b, got), ~ lengthHit'
  PROVE  /\ b \in Octet /\ ~ lengthHit
         /\ phase' = "RECEIVING" => receiver' = sender'
         /\ BodyMove(b, got) \/ LowMove(got) \/ HighMove(got)
<1>1. b \in Octet /\ receiver \in FramePlace
  BY OfferedIsOctet DEF CrcTypeOK
<1>2. ~ lengthHit /\ Arrives(b, got) /\ phase = "RECEIVING" /\ receiver = sender
  <2>1. Arrives(b, got) /\ phase = "RECEIVING"
    BY DEF Transfer
  <2>2. ~ lengthHit
    BY <2>1, Zenon DEF Arrives
  <2> QED
    BY <2>1, <2>2 DEF Together
<1>3. receiver.field = "LENGTH" => got = b /\ Number(got) <= MaxLength
  BY <1>2 DEF Arrives, Offered
<1>4. After(receiver, got) = After(sender, b)
  BY <1>1, <1>2, <1>3, AfterFields
<1>5. sender' = After(sender, b)
  BY DEF Transfer, Sends
<1>6. CASE TakesBody(got)
  <2>1. receiver.field = "LENGTH" => ~ Number(got) > MaxLength
    BY <1>3, NumberIsNat, CrcLinkAssumption
  <2>2. receiver' = After(receiver, got) /\ phase' = phase /\ receiver.field \in BodyField
    BY <1>6, <2>1 DEF TakesBody
  <2>3. receiver'.field \in BodyField \cup {"CRC_LOW"}
    BY <1>1, <2>2, AfterFields
  <2>4. BodyMove(b, got)
    BY <1>2, <1>6, <2>2, <2>3 DEF BodyMove, TakesBody, Transfer, Sends
  <2> QED
    BY <1>1, <1>2, <1>4, <1>5, <2>2, <2>4
<1>7. CASE TakesCrcLow(got)
  <2>1. b = LowByte(sum)
    BY <1>2, <1>7 DEF TakesCrcLow, Offered
  <2>2. receiver'.field = "CRC_HIGH" /\ receiver' = After(receiver, got)
    BY <1>1, <1>7, AfterFields DEF TakesCrcLow
  <2>3. UNCHANGED <<body, sum>>
    BY <1>2, <1>7 DEF TakesCrcLow, Transfer, Sends, BodyField
  <2>4. LowMove(got)
    BY <1>2, <1>7, <2>1, <2>2, <2>3 DEF LowMove, TakesCrcLow
  <2> QED
    BY <1>1, <1>2, <1>4, <1>5, <2>2, <2>4
<1>8. CASE TakesCrcHigh(got)
  <2>1. b = HighByte(sum)
    BY <1>2, <1>8 DEF TakesCrcHigh, Offered
  <2>2. receiver'.field = "END"
    BY <1>1, <1>8, AfterFields DEF TakesCrcHigh
  <2>3. UNCHANGED <<body, sum>>
    BY <1>2, <1>8 DEF TakesCrcHigh, Transfer, Sends, BodyField
  <2>4. HighMove(got)
    BY <1>2, <1>8, <2>1, <2>2, <2>3 DEF HighMove, TakesCrcHigh, Agrees
  <2>5. phase' # "RECEIVING"
    BY <2>4 DEF HighMove
  <2> QED
    BY <1>1, <1>2, <2>4, <2>5
<1> QED
  BY <1>6, <1>7, <1>8 DEF Transfer

LEMMA TogetherStep == CrcTypeOK /\ Together /\ [CrcNext]_crcVars => Together'
<1> SUFFICES ASSUME CrcTypeOK, Together, [CrcNext]_crcVars PROVE Together'
  OBVIOUS
<1>1. ASSUME NEW b \in Offered, NEW got \in Octet, Transfer(b, got) PROVE Together'
  <2>1. lengthHit' => hits' > 0
    <3>1. \/ lengthHit' = lengthHit /\ hits' = hits
          \/ hits' = hits + 1
      BY <1>1, Zenon DEF Transfer, Arrives
    <3>2. hits \in Nat /\ (lengthHit => hits > 0)
      BY DEF Together, CrcTypeOK
    <3>3. CASE lengthHit' = lengthHit /\ hits' = hits
      BY <3>2, <3>3
    <3>4. CASE hits' = hits + 1
      BY <3>2, <3>4
    <3> QED
      BY <3>1, <3>3, <3>4
  <2>2. phase' = "RECEIVING" => lengthHit' \/ receiver' = sender'
    BY <1>1, Moves
  <2>3. receiver \in FramePlace /\ phase = "RECEIVING" /\ AtField("END").field = "END"
    BY <1>1 DEF Transfer, CrcTypeOK, AtField
  <2>4. phase' # "RECEIVING" => receiver'.field = "END"
    BY <1>1, <2>3, AfterFields DEF Transfer, TakesBody, TakesCrcLow, TakesCrcHigh
  <2> QED
    BY <2>1, <2>2, <2>4 DEF Together
<1>2. CASE UNCHANGED crcVars
  BY <1>2 DEF crcVars, Together
<1> QED
  BY <1>1, <1>2 DEF CrcNext

LEMMA AlwaysTogether == CrcSpec => []Together
<1>1. CrcInit => Together
  BY DEF CrcInit, Together
<1> QED
  BY <1>1, TogetherStep, CrcTypeCorrect, PTL DEF CrcSpec

(* What the receiver holds, by the number of bytes damaged so far.         *)
AtBody == receiver.field \in BodyField \cup {"CRC_LOW"}
AtHigh == receiver.field = "CRC_HIGH"

NoHit ==
  hits = 0 => /\ sum = computed
              /\ AtHigh => low = LowByte(sum)
              /\ phase # "DISCARDED"

OneHit ==
  hits = 1 => /\ AtBody => sum # computed
              /\ AtHigh => \/ sum # computed /\ low = LowByte(sum)
                           \/ sum = computed /\ low # LowByte(sum)
              /\ phase # "ACCEPTED"

HitsSeen == lengthHit \/ (NoHit /\ OneHit)

LEMMA HitsStep == CrcTypeOK /\ CrcTypeOK' /\ Together /\ HitsSeen /\ [CrcNext]_crcVars => HitsSeen'
<1> SUFFICES ASSUME CrcTypeOK, CrcTypeOK', Together, HitsSeen, [CrcNext]_crcVars PROVE HitsSeen'
  OBVIOUS
<1>1. CASE UNCHANGED crcVars
  BY <1>1 DEF crcVars, HitsSeen, NoHit, OneHit, AtBody, AtHigh
<1>2. ASSUME NEW b \in Offered, NEW got \in Octet, Transfer(b, got), ~ lengthHit'
      PROVE  NoHit' /\ OneHit'
  <2>1. b \in Octet /\ NoHit /\ OneHit /\ (BodyMove(b, got) \/ LowMove(got) \/ HighMove(got))
    BY <1>2, Moves DEF HitsSeen
  <2> USE DEF CrcTypeOK
  <2>2. CASE BodyMove(b, got)
    <3>1. AtBody /\ AtBody' /\ ~ AtHigh' /\ phase = "RECEIVING" /\ phase' = "RECEIVING"
      BY <2>2 DEF BodyMove, AtBody, AtHigh, BodyField
    <3>2. CASE got = b
      <4>1. hits' = hits
        BY <2>2, <3>2 DEF BodyMove, Arrives
      <4>2. sum' = computed' <=> sum = computed
        BY <2>1, <2>2, <3>2, ByteStepInjective DEF BodyMove
      <4> QED
        BY <2>1, <3>1, <4>1, <4>2 DEF NoHit, OneHit
    <3>3. CASE got # b
      <4>1. hits' = hits + 1
        BY <2>2, <3>3 DEF BodyMove, Arrives
      <4>2. sum = computed => sum' # computed'
        BY <2>1, <2>2, <3>3, ByteStepInjective DEF BodyMove
      <4> QED
        BY <2>1, <3>1, <4>1, <4>2 DEF NoHit, OneHit
    <3> QED
      BY <3>2, <3>3
  <2>3. CASE LowMove(got)
    <3>1. /\ AtBody /\ AtHigh' /\ ~ AtBody' /\ phase = "RECEIVING" /\ phase' = "RECEIVING"
          /\ low' = got /\ UNCHANGED <<sum, computed>>
      BY <2>3 DEF LowMove, AtBody, AtHigh, BodyField
    <3>2. CASE got = LowByte(sum)
      <4>1. hits' = hits
        BY <2>3, <3>2 DEF LowMove, Arrives
      <4> QED
        BY <2>1, <3>1, <3>2, <4>1 DEF NoHit, OneHit
    <3>3. CASE got # LowByte(sum)
      <4>1. hits' = hits + 1
        BY <2>3, <3>3 DEF LowMove, Arrives
      <4> QED
        BY <2>1, <3>1, <3>3, <4>1 DEF NoHit, OneHit
    <3> QED
      BY <3>2, <3>3
  <2>4. CASE HighMove(got)
    <3> DEFINE word == JoinBytes(low, got)
    <3>1. /\ AtHigh /\ ~ AtHigh' /\ ~ AtBody' /\ UNCHANGED <<sum, computed>>
          /\ phase = "RECEIVING" /\ phase' = IF computed = word THEN "ACCEPTED" ELSE "DISCARDED"
      BY <2>4 DEF HighMove, AtBody, AtHigh, BodyField
    <3>2. LowByte(word) = low /\ HighByte(word) = got
      BY SplitAndJoin
    <3>3. JoinBytes(LowByte(sum), HighByte(sum)) = sum
      BY SplitAndJoin
    <3> HIDE DEF word
    <3>4. CASE got = HighByte(sum)
      <4>1. hits' = hits
        BY <2>4, <3>4 DEF HighMove, Arrives
      <4>2. low = LowByte(sum) => word = sum
        BY <3>3, <3>4 DEF word
      <4> QED
        BY <2>1, <3>1, <3>2, <4>1, <4>2 DEF NoHit, OneHit
    <3>5. CASE got # HighByte(sum)
      <4>1. hits' = hits + 1
        BY <2>4, <3>5 DEF HighMove, Arrives
      <4>2. word # sum
        BY <3>2, <3>5
      <4> QED
        BY <2>1, <3>1, <4>1, <4>2 DEF NoHit, OneHit
    <3> QED
      BY <3>4, <3>5
  <2> QED
    BY <2>1, <2>2, <2>3, <2>4
<1>3. CASE CrcNext
  BY <1>2, <1>3 DEF CrcNext, HitsSeen
<1> QED
  BY <1>1, <1>3

LEMMA HitsInvariant == CrcSpec => []HitsSeen
<1>1. CrcInit => HitsSeen
  BY DEF CrcInit, HitsSeen, NoHit, OneHit, AtField, AtHigh
<1> QED
  BY <1>1, HitsStep, CrcTypeCorrect, AlwaysTogether, PTL DEF CrcSpec

(* A frame with one damaged byte that is not LENGTH, anywhere else in body *)
(* or checksum and of any length, is not accepted.                         *)
THEOREM OneHitAlwaysCaught == CrcSpec => []OneHitCaught
<1>1. HitsSeen => OneHitCaught
  BY DEF HitsSeen, OneHit, OneHitCaught
<1> QED
  BY <1>1, HitsInvariant, PTL

(* A frame that arrives as it was sent is accepted.                        *)
THEOREM UndamagedAlwaysAccepted == CrcSpec => []UndamagedIsAccepted
<1>1. CrcTypeOK /\ Together /\ HitsSeen => UndamagedIsAccepted
  BY DEF HitsSeen, NoHit, UndamagedIsAccepted, CrcTypeOK, Together
<1> QED
  BY <1>1, HitsInvariant, AlwaysTogether, CrcTypeCorrect, PTL
-----------------------------------------------------------------------------
(* An odd number of flipped bits is caught in frames of every length,      *)
(* because the polynomial is a multiple of x + 1: a turn of the loop never *)
(* changes the parity of the register.                                     *)
Parity(S) == Cardinality(S) % 2

ParityKept ==
  /\ AtBody => (Parity(sum) + Parity(computed) + flips) % 2 = 0
  /\ AtHigh =>
       (Parity(sum) + Parity(computed) + Parity(low) + Parity(LowByte(sum)) + flips) % 2 = 0
  /\ phase = "ACCEPTED" => flips % 2 = 0

ParitySeen == lengthHit \/ ParityKept

LEMMA WordFinite ==
  ASSUME NEW c \in Word
  PROVE  IsFiniteSet(c) /\ Cardinality(c) \in Nat /\ Parity(c) \in {0, 1}
<1>1. IsFiniteSet(0 .. 15)
  <2>1. 0 \in Int /\ 15 \in Int
    OBVIOUS
  <2> QED
    BY <2>1, FS_Interval, Zenon
<1>2. IsFiniteSet(c) /\ Cardinality(c) \in Nat
  BY <1>1, FS_Subset, FS_CardinalityType DEF Word
<1>3. \A n \in Nat : n % 2 \in {0, 1}
  OBVIOUS
<1> QED
  BY <1>2, <1>3 DEF Parity

LEMMA XorParity ==
  ASSUME NEW a \in Word, NEW b \in Word
  PROVE  Xor(a, b) \in Word /\ Parity(Xor(a, b)) = (Parity(a) + Parity(b)) % 2
<1>1. IsFiniteSet(a) /\ IsFiniteSet(b) /\ Cardinality(a) \in Nat /\ Cardinality(b) \in Nat
  BY WordFinite
<1>2. PICK k \in Nat : k = Cardinality(a \cap b)
  <2>1. IsFiniteSet(a \cap b)
    BY <1>1, FS_Intersection
  <2> QED
    BY <2>1, FS_CardinalityType
<1>3. /\ IsFiniteSet(a \ b) /\ Cardinality(a \ b) = Cardinality(a) - k
      /\ IsFiniteSet(b \ a) /\ Cardinality(b \ a) = Cardinality(b) - k
  <2>1. b \cap a = a \cap b
    OBVIOUS
  <2> QED
    BY <1>1, <1>2, <2>1, FS_Difference
<1>4. Cardinality(Xor(a, b)) = Cardinality(a \ b) + Cardinality(b \ a)
  <2>1. (a \ b) \cap (b \ a) = {}
    OBVIOUS
  <2>2. Cardinality((a \ b) \cup (b \ a))
          = Cardinality(a \ b) + Cardinality(b \ a) - Cardinality((a \ b) \cap (b \ a))
    BY <1>3, FS_Union
  <2>3. Cardinality(a \ b) \in Nat /\ Cardinality(b \ a) \in Nat
    BY <1>3, FS_CardinalityType
  <2>4. PICK m \in Nat, n \in Nat : m = Cardinality(a \ b) /\ n = Cardinality(b \ a)
    BY <2>3
  <2>5. Cardinality((a \ b) \cup (b \ a)) = m + n - 0
    BY <2>1, <2>2, <2>4, FS_EmptySet
  <2>6. Cardinality((a \ b) \cup (b \ a)) = m + n
    BY <2>5
  <2> QED
    BY <2>4, <2>6 DEF Xor
<1>5. Xor(a, b) \in Word
  BY DEF Word, Xor
<1>6. \A m, n, j, x \in Nat : x = (m - j) + (n - j) => x % 2 = ((m % 2) + (n % 2)) % 2
  OBVIOUS
<1>7. Cardinality(Xor(a, b)) \in Nat
  BY <1>5, WordFinite
<1> QED
  BY <1>1, <1>2, <1>3, <1>4, <1>5, <1>6, <1>7 DEF Parity

LEMMA MovedCardinality ==
  ASSUME NEW c \in Word, NEW k \in Nat
  PROVE  Cardinality({i + k : i \in c}) = Cardinality(c)
<1> DEFINE T == {i + k : i \in c}
           f == [i \in c |-> i + k]
<1>1. \A i \in c : i \in Int
  BY DEF Word
<1>2. f \in [c -> T] /\ \A t \in T : \E i \in c : f[i] = t
  OBVIOUS
<1>3. ASSUME NEW i \in c, NEW j \in c, f[i] = f[j] PROVE i = j
  <2>1. i + k = j + k /\ i \in Int /\ j \in Int
    BY <1>1, <1>3
  <2> QED
    BY <2>1
<1>4. f \in Bijection(c, T)
  BY <1>2, <1>3 DEF Bijection, Injection, Surjection, IsInjective
<1>5. IsFiniteSet(c)
  BY WordFinite
<1> HIDE DEF f, T
<1>6. Cardinality(T) = Cardinality(c)
  BY <1>4, <1>5, FS_Bijection DEF ExistsBijection
<1> QED
  BY <1>6 DEF T

LEMMA BitStepParity ==
  ASSUME NEW c \in Word
  PROVE  Parity(BitStep(c)) = Parity(c)
<1>1. /\ c \ {15} \in Word /\ IsFiniteSet(c) /\ Cardinality(c) \in Nat
      /\ Cardinality(c \ {15}) = IF 15 \in c THEN Cardinality(c) - 1 ELSE Cardinality(c)
  BY WordFinite, FS_RemoveElement DEF Word
<1>2. Cardinality(ShiftLeft(c)) = Cardinality(c \ {15})
  BY <1>1, MovedCardinality DEF ShiftLeft
<1>3. CASE 15 \notin c
  BY <1>1, <1>2, <1>3 DEF BitStep, Parity
<1>4. CASE 15 \in c
  <2>1. ShiftLeft(c) \in Word /\ Poly \in Word
    BY DEF ShiftLeft, Word, Poly
  <2>2. Parity(Poly) = 1
    <3>1. IsFiniteSet({0}) /\ Cardinality({0}) = 1
      BY FS_Singleton
    <3>2. IsFiniteSet({0} \cup {5}) /\ Cardinality({0} \cup {5}) = 2
      BY <3>1, FS_AddElement
    <3>3. Cardinality(({0} \cup {5}) \cup {12}) = 3
      BY <3>2, FS_AddElement
    <3>4. Poly = ({0} \cup {5}) \cup {12}
      BY DEF Poly
    <3> QED
      BY <3>3, <3>4 DEF Parity
  <2>3. Parity(BitStep(c)) = (Parity(ShiftLeft(c)) + 1) % 2
    BY <1>4, <2>1, <2>2, XorParity DEF BitStep
  <2>4. Cardinality(ShiftLeft(c)) = Cardinality(c) - 1
    BY <1>1, <1>2, <1>4
  <2>5. \A n, m \in Nat : m = n - 1 => ((m % 2) + 1) % 2 = n % 2
    OBVIOUS
  <2>6. Cardinality(ShiftLeft(c)) \in Nat
    BY <2>1, WordFinite
  <2> QED
    BY <1>1, <2>3, <2>4, <2>5, <2>6 DEF Parity
<1> QED
  BY <1>3, <1>4

LEMMA EightBitsParity ==
  ASSUME NEW c \in Word
  PROVE  Parity(EightBits(c)) = Parity(c)
<1> DEFINE Four(d) == BitStep(BitStep(BitStep(BitStep(d))))
<1>1. ASSUME NEW d \in Word PROVE Four(d) \in Word /\ Parity(Four(d)) = Parity(d)
  BY BitStepType, BitStepParity
<1>2. EightBits(c) = Four(Four(c))
  BY DEF EightBits
<1> HIDE DEF Four
<1> QED
  BY <1>1, <1>2

(* A byte, moved to the high half, keeps its parity.                       *)
LEMMA UpParity ==
  ASSUME NEW b \in Octet
  PROVE  /\ {i + 8 : i \in b} \in Word /\ b \in Word
         /\ Parity({i + 8 : i \in b}) = Parity(b)
<1>1. {i + 8 : i \in b} \in Word /\ b \in Word
  BY DEF Octet, Word
<1> QED
  BY <1>1, MovedCardinality DEF Parity

LEMMA ByteStepParity ==
  ASSUME NEW c \in Word, NEW b \in Octet
  PROVE  Parity(ByteStep(c, b)) = (Parity(c) + Parity(b)) % 2
BY UpParity, XorParity, EightBitsParity DEF ByteStep

LEMMA JoinParity ==
  ASSUME NEW l \in Octet, NEW h \in Octet
  PROVE  Parity(JoinBytes(l, h)) = (Parity(l) + Parity(h)) % 2
<1>1. \A j \in {i + 8 : i \in h} : j \notin l
  BY DEF Octet
<1>2. JoinBytes(l, h) = Xor(l, {i + 8 : i \in h})
  BY <1>1 DEF JoinBytes, Xor
<1>3. PICK up \in Word : up = {i + 8 : i \in h} /\ Parity(up) = Parity(h)
  BY UpParity
<1>4. l \in Word
  BY UpParity
<1>5. Parity(Xor(l, up)) = (Parity(l) + Parity(up)) % 2
  BY <1>3, <1>4, XorParity
<1> QED
  BY <1>2, <1>3, <1>5

LEMMA FlipParity ==
  ASSUME NEW b \in Octet, NEW got \in Octet, flips \in Nat, Arrives(b, got)
  PROVE  flips' \in Nat /\ flips' % 2 = ((flips % 2) + Parity(b) + Parity(got)) % 2
<1>1. b \in Word /\ got \in Word /\ Parity(b) \in {0, 1} /\ Parity(got) \in {0, 1}
  BY UpParity, WordFinite
<1>2. CASE got = b /\ flips' = flips
  BY <1>1, <1>2
<1>3. CASE flips' = flips + Cardinality(Xor(b, got))
  <2>1. Xor(b, got) \in Word /\ Parity(Xor(b, got)) = (Parity(b) + Parity(got)) % 2
    BY <1>1, XorParity
  <2>2. PICK n \in Nat : n = Cardinality(Xor(b, got))
    BY <2>1, WordFinite
  <2>3. n % 2 = (Parity(b) + Parity(got)) % 2
    BY <2>1, <2>2 DEF Parity
  <2>4. PICK f \in Nat, x \in {0, 1}, y \in {0, 1} : f = flips /\ x = Parity(b) /\ y = Parity(got)
    BY <1>1
  <2>5. (f + n) % 2 = ((f % 2) + x + y) % 2
    <3>1. n % 2 = (x + y) % 2
      BY <2>3, <2>4
    <3>2. \A i, j \in Nat, u, v \in {0, 1} : j % 2 = (u + v) % 2 => (i + j) % 2 = ((i % 2) + u + v) % 2
      OBVIOUS
    <3> QED
      BY <3>1, <3>2
  <2>6. flips' = f + n
    BY <1>3, <2>2, <2>4
  <2> QED
    BY <2>4, <2>5, <2>6
<1> QED
  BY <1>2, <1>3 DEF Arrives

LEMMA ParityMoves ==
  ASSUME CrcTypeOK, ParityKept, NEW b \in Octet, NEW got \in Octet,
         BodyMove(b, got) \/ LowMove(got) \/ HighMove(got)
  PROVE  ParityKept'
<1>1. /\ sum \in Word /\ computed \in Word /\ low \in Octet /\ flips \in Nat
      /\ LowByte(sum) \in Octet /\ HighByte(sum) \in Octet
  BY SplitAndJoin DEF CrcTypeOK
<1>2. /\ Parity(sum) \in {0, 1} /\ Parity(computed) \in {0, 1} /\ Parity(low) \in {0, 1}
      /\ Parity(LowByte(sum)) \in {0, 1} /\ Parity(HighByte(sum)) \in {0, 1}
      /\ \A x \in Octet : Parity(x) \in {0, 1}
  BY <1>1, WordFinite, UpParity
<1>3. CASE BodyMove(b, got)
  <2>1. b \in Octet
    OBVIOUS
  <2>2. flips' \in Nat /\ flips' % 2 = ((flips % 2) + Parity(b) + Parity(got)) % 2
    BY <1>1, <1>3, <2>1, FlipParity DEF BodyMove
  <2>3. /\ Parity(sum') = (Parity(sum) + Parity(b)) % 2
        /\ Parity(computed') = (Parity(computed) + Parity(got)) % 2
        /\ AtBody /\ ~ AtHigh' /\ phase' = "RECEIVING"
    BY <1>1, <1>3, <2>1, ByteStepParity DEF BodyMove, AtBody, AtHigh, BodyField
  <2>4. (Parity(sum) + Parity(computed) + flips) % 2 = 0
    BY <2>3 DEF ParityKept
  <2>5. (Parity(sum') + Parity(computed') + flips') % 2 = 0
    <3>1. PICK s \in {0, 1}, c \in {0, 1}, x \in {0, 1}, y \in {0, 1}, f \in Nat, g \in Nat :
            /\ s = Parity(sum) /\ c = Parity(computed) /\ x = Parity(b) /\ y = Parity(got)
            /\ f = flips /\ g = flips'
      BY <1>1, <1>2, <2>1, <2>2
    <3>2. g % 2 = ((f % 2) + x + y) % 2 /\ (s + c + f) % 2 = 0
      BY <2>2, <2>4, <3>1
    <3>3. (((s + x) % 2) + ((c + y) % 2) + g) % 2 = 0
      BY <3>2
    <3> QED
      BY <2>3, <3>1, <3>3
  <2> QED
    BY <2>3, <2>5 DEF ParityKept, Parity
<1>5. CASE LowMove(got)
  <2>1. flips' \in Nat /\ flips' % 2 = ((flips % 2) + Parity(LowByte(sum)) + Parity(got)) % 2
    BY <1>1, <1>5, FlipParity DEF LowMove
  <2>2. /\ AtBody /\ ~ AtBody' /\ phase' = "RECEIVING"
        /\ low' = got /\ sum' = sum /\ computed' = computed
    BY <1>5 DEF LowMove, AtBody, BodyField
  <2>3. (Parity(sum) + Parity(computed) + flips) % 2 = 0
    BY <2>2 DEF ParityKept
  <2>4. (Parity(sum) + Parity(computed) + Parity(got) + Parity(LowByte(sum)) + flips') % 2 = 0
    <3>1. PICK s \in {0, 1}, c \in {0, 1}, x \in {0, 1}, y \in {0, 1}, f \in Nat, g \in Nat :
            /\ s = Parity(sum) /\ c = Parity(computed)
            /\ x = Parity(LowByte(sum)) /\ y = Parity(got)
            /\ f = flips /\ g = flips'
      BY <1>1, <1>2, <2>1
    <3>2. g % 2 = ((f % 2) + x + y) % 2 /\ (s + c + f) % 2 = 0
      BY <2>1, <2>3, <3>1
    <3>3. (s + c + y + x + g) % 2 = 0
      BY <3>2
    <3> QED
      BY <3>1, <3>3
  <2> QED
    BY <2>2, <2>4 DEF ParityKept, Parity, LowByte
<1>6. CASE HighMove(got)
  <2>1. flips' \in Nat /\ flips' % 2 = ((flips % 2) + Parity(HighByte(sum)) + Parity(got)) % 2
    BY <1>1, <1>6, FlipParity DEF HighMove
  <2>2. /\ AtHigh /\ ~ AtBody' /\ ~ AtHigh'
        /\ phase' = "ACCEPTED" => computed = JoinBytes(low, got)
    BY <1>6 DEF HighMove, AtBody, AtHigh, BodyField
  <2>3. (Parity(sum) + Parity(computed) + Parity(low) + Parity(LowByte(sum)) + flips) % 2 = 0
    BY <2>2 DEF ParityKept
  <2>4. Parity(sum) = (Parity(LowByte(sum)) + Parity(HighByte(sum))) % 2
    BY <1>1, JoinParity, SplitAndJoin
  <2>5. ASSUME computed = JoinBytes(low, got) PROVE flips' % 2 = 0
    <3>1. Parity(computed) = (Parity(low) + Parity(got)) % 2
      BY <1>1, <2>5, JoinParity
    <3>2. PICK s \in {0, 1}, c \in {0, 1}, l \in {0, 1}, t \in {0, 1}, h \in {0, 1},
               y \in {0, 1}, f \in Nat, g \in Nat :
            /\ s = Parity(sum) /\ c = Parity(computed) /\ l = Parity(low)
            /\ t = Parity(LowByte(sum)) /\ h = Parity(HighByte(sum)) /\ y = Parity(got)
            /\ f = flips /\ g = flips'
      BY <1>1, <1>2, <2>1
    <3>3. /\ g % 2 = ((f % 2) + h + y) % 2 /\ (s + c + l + t + f) % 2 = 0
          /\ s = (t + h) % 2 /\ c = (l + y) % 2
      BY <2>1, <2>3, <2>4, <3>1, <3>2
    <3>4. g % 2 = 0
      BY <3>3
    <3> QED
      BY <3>2, <3>4
  <2> QED
    BY <2>2, <2>5 DEF ParityKept
<1> QED
  BY <1>3, <1>5, <1>6

LEMMA ParityStep ==
  CrcTypeOK /\ Together /\ ParitySeen /\ [CrcNext]_crcVars => ParitySeen'
<1> SUFFICES ASSUME CrcTypeOK, Together, ParitySeen, [CrcNext]_crcVars PROVE ParitySeen'
  OBVIOUS
<1>1. ASSUME NEW b \in Offered, NEW got \in Octet, Transfer(b, got), ~ lengthHit'
      PROVE  ParityKept'
  <2>1. b \in Octet /\ ParityKept /\ (BodyMove(b, got) \/ LowMove(got) \/ HighMove(got))
    BY <1>1, Moves DEF ParitySeen
  <2> QED
    BY <2>1, ParityMoves
<1>2. CASE UNCHANGED crcVars
  BY <1>2 DEF crcVars, ParitySeen, ParityKept, Parity, LowByte, AtBody, AtHigh
<1> QED
  BY <1>1, <1>2 DEF CrcNext, ParitySeen

(* However many bits the wire flips outside LENGTH and however long the    *)
(* frame: an odd number of them is never accepted.  (For two flips it      *)
(* depends on the length: see below.)                                      *)
THEOREM OddFlipsAlwaysCaught == CrcSpec => []OddFlipsCaught
<1>1. CrcInit => ParityKept
  <2>1. \A n \in {0, 1} : (n + n + 0) % 2 = 0
    OBVIOUS
  <2>2. Parity(InitialCrc) \in {0, 1}
    BY WordFinite DEF InitialCrc, Word
  <2> QED
    BY <2>1, <2>2 DEF CrcInit, ParityKept, AtField, AtHigh
<1>2. ParitySeen => OddFlipsCaught
  BY DEF ParitySeen, ParityKept, OddFlipsCaught
<1>3. ParityKept => ParitySeen
  BY DEF ParitySeen
<1> QED
  BY <1>1, <1>2, <1>3, ParityStep, CrcTypeCorrect, AlwaysTogether, PTL DEF CrcSpec
-----------------------------------------------------------------------------
(* Arithmetic of polynomials over GF(2), given by the exponents of their   *)
(* terms, modulo the divisor of the checksum.                              *)

(* A set of numbers has a least one; induction, from the least              *)
(* counterexample.                                                         *)
LEMMA Least ==
  ASSUME NEW T \in SUBSET Nat, T # {}
  PROVE  \E m \in T : \A k \in T : m <= k
<1>1. PICK m \in T : \A k \in T : <<k, m>> \notin OpToRel(<, Nat)
  BY WFMin, NatLessThanWellFounded
<1>2. ASSUME NEW k \in T PROVE m <= k
  <2>1. k \in Nat /\ m \in Nat
    OBVIOUS
  <2>2. ~ (k < m)
    BY <1>1, <2>1 DEF OpToRel
  <2> QED
    BY <2>1, <2>2
<1> QED
  BY <1>2

LEMMA Induct ==
  ASSUME NEW S \in SUBSET Nat, 0 \in S, \A n \in S : n + 1 \in S
  PROVE  S = Nat
<1> SUFFICES ASSUME Nat \ S # {} PROVE FALSE
  OBVIOUS
<1>1. PICK m \in Nat \ S : \A k \in Nat \ S : m <= k
  BY Least
<1>2. m - 1 \in Nat /\ ~ (m <= m - 1)
  BY <1>1
<1>3. m - 1 \in S /\ (m - 1) + 1 = m
  BY <1>1, <1>2
<1> QED BY <1>1, <1>3

(* Polynomials over GF(2), as sets of exponents.                           *)
Polynomial == {p \in SUBSET Nat : \E n \in Nat : p \subseteq 0 .. n}
Times(q) == Xor(Xor(q, Shifted(q, 5)), Xor(Shifted(q, 12), Shifted(q, 16)))
Congruent(a, b) == \E q \in Polynomial : Times(q) = Xor(a, b)

LEMMA ShiftedPoint ==
  ASSUME NEW p \in SUBSET Nat, NEW k \in Nat, NEW i
  PROVE  i \in Shifted(p, k) <=> i \in Int /\ i - k \in p
BY DEF Shifted

(* Multiplication by the divisor, term by term.                            *)
LEMMA TimesPoint ==
  ASSUME NEW q \in SUBSET Nat, NEW i \in Int
  PROVE  i \in Times(q) <=> ((i \in q) # (i - 5 \in q)) # ((i - 12 \in q) # (i - 16 \in q))
BY ShiftedPoint DEF Times, Xor

LEMMA PolynomialClosed ==
  /\ {} \in Polynomial /\ {0} \in Polynomial
  /\ \A p \in Polynomial, k \in Nat : Shifted(p, k) \in Polynomial
  /\ \A p, q \in Polynomial : Xor(p, q) \in Polynomial
  /\ \A p \in Polynomial : Times(p) \in Polynomial
<1>1. {} \in Polynomial /\ {0} \in Polynomial
  <2>1. {} \subseteq 0 .. 0 /\ {0} \subseteq 0 .. 0
    OBVIOUS
  <2> QED
    BY <2>1 DEF Polynomial
<1>2. ASSUME NEW p \in Polynomial, NEW k \in Nat PROVE Shifted(p, k) \in Polynomial
  <2>1. PICK n \in Nat : p \subseteq 0 .. n
    BY DEF Polynomial
  <2>2. Shifted(p, k) \subseteq 0 .. n + k /\ Shifted(p, k) \subseteq Nat /\ n + k \in Nat
    BY <2>1 DEF Shifted
  <2> QED
    BY <2>2 DEF Polynomial
<1>3. ASSUME NEW p \in Polynomial, NEW q \in Polynomial PROVE Xor(p, q) \in Polynomial
  <2>1. PICK n \in Nat : p \subseteq 0 .. n
    BY DEF Polynomial
  <2>2. PICK m \in Nat : q \subseteq 0 .. m
    BY DEF Polynomial
  <2>3. Xor(p, q) \subseteq 0 .. n + m /\ Xor(p, q) \subseteq Nat /\ n + m \in Nat
    BY <2>1, <2>2 DEF Xor
  <2> QED
    BY <2>3 DEF Polynomial
<1> QED
  BY <1>1, <1>2, <1>3 DEF Times

LEMMA TimesIsNat == ASSUME NEW q \in SUBSET Nat PROVE Times(q) \in SUBSET Nat
<1>1. \A k \in Nat : Shifted(q, k) \subseteq Nat
  BY DEF Shifted
<1>2. 5 \in Nat /\ 12 \in Nat /\ 16 \in Nat
  OBVIOUS
<1> QED
  BY <1>1, <1>2 DEF Times, Xor

LEMMA TimesLinear ==
  ASSUME NEW p \in SUBSET Nat, NEW q \in SUBSET Nat
  PROVE  Times(Xor(p, q)) = Xor(Times(p), Times(q))
<1>1. Xor(p, q) \in SUBSET Nat
  BY DEF Xor
<1>2. \A x \in SUBSET Nat : Times(x) \subseteq Int
  BY TimesIsNat
<1>3. ASSUME NEW i \in Int PROVE i \in Times(Xor(p, q)) <=> i \in Xor(Times(p), Times(q))
  <2>1. \A j : j \in Xor(p, q) <=> (j \in p) # (j \in q)
    BY DEF Xor
  <2>2. i \in Xor(Times(p), Times(q)) <=> (i \in Times(p)) # (i \in Times(q))
    BY DEF Xor
  <2> QED
    BY <1>1, <2>1, <2>2, TimesPoint
<1>4. Xor(Times(p), Times(q)) \subseteq Int
  BY <1>2 DEF Xor
<1> QED
  BY <1>1, <1>2, <1>3, <1>4

LEMMA TimesShifted ==
  ASSUME NEW q \in SUBSET Nat, NEW k \in Nat
  PROVE  Times(Shifted(q, k)) = Shifted(Times(q), k)
<1>1. Shifted(q, k) \in SUBSET Nat
  BY DEF Shifted
<1>2. \A x \in SUBSET Nat : Times(x) \subseteq Nat
  BY TimesIsNat
<1>3. ASSUME NEW i \in Int PROVE i \in Times(Shifted(q, k)) <=> i \in Shifted(Times(q), k)
  <2>1. i \in Shifted(Times(q), k) <=> i - k \in Times(q)
    BY <1>2, ShiftedPoint
  <2>2. i - k \in Times(q) <=>
          ((i - k \in q) # (i - k - 5 \in q)) # ((i - k - 12 \in q) # (i - k - 16 \in q))
    BY TimesPoint
  <2>3. i \in Times(Shifted(q, k)) <=>
          ((i \in Shifted(q, k)) # (i - 5 \in Shifted(q, k)))
            # ((i - 12 \in Shifted(q, k)) # (i - 16 \in Shifted(q, k)))
    BY <1>1, TimesPoint
  <2>4. \A j \in Int : j \in Shifted(q, k) <=> j - k \in q
    BY ShiftedPoint
  <2>5. /\ i - 5 - k = i - k - 5 /\ i - 12 - k = i - k - 12 /\ i - 16 - k = i - k - 16
        /\ i - k \in Int /\ i - 5 \in Int /\ i - 12 \in Int /\ i - 16 \in Int
    OBVIOUS
  <2> QED
    BY <2>1, <2>2, <2>3, <2>4, <2>5
<1>4. Shifted(Times(q), k) \subseteq Int
  BY <1>2 DEF Shifted
<1> QED
  BY <1>1, <1>2, <1>3, <1>4

LEMMA XorShifted ==
  ASSUME NEW p \in SUBSET Nat, NEW q \in SUBSET Nat, NEW k \in Nat
  PROVE  Shifted(Xor(p, q), k) = Xor(Shifted(p, k), Shifted(q, k))
<1>1. Xor(p, q) \in SUBSET Nat
  BY DEF Xor
<1>2. ASSUME NEW i PROVE i \in Shifted(Xor(p, q), k) <=> i \in Xor(Shifted(p, k), Shifted(q, k))
  BY <1>1, ShiftedPoint DEF Xor
<1> QED
  BY <1>2

(* Only zero times the divisor is as short as a word.                      *)
LEMMA TimesIsLong ==
  ASSUME NEW q \in Polynomial, Times(q) \in Word
  PROVE  q = {}
<1> SUFFICES ASSUME q # {} PROVE FALSE
  OBVIOUS
<1>1. PICK n \in Nat : q \subseteq 0 .. n
  BY DEF Polynomial
<1> DEFINE T == {k \in Nat : q \subseteq 0 .. k}
<1>2. PICK m \in T : \A k \in T : m <= k
  <2>1. T \in SUBSET Nat /\ n \in T
    BY <1>1
  <2> QED
    BY <2>1, Least
<1>3. m \in q
  <2> SUFFICES ASSUME m \notin q PROVE FALSE
    OBVIOUS
  <2>1. m # 0
    BY <1>2
  <2>2. m - 1 \in T
    BY <1>2, <2>1
  <2> QED
    BY <1>2, <2>2
<1>4. m + 16 \in Times(q)
  <2>1. m + 16 \notin q /\ m + 16 - 5 \notin q /\ m + 16 - 12 \notin q /\ m + 16 - 16 = m
    BY <1>2
  <2> QED
    BY <1>2, <1>3, <2>1, TimesPoint DEF Polynomial
<1> QED
  BY <1>2, <1>4 DEF Word

(* Congruence modulo the divisor, and what respects it.                    *)
LEMMA CongruentEquiv ==
  /\ \A a : Congruent(a, a)
  /\ \A a, b : Congruent(a, b) => Congruent(b, a)
  /\ \A a, b, c : Congruent(a, b) /\ Congruent(b, c) => Congruent(a, c)
<1>1. \A a : Congruent(a, a)
  <2>1. Times({}) = {} /\ \A a : Xor(a, a) = {}
    BY DEF Times, Xor, Shifted
  <2> QED
    BY <2>1, PolynomialClosed DEF Congruent
<1>2. \A a, b : Xor(a, b) = Xor(b, a)
  BY DEF Xor
<1>3. ASSUME NEW a, NEW b, NEW c, Congruent(a, b), Congruent(b, c) PROVE Congruent(a, c)
  <2>1. PICK p \in Polynomial : Times(p) = Xor(a, b)
    BY <1>3 DEF Congruent
  <2>2. PICK q \in Polynomial : Times(q) = Xor(b, c)
    BY <1>3 DEF Congruent
  <2>3. Xor(Xor(a, b), Xor(b, c)) = Xor(a, c)
    BY DEF Xor
  <2>4. Xor(p, q) \in Polynomial /\ Times(Xor(p, q)) = Xor(Times(p), Times(q))
    BY PolynomialClosed, TimesLinear DEF Polynomial
  <2> QED
    BY <2>1, <2>2, <2>3, <2>4 DEF Congruent
<1> QED
  BY <1>1, <1>2, <1>3 DEF Congruent

LEMMA CongruentXor ==
  ASSUME NEW a, NEW b, NEW c, NEW d, Congruent(a, b), Congruent(c, d)
  PROVE  Congruent(Xor(a, c), Xor(b, d))
<1>1. PICK p \in Polynomial : Times(p) = Xor(a, b)
  BY DEF Congruent
<1>2. PICK q \in Polynomial : Times(q) = Xor(c, d)
  BY DEF Congruent
<1>3. Xor(Xor(a, b), Xor(c, d)) = Xor(Xor(a, c), Xor(b, d))
  BY DEF Xor
<1>4. Xor(p, q) \in Polynomial /\ Times(Xor(p, q)) = Xor(Times(p), Times(q))
  BY PolynomialClosed, TimesLinear DEF Polynomial
<1> QED
  BY <1>1, <1>2, <1>3, <1>4 DEF Congruent

LEMMA CongruentShifted ==
  ASSUME NEW a \in SUBSET Nat, NEW b \in SUBSET Nat, NEW k \in Nat, Congruent(a, b)
  PROVE  Congruent(Shifted(a, k), Shifted(b, k))
<1>1. PICK q \in Polynomial : Times(q) = Xor(a, b)
  BY DEF Congruent
<1>2. Shifted(q, k) \in Polynomial /\ Times(Shifted(q, k)) = Shifted(Xor(a, b), k)
  BY <1>1, PolynomialClosed, TimesShifted DEF Polynomial
<1> QED
  BY <1>2, XorShifted DEF Congruent

(* Congruent words are equal.                                              *)
LEMMA RemainderUnique ==
  ASSUME NEW a \in Word, NEW b \in Word, Congruent(a, b)
  PROVE  a = b
<1>1. PICK q \in Polynomial : Times(q) = Xor(a, b)
  BY DEF Congruent
<1>2. Xor(a, b) \in Word
  BY DEF Word, Xor
<1>3. q = {}
  BY <1>1, <1>2, TimesIsLong
<1>4. Xor(a, b) = {}
  BY <1>1, <1>3 DEF Times, Xor, Shifted
<1> QED
  BY <1>4 DEF Xor

-----------------------------------------------------------------------------
LEMMA WordIsPolynomial ==
  /\ Word \subseteq Polynomial /\ Octet \subseteq Word
  /\ Word \subseteq SUBSET Nat /\ Polynomial \subseteq SUBSET Nat
<1>1. \A u \in Word : u \in SUBSET Nat /\ u \subseteq 0 .. 15
  BY DEF Word
<1>2. 15 \in Nat
  OBVIOUS
<1> QED
  BY <1>1, <1>2 DEF Polynomial, Word, Octet

LEMMA ShiftedTwice ==
  ASSUME NEW p \in SUBSET Nat, NEW j \in Nat, NEW k \in Nat, NEW n \in Nat, n = j + k
  PROVE  Shifted(Shifted(p, j), k) = Shifted(p, n)
<1>1. Shifted(p, j) \in SUBSET Nat
  BY DEF Shifted
<1>2. ASSUME NEW i PROVE i \in Shifted(Shifted(p, j), k) <=> i \in Shifted(p, n)
  <2>1. i \in Int => i - k - j = i - n
    OBVIOUS
  <2> QED
    BY <1>1, <2>1, ShiftedPoint
<1> QED
  BY <1>1, <1>2

(* One turn of the loop multiplies by x, modulo the divisor.               *)
LEMMA BitStepShifts == ASSUME NEW c \in Word PROVE Congruent(BitStep(c), Shifted(c, 1))
<1>1. CASE 15 \notin c
  <2>1. BitStep(c) = Shifted(c, 1)
    BY <1>1 DEF BitStep, ShiftLeft, Shifted
  <2> QED
    BY <2>1, CongruentEquiv
<1>2. CASE 15 \in c
  <2>1. Shifted(c, 1) = ShiftLeft(c) \cup {16} /\ 16 \notin ShiftLeft(c)
    BY <1>2 DEF ShiftLeft, Shifted, Word
  <2>2. BitStep(c) = Xor(ShiftLeft(c), Poly) /\ 16 \notin Poly
    BY <1>2 DEF BitStep, Poly
  <2>3. Xor(BitStep(c), Shifted(c, 1)) = Poly \cup {16}
    BY <2>1, <2>2 DEF Xor
  <2>4. Times({0}) = Poly \cup {16}
    BY DEF Times, Xor, Shifted, Poly
  <2> QED
    BY <2>3, <2>4, PolynomialClosed DEF Congruent
<1> QED
  BY <1>1, <1>2

LEMMA EightBitsShift == ASSUME NEW c \in Word PROVE Congruent(EightBits(c), Shifted(c, 8))
<1>1. ASSUME NEW d \in Word, NEW k \in Nat, Congruent(d, Shifted(c, k))
      PROVE  BitStep(d) \in Word /\ Congruent(BitStep(d), Shifted(c, k + 1))
  <2>1. Shifted(c, k) \in SUBSET Nat
    BY WordIsPolynomial DEF Shifted
  <2>2. Congruent(Shifted(d, 1), Shifted(Shifted(c, k), 1))
    BY <1>1, <2>1, CongruentShifted, WordIsPolynomial
  <2>3. Shifted(Shifted(c, k), 1) = Shifted(c, k + 1)
    BY ShiftedTwice, WordIsPolynomial
  <2>4. Congruent(Shifted(d, 1), Shifted(c, k + 1))
    BY <2>2, <2>3
  <2> QED
    BY <2>4, BitStepShifts, BitStepType, CongruentEquiv
<1> DEFINE b1 == BitStep(c)  b2 == BitStep(b1)  b3 == BitStep(b2)  b4 == BitStep(b3)
           b5 == BitStep(b4) b6 == BitStep(b5)  b7 == BitStep(b6)  b8 == BitStep(b7)
<1>3. EightBits(c) = b8
  BY DEF EightBits
<1>4. b1 \in Word /\ Congruent(b1, Shifted(c, 1))
  BY BitStepShifts, BitStepType
<1> HIDE DEF b1
<1>5. b2 \in Word /\ Congruent(b2, Shifted(c, 2))
  BY <1>1, <1>4
<1> HIDE DEF b2
<1>6. b3 \in Word /\ Congruent(b3, Shifted(c, 3))
  BY <1>1, <1>5
<1> HIDE DEF b3
<1>7. b4 \in Word /\ Congruent(b4, Shifted(c, 4))
  BY <1>1, <1>6
<1> HIDE DEF b4
<1>8. b5 \in Word /\ Congruent(b5, Shifted(c, 5))
  BY <1>1, <1>7
<1> HIDE DEF b5
<1>9. b6 \in Word /\ Congruent(b6, Shifted(c, 6))
  BY <1>1, <1>8
<1> HIDE DEF b6
<1>10. b7 \in Word /\ Congruent(b7, Shifted(c, 7))
  BY <1>1, <1>9
<1> HIDE DEF b7
<1>11. b8 \in Word /\ Congruent(b8, Shifted(c, 8))
  BY <1>1, <1>10
<1> QED
  BY <1>3, <1>11

(* One byte of the message is the next eight terms of the dividend.        *)
LEMMA ByteStepShifts ==
  ASSUME NEW c \in Word, NEW b \in Octet
  PROVE  Congruent(ByteStep(c, b), Xor(Shifted(c, 8), Shifted(b, 16)))
<1>1. Shifted(b, 8) \in Word
  BY DEF Shifted, Octet, Word
<1>2. Xor(c, Shifted(b, 8)) \in Word
  BY <1>1 DEF Word, Xor
<1>3. ByteStep(c, b) = EightBits(Xor(c, Shifted(b, 8)))
  BY DEF ByteStep, Shifted
<1>4. Shifted(Xor(c, Shifted(b, 8)), 8) = Xor(Shifted(c, 8), Shifted(b, 16))
  <2>1. b \in SUBSET Nat /\ c \in SUBSET Nat /\ Shifted(b, 8) \in SUBSET Nat
    BY <1>1, WordIsPolynomial
  <2>2. Shifted(Shifted(b, 8), 8) = Shifted(b, 16)
    BY <2>1, ShiftedTwice
  <2>3. Shifted(Xor(c, Shifted(b, 8)), 8) = Xor(Shifted(c, 8), Shifted(Shifted(b, 8), 8))
    BY <2>1, XorShifted
  <2> QED
    BY <2>2, <2>3
<1> QED
  BY <1>2, <1>3, <1>4, EightBitsShift

(* The degree of a dividend.                                               *)
LEMMA DividendBounds ==
  ASSUME NEW s \in Seq(Octet)
  PROVE  Dividend(s) \in SUBSET Nat /\ Dividend(s) \subseteq 0 .. 8 * Len(s) + 15
<1>1. Len(s) \in Nat /\ \A k \in 1 .. Len(s) : s[k] \in Octet
  OBVIOUS
<1>2. ASSUME NEW k \in 1 .. Len(s)
      PROVE  Shifted(s[k], 8 * (Len(s) - k) + 16) \subseteq 0 .. 8 * Len(s) + 15
  <2>1. \A i \in s[k] : i \in 0 .. 7
    BY <1>1 DEF Octet
  <2>2. \A i \in 0 .. 7 : i + (8 * (Len(s) - k) + 16) \in 0 .. 8 * Len(s) + 15
    BY <1>1
  <2> QED
    BY <2>1, <2>2 DEF Shifted
<1>3. Shifted(InitialCrc, 8 * Len(s)) \subseteq 0 .. 8 * Len(s) + 15
  BY <1>1 DEF Shifted, InitialCrc
<1>4. Dividend(s) \subseteq 0 .. 8 * Len(s) + 15
  BY <1>2, <1>3 DEF Dividend, Xor
<1>5. 0 .. 8 * Len(s) + 15 \subseteq Nat
  BY <1>1
<1> QED
  BY <1>4, <1>5

(* What the definition of the dividend comes to, byte by byte.             *)
LEMMA DividendEmpty == Dividend(<<>>) = InitialCrc
<1>1. Len(<<>>) = 0 /\ 1 .. 0 = {}
  OBVIOUS
<1>2. Shifted(InitialCrc, 8 * 0) = InitialCrc
  BY DEF Shifted, InitialCrc
<1>3. \A f : UNION {f[k] : k \in {}} = {}
  OBVIOUS
<1>4. \A p : Xor({}, p) = p
  BY DEF Xor
<1>5. UNION {Shifted(<<>>[k], 8 * (0 - k) + 16) : k \in 1 .. 0} = {}
  BY <1>1
<1> QED
  BY <1>1, <1>2, <1>4, <1>5 DEF Dividend

LEMMA DividendAppend ==
  ASSUME NEW s \in Seq(Octet), NEW b \in Octet
  PROVE  Dividend(Append(s, b)) = Xor(Shifted(Dividend(s), 8), Shifted(b, 16))
<1> DEFINE t == Append(s, b)
           n == Len(s)
           M(v) == UNION {Shifted(v[k], 8 * (Len(v) - k) + 16) : k \in 1 .. Len(v)}
<1>1. /\ n \in Nat /\ Len(t) = n + 1 /\ t[n + 1] = b
      /\ \A k \in 1 .. n : t[k] = s[k] /\ s[k] \in Octet
  OBVIOUS
<1>2. M(t) = Shifted(M(s), 8) \cup Shifted(b, 16)
  <2>1. ASSUME NEW k \in 1 .. n
        PROVE  Shifted(t[k], 8 * (n + 1 - k) + 16) = Shifted(Shifted(s[k], 8 * (n - k) + 16), 8)
    <3> HIDE DEF n
    <3>1. 8 * (n - k) + 16 \in Nat /\ (8 * (n - k) + 16) + 8 = 8 * (n + 1 - k) + 16
      BY <1>1
    <3>2. s[k] \in SUBSET Nat
      BY <1>1 DEF Octet
    <3>3. Shifted(Shifted(s[k], 8 * (n - k) + 16), 8) = Shifted(s[k], 8 * (n + 1 - k) + 16)
      BY <3>1, <3>2, ShiftedTwice
    <3> QED
      BY <1>1, <3>1, <3>3
  <2>2. Shifted(t[n + 1], 8 * (n + 1 - (n + 1)) + 16) = Shifted(b, 16)
    BY <1>1
  <2>3. ASSUME NEW i
        PROVE  i \in M(t) <=> \E k \in 1 .. n + 1 : i \in Shifted(t[k], 8 * (n + 1 - k) + 16)
    BY <1>1
  <2>4. ASSUME NEW i
        PROVE  i \in Shifted(M(s), 8) <=>
                 \E k \in 1 .. n : i \in Shifted(Shifted(s[k], 8 * (n - k) + 16), 8)
    BY DEF Shifted
  <2>5. ASSUME NEW i PROVE i \in M(t) <=> i \in Shifted(M(s), 8) \cup Shifted(b, 16)
    <3>1. 1 .. n + 1 = (1 .. n) \cup {n + 1}
      BY <1>1
    <3> HIDE DEF M, t, n
    <3> QED
      BY <2>1, <2>2, <2>3, <2>4, <3>1
  <2> HIDE DEF M, t
  <2> QED
    BY <2>5
<1>3. \A i \in M(s) : i \in Nat /\ i >= 16
  <2>1. ASSUME NEW k \in 1 .. n, NEW i \in Shifted(s[k], 8 * (n - k) + 16)
        PROVE  i \in Nat /\ i >= 16
    <3>1. PICK j \in s[k] : i = j + (8 * (n - k) + 16)
      BY DEF Shifted
    <3>2. j \in 0 .. 7
      BY <1>1 DEF Octet
    <3> QED
      BY <1>1, <3>1, <3>2
  <2> QED
    BY <2>1
<1>4. \A i \in Shifted(M(s), 8) : i >= 24
  <2> HIDE DEF M
  <2> QED
    BY <1>3 DEF Shifted
<1>5. \A i \in Shifted(b, 16) : i <= 23 /\ ~ (i >= 24)
  BY DEF Shifted, Octet
<1>6. Shifted(InitialCrc, 8 * (n + 1)) = Shifted(Shifted(InitialCrc, 8 * n), 8)
  <2>1. 8 * n \in Nat /\ 8 * (n + 1) = 8 * n + 8 /\ InitialCrc \in SUBSET Nat
    BY <1>1 DEF InitialCrc
  <2>2. Shifted(Shifted(InitialCrc, 8 * n), 8) = Shifted(InitialCrc, 8 * n + 8)
    BY <2>1, ShiftedTwice
  <2> QED
    BY <2>1, <2>2
<1>7. M(s) \in SUBSET Nat /\ Shifted(InitialCrc, 8 * n) \in SUBSET Nat
  BY <1>1, <1>3 DEF Shifted, InitialCrc
<1>8. Dividend(s) = Xor(M(s), Shifted(InitialCrc, 8 * n))
  BY DEF Dividend
<1>9. Dividend(t) = Xor(M(t), Shifted(InitialCrc, 8 * (n + 1)))
  BY <1>1 DEF Dividend
<1> HIDE DEF M, t, n
<1>10. Shifted(Dividend(s), 8) = Xor(Shifted(M(s), 8), Shifted(InitialCrc, 8 * (n + 1)))
  BY <1>6, <1>7, <1>8, XorShifted
<1>11. \A i : ~ (i \in Shifted(M(s), 8) /\ i \in Shifted(b, 16))
  BY <1>4, <1>5
<1>12. Dividend(t) = Xor(Shifted(Dividend(s), 8), Shifted(b, 16))
  BY <1>2, <1>9, <1>10, <1>11 DEF Xor
<1> QED
  BY <1>12 DEF t

(* A step of the long division lowers the degree and keeps the remainder.  *)
LEMMA CancelStep ==
  ASSUME NEW p \in SUBSET Nat, NEW n \in Nat, p \subseteq 0 .. n + 16
  PROVE  LET c == Cancel(p, n + 16) IN
         c \in SUBSET Nat /\ c \subseteq 0 .. n + 15 /\ Congruent(p, c)
<1> DEFINE d == n + 16
           c == Cancel(p, d)
<1>1. CASE d \notin p
  <2>1. c = p /\ p \subseteq 0 .. n + 15
    BY <1>1 DEF Cancel
  <2> QED
    BY <2>1, CongruentEquiv
<1>2. CASE d \in p
  <2>1. d - 16 = n
    OBVIOUS
  <2>2. c = Xor(p, Shifted(Divisor, n))
    BY <1>2, <2>1 DEF Cancel
  <2>3. Shifted(Divisor, n) = {n, n + 5, n + 12, n + 16}
    BY DEF Shifted, Divisor
  <2>4. c \in SUBSET Nat /\ c \subseteq 0 .. n + 15
    <3>1. \A i : i \in c <=> (i \in p) # (i \in {n, n + 5, n + 12, n + 16})
      <4> HIDE DEF c
      <4> QED
        BY <2>2, <2>3 DEF Xor
    <3>2. ASSUME NEW i \in c PROVE i \in 0 .. n + 15
      <4>1. i # n + 16
        BY <1>2, <3>1
      <4>2. i \in p \/ i \in {n, n + 5, n + 12, n + 16}
        BY <3>1
      <4>3. {n, n + 5, n + 12, n + 16} \subseteq 0 .. n + 16
        OBVIOUS
      <4>4. i \in 0 .. n + 16
        BY <4>2, <4>3
      <4> QED
        BY <4>1, <4>4
    <3>3. 0 .. n + 15 \subseteq Nat
      OBVIOUS
    <3> QED
      BY <3>2, <3>3
  <2>5. Times({0}) = Divisor /\ {0} \in SUBSET Nat
    BY DEF Times, Xor, Shifted, Divisor
  <2>6. Times(Shifted({0}, n)) = Shifted(Divisor, n) /\ Shifted({0}, n) \in Polynomial
    BY <2>5, TimesShifted, PolynomialClosed
  <2>7. Xor(p, c) = Shifted(Divisor, n)
    BY <2>2 DEF Xor
  <2> QED
    BY <2>4, <2>6, <2>7 DEF Congruent
<1> QED
  BY <1>1, <1>2

(* The recursion has a solution, and its last value is a word congruent    *)
(* to the dividend.                                                        *)
LEMMA RemainderCongruent ==
  ASSUME NEW s \in Seq(Octet)
  PROVE  Remainder(s) \in Word /\ Congruent(Dividend(s), Remainder(s))
<1> DEFINE n == 8 * Len(s)
           Turn(f, k) == IF k = 0 THEN Dividend(s) ELSE Cancel(f[k - 1], n + 16 - k)
           rest == CHOOSE f : f = [k \in 0 .. n |-> Turn(f, k)]
           Fits(g, m) == /\ DOMAIN g = 0 .. m
                         /\ \A k \in 0 .. m : /\ g[k] = Turn(g, k)
                                              /\ g[k] \in SUBSET Nat /\ g[k] \subseteq 0 .. n + 15 - k
                                              /\ Congruent(Dividend(s), g[k])
           S == {m \in Nat : m > n \/ \E g : g = [k \in 0 .. m |-> g[k]] /\ Fits(g, m)}
<1>1. Len(s) \in Nat /\ n \in Nat
  OBVIOUS
<1>2. Remainder(s) = rest[n]
  BY DEF Remainder
<1> HIDE DEF n
<1>3. 0 \in S
  <2> DEFINE g == [k \in 0 .. 0 |-> Dividend(s)]
  <2>1. Dividend(s) \in SUBSET Nat /\ Dividend(s) \subseteq 0 .. n + 15
    BY DividendBounds DEF n
  <2>2. Fits(g, 0)
    BY <1>1, <2>1, CongruentEquiv
  <2> QED
    BY <2>2
<1>4. ASSUME NEW m \in S PROVE m + 1 \in S
  <2> SUFFICES ASSUME m + 1 <= n PROVE \E h : h = [k \in 0 .. m + 1 |-> h[k]] /\ Fits(h, m + 1)
    BY <1>1
  <2>1. m \in Nat /\ ~ (m > n)
    BY <1>1
  <2>2. PICK g : g = [k \in 0 .. m |-> g[k]] /\ Fits(g, m)
    BY <2>1
  <2> DEFINE c == Cancel(g[m], n + 16 - (m + 1))
             h == [k \in 0 .. m + 1 |-> IF k = m + 1 THEN c ELSE g[k]]
  <2>3. PICK j \in Nat : j = n - (m + 1)
    BY <1>1, <2>1
  <2>4. g[m] \in SUBSET Nat /\ g[m] \subseteq 0 .. j + 16 /\ Congruent(Dividend(s), g[m])
    <3>1. n + 15 - m = j + 16 /\ m \in 0 .. m
      BY <1>1, <2>1, <2>3
    <3> QED
      BY <2>2, <3>1
  <2>5. n + 16 - (m + 1) = j + 16 /\ n + 15 - (m + 1) = j + 15
    BY <1>1, <2>1, <2>3
  <2>6. c \in SUBSET Nat /\ c \subseteq 0 .. n + 15 - (m + 1) /\ Congruent(Dividend(s), c)
    BY <2>4, <2>5, CancelStep, CongruentEquiv
  <2> HIDE DEF c
  <2>7. h[m + 1] = c /\ \A k \in 0 .. m : h[k] = g[k] /\ (k # 0 => h[k - 1] = g[k - 1])
    BY <2>1
  <2>8. c = Turn(h, m + 1)
    <3>1. h[(m + 1) - 1] = g[m] /\ m + 1 # 0
      BY <2>1, <2>7
    <3> QED
      BY <3>1 DEF c
  <2>9. \A k \in 0 .. m : Turn(h, k) = Turn(g, k)
    BY <2>7
  <2>10. Fits(h, m + 1)
    <3>1. DOMAIN h = 0 .. m + 1
      OBVIOUS
    <3>2. ASSUME NEW k \in 0 .. m + 1
          PROVE  /\ h[k] = Turn(h, k)
                 /\ h[k] \in SUBSET Nat /\ h[k] \subseteq 0 .. n + 15 - k
                 /\ Congruent(Dividend(s), h[k])
      <4> HIDE DEF h
      <4>1. CASE k = m + 1
        <5> HIDE DEF Turn
        <5> QED
          BY <4>1, <2>6, <2>7, <2>8
      <4>2. CASE k \in 0 .. m
        <5>1. /\ g[k] = Turn(g, k)
              /\ g[k] \in SUBSET Nat /\ g[k] \subseteq 0 .. n + 15 - k
              /\ Congruent(Dividend(s), g[k])
          BY <2>2, <4>2
        <5> HIDE DEF Turn
        <5> QED
          BY <4>2, <5>1, <2>7, <2>9
      <4> QED
        BY <4>1, <4>2, <2>1
    <3> QED
      BY <3>1, <3>2
  <2>11. h = [k \in 0 .. m + 1 |-> h[k]]
    OBVIOUS
  <2> HIDE DEF h, Fits
  <2> QED
    BY <2>10, <2>11
<1>5. n \in S
  <2> HIDE DEF S
  <2>1. S \in SUBSET Nat
    BY DEF S
  <2> QED
    BY <1>1, <1>3, <1>4, <2>1, Induct
<1>6. PICK g : g = [k \in 0 .. n |-> g[k]] /\ Fits(g, n)
  BY <1>1, <1>5
<1>7. g = [k \in 0 .. n |-> Turn(g, k)]
  <2>1. \A k \in 0 .. n : g[k] = Turn(g, k)
    BY <1>6
  <2> HIDE DEF Turn
  <2> QED
    BY <1>6, <2>1
<1>8. rest = [k \in 0 .. n |-> Turn(rest, k)]
  <2> HIDE DEF Turn
  <2> QED
    BY <1>7
<1>9. rest[n] = g[n]
  <2> DEFINE T == {k \in Nat : k > n \/ rest[k] = g[k]}
  <2> HIDE DEF rest
  <2>1. \A k \in 0 .. n : rest[k] = Turn(rest, k) /\ g[k] = Turn(g, k)
    <3> HIDE DEF Turn
    <3> QED
      BY <1>7, <1>8
  <2>2. 0 \in T
    BY <1>1, <2>1
  <2>3. ASSUME NEW k \in T PROVE k + 1 \in T
    <3> SUFFICES ASSUME k + 1 <= n PROVE rest[k + 1] = g[k + 1]
      BY <1>1
    <3>1. rest[k] = g[k] /\ (k + 1) - 1 = k /\ k + 1 # 0 /\ k + 1 \in 0 .. n
      BY <1>1
    <3> QED
      BY <2>1, <3>1
  <2> HIDE DEF T
  <2>4. T \in SUBSET Nat
    BY DEF T
  <2>5. T = Nat
    BY <2>2, <2>3, <2>4, Induct
  <2> QED
    BY <1>1, <2>5 DEF T
<1>10. g[n] \in SUBSET Nat /\ g[n] \subseteq 0 .. n + 15 - n /\ Congruent(Dividend(s), g[n])
  BY <1>1, <1>6
<1>11. n + 15 - n = 15
  BY <1>1
<1> QED
  BY <1>2, <1>9, <1>10, <1>11 DEF Word

(* The sum of the body is congruent to its dividend.                       *)
SumCongruent == Congruent(Dividend(body), sum)

LEMMA SumStep ==
  CrcTypeOK /\ SumCongruent /\ [CrcNext]_crcVars => SumCongruent'
<1> SUFFICES ASSUME CrcTypeOK, SumCongruent, [CrcNext]_crcVars PROVE SumCongruent'
  OBVIOUS
<1>1. ASSUME NEW b \in Octet, body' = Append(body, b), sum' = ByteStep(sum, b)
      PROVE  SumCongruent'
  <2>1. body \in Seq(Octet) /\ b \in Octet /\ sum \in Word
    BY DEF CrcTypeOK
  <2>2. Dividend(body) \in SUBSET Nat /\ sum \in SUBSET Nat
    BY <2>1, DividendBounds, WordIsPolynomial
  <2>3. Congruent(Shifted(Dividend(body), 8), Shifted(sum, 8))
    BY <2>2, CongruentShifted DEF SumCongruent
  <2>4. Congruent(Xor(Shifted(Dividend(body), 8), Shifted(b, 16)),
                  Xor(Shifted(sum, 8), Shifted(b, 16)))
    BY <2>3, CongruentXor, CongruentEquiv
  <2>5. Congruent(Dividend(Append(body, b)), ByteStep(sum, b))
    BY <2>1, <2>4, DividendAppend, ByteStepShifts, CongruentEquiv
  <2> QED
    BY <1>1, <2>5 DEF SumCongruent
<1>2. CASE UNCHANGED <<body, sum>>
  BY <1>2 DEF SumCongruent
<1>3. CASE UNCHANGED crcVars
  BY <1>2, <1>3 DEF crcVars
<1>4. CASE CrcNext
  BY <1>1, <1>2, <1>4, OfferedIsOctet DEF CrcNext, Transfer, Sends
<1> QED
  BY <1>3, <1>4

(* The loop over bytes and bits of crc16.c computes the remainder of the   *)
(* documented division, whatever the body and however long.                *)
THEOREM SumIsAlwaysRemainder == CrcSpec => []SumIsRemainder
<1>1. CrcInit => SumCongruent
  BY DividendEmpty, CongruentEquiv DEF CrcInit, SumCongruent
<1>2. CrcTypeOK /\ SumCongruent => SumIsRemainder
  <2> SUFFICES ASSUME CrcTypeOK, SumCongruent PROVE SumIsRemainder
    OBVIOUS
  <2>1. body \in Seq(Octet) /\ sum \in Word
    BY DEF CrcTypeOK
  <2>2. Congruent(sum, Remainder(body)) /\ Remainder(body) \in Word
    BY <2>1, RemainderCongruent, CongruentEquiv DEF SumCongruent
  <2> QED
    BY <2>1, <2>2, RemainderUnique DEF SumIsRemainder
<1> QED
  BY <1>1, <1>2, SumStep, CrcTypeCorrect, PTL DEF CrcSpec
-----------------------------------------------------------------------------
(* Squaring a polynomial doubles its exponents.                            *)
Squared(p) == {2 * i : i \in p}

LEMMA SquaredPoint ==
  ASSUME NEW p \in SUBSET Nat
  PROVE  /\ Squared(p) \in SUBSET Nat
         /\ \A i : i \in Squared(p) <=> \E j \in p : i = 2 * j
BY DEF Squared

LEMMA SquaredPolynomial == ASSUME NEW p \in Polynomial PROVE Squared(p) \in Polynomial
<1>1. PICK n \in Nat : p \subseteq 0 .. n
  BY DEF Polynomial
<1>2. Squared(p) \subseteq 0 .. 2 * n /\ 2 * n \in Nat /\ Squared(p) \in SUBSET Nat
  BY <1>1 DEF Squared, Polynomial
<1> QED
  BY <1>2 DEF Polynomial

LEMMA XorSquared ==
  ASSUME NEW p \in SUBSET Nat, NEW q \in SUBSET Nat
  PROVE  Squared(Xor(p, q)) = Xor(Squared(p), Squared(q))
<1>1. \A v \in SUBSET Nat, j \in Nat : 2 * j \in Squared(v) <=> j \in v
  BY DEF Squared
<1>2. Xor(p, q) \in SUBSET Nat
  BY DEF Xor
<1>3. \A v \in SUBSET Nat : \A i \in Squared(v) : \E j \in Nat : i = 2 * j
  BY DEF Squared
<1>4. \A i : i \in Xor(Squared(p), Squared(q)) <=> (i \in Squared(p)) # (i \in Squared(q))
  BY DEF Xor
<1>5. \A i : i \in Xor(p, q) <=> (i \in p) # (i \in q)
  BY DEF Xor
<1>6. ASSUME NEW i PROVE i \in Squared(Xor(p, q)) <=> i \in Xor(Squared(p), Squared(q))
  <2>1. CASE \E j \in Nat : i = 2 * j
    BY <2>1, <1>1, <1>2, <1>4, <1>5
  <2>2. CASE ~ \E j \in Nat : i = 2 * j
    BY <2>2, <1>2, <1>3, <1>4
  <2> QED
    BY <2>1, <2>2
<1> QED
  BY <1>6

LEMMA SquaredShifted ==
  ASSUME NEW p \in SUBSET Nat, NEW k \in Nat, NEW m \in Nat, m = 2 * k
  PROVE  Squared(Shifted(p, k)) = Shifted(Squared(p), m)
<1>1. ASSUME NEW i PROVE i \in Squared(Shifted(p, k)) <=> \E j \in p : i = 2 * (j + k)
  BY DEF Squared, Shifted
<1>2. ASSUME NEW i PROVE i \in Shifted(Squared(p), m) <=> \E j \in p : i = 2 * j + m
  BY DEF Squared, Shifted
<1>3. \A j \in p : 2 * (j + k) = 2 * j + m
  OBVIOUS
<1> QED
  BY <1>1, <1>2, <1>3

(* The square of a multiple is a multiple.                                 *)
LEMMA TimesSquared ==
  ASSUME NEW q \in SUBSET Nat
  PROVE  Squared(Times(q)) = Times(Times(Squared(q)))
<1> DEFINE s == Squared(q)
<1>1. s \in SUBSET Nat /\ Times(s) \in SUBSET Nat
  BY SquaredPoint, TimesIsNat
<1>2. Squared(Times(q)) = Xor(Xor(s, Shifted(s, 10)), Xor(Shifted(s, 24), Shifted(s, 32)))
  <2>1. \A k \in Nat : Shifted(q, k) \in SUBSET Nat
    BY DEF Shifted
  <2>2. \A a, b \in SUBSET Nat : Xor(a, b) \in SUBSET Nat
    BY DEF Xor
  <2>3. /\ Squared(Shifted(q, 5)) = Shifted(s, 10) /\ Squared(Shifted(q, 12)) = Shifted(s, 24)
        /\ Squared(Shifted(q, 16)) = Shifted(s, 32)
    BY SquaredShifted
  <2>4. Squared(Xor(q, Shifted(q, 5))) = Xor(s, Shifted(s, 10))
    BY <2>1, <2>3, XorSquared
  <2>5. Squared(Xor(Shifted(q, 12), Shifted(q, 16))) = Xor(Shifted(s, 24), Shifted(s, 32))
    BY <2>1, <2>3, XorSquared
  <2>6. Xor(q, Shifted(q, 5)) \in SUBSET Nat /\ Xor(Shifted(q, 12), Shifted(q, 16)) \in SUBSET Nat
    BY <2>1, <2>2
  <2> QED
    BY <2>4, <2>5, <2>6, XorSquared DEF Times
<1> HIDE DEF s
<1>3. ASSUME NEW i \in Int
      PROVE  i \in Times(Times(s)) <=>
               i \in Xor(Xor(s, Shifted(s, 10)), Xor(Shifted(s, 24), Shifted(s, 32)))
  <2>1. \A j \in Int : j \in Times(s) <=>
          ((j \in s) # (j - 5 \in s)) # ((j - 12 \in s) # (j - 16 \in s))
    BY <1>1, TimesPoint
  <2>2. /\ i - 5 \in Int /\ i - 12 \in Int /\ i - 16 \in Int
        /\ i - 5 - 5 = i - 10 /\ i - 5 - 12 = i - 17 /\ i - 5 - 16 = i - 21
        /\ i - 12 - 5 = i - 17 /\ i - 12 - 12 = i - 24 /\ i - 12 - 16 = i - 28
        /\ i - 16 - 5 = i - 21 /\ i - 16 - 12 = i - 28 /\ i - 16 - 16 = i - 32
    OBVIOUS
  <2>3. /\ i \in Times(s) <=> ((i \in s) # (i - 5 \in s)) # ((i - 12 \in s) # (i - 16 \in s))
        /\ i - 5 \in Times(s) <=> ((i - 5 \in s) # (i - 10 \in s)) # ((i - 17 \in s) # (i - 21 \in s))
        /\ i - 12 \in Times(s) <=> ((i - 12 \in s) # (i - 17 \in s)) # ((i - 24 \in s) # (i - 28 \in s))
        /\ i - 16 \in Times(s) <=> ((i - 16 \in s) # (i - 21 \in s)) # ((i - 28 \in s) # (i - 32 \in s))
    BY <2>1, <2>2
  <2>4. i \in Times(Times(s)) <=>
          ((i \in Times(s)) # (i - 5 \in Times(s))) # ((i - 12 \in Times(s)) # (i - 16 \in Times(s)))
    BY <1>1, TimesPoint
  <2>5. i \in Times(Times(s)) <=> ((i \in s) # (i - 10 \in s)) # ((i - 24 \in s) # (i - 32 \in s))
    BY <2>3, <2>4
  <2>6. \A k \in {10, 24, 32} : i \in Shifted(s, k) <=> i - k \in s
    BY <1>1, ShiftedPoint
  <2> QED
    BY <2>5, <2>6 DEF Xor
<1>4. Times(Times(s)) \in SUBSET Nat
  BY <1>1, TimesIsNat
<1>5. Xor(Xor(s, Shifted(s, 10)), Xor(Shifted(s, 24), Shifted(s, 32))) \subseteq Int
  <2>1. s \subseteq Int /\ \A k \in Nat : Shifted(s, k) \subseteq Int
    BY <1>1 DEF Shifted
  <2> QED
    BY <2>1 DEF Xor
<1>6. Times(Times(s)) = Xor(Xor(s, Shifted(s, 10)), Xor(Shifted(s, 24), Shifted(s, 32)))
  BY <1>3, <1>4, <1>5
<1> QED
  BY <1>2, <1>6 DEF s

LEMMA CongruentSquared ==
  ASSUME NEW a \in SUBSET Nat, NEW b \in SUBSET Nat, Congruent(a, b)
  PROVE  Congruent(Squared(a), Squared(b))
<1>1. PICK q \in Polynomial : Times(q) = Xor(a, b)
  BY DEF Congruent
<1>2. Squared(Times(q)) = Xor(Squared(a), Squared(b))
  BY <1>1, XorSquared
<1>3. Squared(Times(q)) = Times(Times(Squared(q))) /\ Times(Squared(q)) \in Polynomial
  BY TimesSquared, SquaredPolynomial, PolynomialClosed, WordIsPolynomial
<1> QED
  BY <1>2, <1>3 DEF Congruent

(* Powers of x, doubled or doubled and one more; q is the quotient.        *)
Power(e) == {e}

LEMMA PowerDoubled ==
  ASSUME NEW e \in Nat, NEW u \in Word, Congruent(Power(e), u), NEW d \in Nat, d = 2 * e,
         NEW q \in Word, NEW v \in Word, Times(q) = Xor(Squared(u), v)
  PROVE  Congruent(Power(d), v)
<1>1. Squared(Power(e)) = Power(d)
  BY DEF Squared, Power
<1>2. Power(e) \in SUBSET Nat /\ u \in SUBSET Nat
  BY WordIsPolynomial DEF Power
<1>3. Congruent(Power(d), Squared(u))
  BY <1>1, <1>2, CongruentSquared
<1>4. Congruent(Squared(u), v)
  BY WordIsPolynomial DEF Congruent
<1> QED
  BY <1>3, <1>4, CongruentEquiv

LEMMA PowerDoubledPlusOne ==
  ASSUME NEW e \in Nat, NEW u \in Word, Congruent(Power(e), u), NEW d \in Nat, d = 2 * e + 1,
         NEW q \in Word, NEW v \in Word, Times(q) = Xor(Shifted(Squared(u), 1), v)
  PROVE  Congruent(Power(d), v)
<1>1. Shifted(Squared(Power(e)), 1) = Power(d)
  BY DEF Squared, Shifted, Power
<1>2. Power(e) \in SUBSET Nat /\ u \in SUBSET Nat
  BY WordIsPolynomial DEF Power
<1>3. Congruent(Squared(Power(e)), Squared(u))
  BY <1>2, CongruentSquared
<1>4. Squared(u) \in SUBSET Nat /\ Squared(Power(e)) \in SUBSET Nat
  BY <1>2, SquaredPoint
<1>5. Congruent(Power(d), Shifted(Squared(u), 1))
  BY <1>1, <1>3, <1>4, CongruentShifted
<1>6. Congruent(Shifted(Squared(u), 1), v)
  BY WordIsPolynomial DEF Congruent
<1> QED
  BY <1>5, <1>6, CongruentEquiv

(* Four powers of x, each a table of squarings with their quotients.       *)
LEMMA Power217 == Congruent(Power(217), {0, 1, 5, 6, 7, 11, 14})
<1> DEFINE x13 == {13}
           x27 == {0, 3, 5, 7, 8, 11, 15}
           x54 == {3, 5, 6, 8, 12}
           x108 == {4, 6, 8, 9, 10, 12, 13}
           x217 == {0, 1, 5, 6, 7, 11, 14}
<1>1. x13 \in Word /\ Congruent(Power(13), x13)
  BY CongruentEquiv DEF Word, Power
<1>2. x27 \in Word /\ Congruent(Power(27), x27)
  <2> DEFINE q == {0, 3, 7, 11}
  <2>1. Squared(x13) = {26}
    BY DEF Squared
  <2>2. Shifted(Squared(x13), 1) = {27}
    BY <2>1 DEF Shifted
  <2>3. Times(q) = Xor({27}, x27)
    BY DEF Times, Xor, Shifted
  <2>4. Times(q) = Xor(Shifted(Squared(x13), 1), x27)
    BY <2>2, <2>3
  <2>5. q \in Word /\ x27 \in Word /\ 27 = 2 * 13 + 1
    BY DEF Word
  <2> HIDE DEF q, x13, x27
  <2> QED
    BY <1>1, <2>4, <2>5, PowerDoubledPlusOne
<1>3. x54 \in Word /\ Congruent(Power(54), x54)
  <2> DEFINE q == {0, 3, 10, 14}
  <2>1. Squared(x27) = {0, 6, 10, 14, 16, 22, 30}
    BY DEF Squared
  <2>2. Times(q) = Xor({0, 6, 10, 14, 16, 22, 30}, x54)
    BY DEF Times, Xor, Shifted
  <2>3. Times(q) = Xor(Squared(x27), x54)
    BY <2>1, <2>2
  <2>4. q \in Word /\ x54 \in Word /\ 54 = 2 * 27
    BY DEF Word
  <2> HIDE DEF q, x27, x54
  <2> QED
    BY <1>2, <2>3, <2>4, PowerDoubled
<1>4. x108 \in Word /\ Congruent(Power(108), x108)
  <2> DEFINE q == {4, 8}
  <2>1. Squared(x54) = {6, 10, 12, 16, 24}
    BY DEF Squared
  <2>2. Times(q) = Xor({6, 10, 12, 16, 24}, x108)
    BY DEF Times, Xor, Shifted
  <2>3. Times(q) = Xor(Squared(x54), x108)
    BY <2>1, <2>2
  <2>4. q \in Word /\ x108 \in Word /\ 108 = 2 * 54
    BY DEF Word
  <2> HIDE DEF q, x54, x108
  <2> QED
    BY <1>3, <2>3, <2>4, PowerDoubled
<1>5. x217 \in Word /\ Congruent(Power(217), x217)
  <2> DEFINE q == {0, 1, 7, 9, 11}
  <2>1. Squared(x108) = {8, 12, 16, 18, 20, 24, 26}
    BY DEF Squared
  <2>2. Shifted(Squared(x108), 1) = {9, 13, 17, 19, 21, 25, 27}
    BY <2>1 DEF Shifted
  <2>3. Times(q) = Xor({9, 13, 17, 19, 21, 25, 27}, x217)
    BY DEF Times, Xor, Shifted
  <2>4. Times(q) = Xor(Shifted(Squared(x108), 1), x217)
    BY <2>2, <2>3
  <2>5. q \in Word /\ x217 \in Word /\ 217 = 2 * 108 + 1
    BY DEF Word
  <2> HIDE DEF q, x108, x217
  <2> QED
    BY <1>4, <2>4, <2>5, PowerDoubledPlusOne
<1> QED
  BY <1>5

LEMMA Power1057 == Congruent(Power(1057), {0, 1, 2, 3, 5, 7, 9, 12, 13, 14, 15})
<1> DEFINE x8 == {8}
           x16 == {0, 5, 12}
           x33 == {5, 6, 9, 10, 11, 13, 14}
           x66 == {1, 2, 6, 7, 8, 14, 15}
           x132 == {1, 3, 7, 9, 10, 11, 14}
           x264 == {1, 2, 6, 8, 11, 12, 14}
           x528 == {0, 1, 4, 5, 7, 11, 12, 13, 14}
           x1057 == {0, 1, 2, 3, 5, 7, 9, 12, 13, 14, 15}
<1>1. x8 \in Word /\ Congruent(Power(8), x8)
  BY CongruentEquiv DEF Word, Power
<1>2. x16 \in Word /\ Congruent(Power(16), x16)
  <2> DEFINE q == {0}
  <2>1. Squared(x8) = {16}
    BY DEF Squared
  <2>2. Times(q) = Xor({16}, x16)
    BY DEF Times, Xor, Shifted
  <2>3. Times(q) = Xor(Squared(x8), x16)
    BY <2>1, <2>2
  <2>4. q \in Word /\ x16 \in Word /\ 16 = 2 * 8
    BY DEF Word
  <2> HIDE DEF q, x8, x16
  <2> QED
    BY <1>1, <2>3, <2>4, PowerDoubled
<1>3. x33 \in Word /\ Congruent(Power(33), x33)
  <2> DEFINE q == {1, 5, 9}
  <2>1. Squared(x16) = {0, 10, 24}
    BY DEF Squared
  <2>2. Shifted(Squared(x16), 1) = {1, 11, 25}
    BY <2>1 DEF Shifted
  <2>3. Times(q) = Xor({1, 11, 25}, x33)
    BY DEF Times, Xor, Shifted
  <2>4. Times(q) = Xor(Shifted(Squared(x16), 1), x33)
    BY <2>2, <2>3
  <2>5. q \in Word /\ x33 \in Word /\ 33 = 2 * 16 + 1
    BY DEF Word
  <2> HIDE DEF q, x16, x33
  <2> QED
    BY <1>2, <2>4, <2>5, PowerDoubledPlusOne
<1>4. x66 \in Word /\ Congruent(Power(66), x66)
  <2> DEFINE q == {1, 2, 8, 10, 12}
  <2>1. Squared(x33) = {10, 12, 18, 20, 22, 26, 28}
    BY DEF Squared
  <2>2. Times(q) = Xor({10, 12, 18, 20, 22, 26, 28}, x66)
    BY DEF Times, Xor, Shifted
  <2>3. Times(q) = Xor(Squared(x33), x66)
    BY <2>1, <2>2
  <2>4. q \in Word /\ x66 \in Word /\ 66 = 2 * 33
    BY DEF Word
  <2> HIDE DEF q, x33, x66
  <2> QED
    BY <1>3, <2>3, <2>4, PowerDoubled
<1>5. x132 \in Word /\ Congruent(Power(132), x132)
  <2> DEFINE q == {1, 2, 3, 4, 6, 8, 10, 12, 14}
  <2>1. Squared(x66) = {2, 4, 12, 14, 16, 28, 30}
    BY DEF Squared
  <2>2. Times(q) = Xor({2, 4, 12, 14, 16, 28, 30}, x132)
    BY DEF Times, Xor, Shifted
  <2>3. Times(q) = Xor(Squared(x66), x132)
    BY <2>1, <2>2
  <2>4. q \in Word /\ x132 \in Word /\ 132 = 2 * 66
    BY DEF Word
  <2> HIDE DEF q, x66, x132
  <2> QED
    BY <1>4, <2>3, <2>4, PowerDoubled
<1>6. x264 \in Word /\ Congruent(Power(264), x264)
  <2> DEFINE q == {1, 6, 8, 12}
  <2>1. Squared(x132) = {2, 6, 14, 18, 20, 22, 28}
    BY DEF Squared
  <2>2. Times(q) = Xor({2, 6, 14, 18, 20, 22, 28}, x264)
    BY DEF Times, Xor, Shifted
  <2>3. Times(q) = Xor(Squared(x132), x264)
    BY <2>1, <2>2
  <2>4. q \in Word /\ x264 \in Word /\ 264 = 2 * 132
    BY DEF Word
  <2> HIDE DEF q, x132, x264
  <2> QED
    BY <1>5, <2>3, <2>4, PowerDoubled
<1>7. x528 \in Word /\ Congruent(Power(528), x528)
  <2> DEFINE q == {0, 1, 2, 6, 12}
  <2>1. Squared(x264) = {2, 4, 12, 16, 22, 24, 28}
    BY DEF Squared
  <2>2. Times(q) = Xor({2, 4, 12, 16, 22, 24, 28}, x528)
    BY DEF Times, Xor, Shifted
  <2>3. Times(q) = Xor(Squared(x264), x528)
    BY <2>1, <2>2
  <2>4. q \in Word /\ x528 \in Word /\ 528 = 2 * 264
    BY DEF Word
  <2> HIDE DEF q, x264, x528
  <2> QED
    BY <1>6, <2>3, <2>4, PowerDoubled
<1>8. x1057 \in Word /\ Congruent(Power(1057), x1057)
  <2> DEFINE q == {0, 2, 11, 13}
  <2>1. Squared(x528) = {0, 2, 8, 10, 14, 22, 24, 26, 28}
    BY DEF Squared
  <2>2. Shifted(Squared(x528), 1) = {1, 3, 9, 11, 15, 23, 25, 27, 29}
    BY <2>1 DEF Shifted
  <2>3. Times(q) = Xor({1, 3, 9, 11, 15, 23, 25, 27, 29}, x1057)
    BY DEF Times, Xor, Shifted
  <2>4. Times(q) = Xor(Shifted(Squared(x528), 1), x1057)
    BY <2>2, <2>3
  <2>5. q \in Word /\ x1057 \in Word /\ 1057 = 2 * 528 + 1
    BY DEF Word
  <2> HIDE DEF q, x528, x1057
  <2> QED
    BY <1>7, <2>4, <2>5, PowerDoubledPlusOne
<1> QED
  BY <1>8

LEMMA Power4681 == Congruent(Power(4681), {1, 6, 10, 11, 13})
<1> DEFINE x9 == {9}
           x18 == {2, 7, 14}
           x36 == {0, 1, 5, 6, 8, 9, 14}
           x73 == {1, 2, 5, 7, 8, 9, 10, 11, 15}
           x146 == {3, 7, 8, 9, 14}
           x292 == {1, 2, 4, 7, 8, 9, 12}
           x585 == {8, 10, 14}
           x1170 == {0, 1, 5, 6, 8}
           x2340 == {2, 5, 10}
           x4681 == {1, 6, 10, 11, 13}
<1>1. x9 \in Word /\ Congruent(Power(9), x9)
  BY CongruentEquiv DEF Word, Power
<1>2. x18 \in Word /\ Congruent(Power(18), x18)
  <2> DEFINE q == {2}
  <2>1. Squared(x9) = {18}
    BY DEF Squared
  <2>2. Times(q) = Xor({18}, x18)
    BY DEF Times, Xor, Shifted
  <2>3. Times(q) = Xor(Squared(x9), x18)
    BY <2>1, <2>2
  <2>4. q \in Word /\ x18 \in Word /\ 18 = 2 * 9
    BY DEF Word
  <2> HIDE DEF q, x9, x18
  <2> QED
    BY <1>1, <2>3, <2>4, PowerDoubled
<1>3. x36 \in Word /\ Congruent(Power(36), x36)
  <2> DEFINE q == {0, 1, 4, 8, 12}
  <2>1. Squared(x18) = {4, 14, 28}
    BY DEF Squared
  <2>2. Times(q) = Xor({4, 14, 28}, x36)
    BY DEF Times, Xor, Shifted
  <2>3. Times(q) = Xor(Squared(x18), x36)
    BY <2>1, <2>2
  <2>4. q \in Word /\ x36 \in Word /\ 36 = 2 * 18
    BY DEF Word
  <2> HIDE DEF q, x18, x36
  <2> QED
    BY <1>2, <2>3, <2>4, PowerDoubled
<1>4. x73 \in Word /\ Congruent(Power(73), x73)
  <2> DEFINE q == {2, 3, 5, 9, 13}
  <2>1. Squared(x36) = {0, 2, 10, 12, 16, 18, 28}
    BY DEF Squared
  <2>2. Shifted(Squared(x36), 1) = {1, 3, 11, 13, 17, 19, 29}
    BY <2>1 DEF Shifted
  <2>3. Times(q) = Xor({1, 3, 11, 13, 17, 19, 29}, x73)
    BY DEF Times, Xor, Shifted
  <2>4. Times(q) = Xor(Shifted(Squared(x36), 1), x73)
    BY <2>2, <2>3
  <2>5. q \in Word /\ x73 \in Word /\ 73 = 2 * 36 + 1
    BY DEF Word
  <2> HIDE DEF q, x36, x73
  <2> QED
    BY <1>3, <2>4, <2>5, PowerDoubledPlusOne
<1>5. x146 \in Word /\ Congruent(Power(146), x146)
  <2> DEFINE q == {2, 3, 4, 10, 14}
  <2>1. Squared(x73) = {2, 4, 10, 14, 16, 18, 20, 22, 30}
    BY DEF Squared
  <2>2. Times(q) = Xor({2, 4, 10, 14, 16, 18, 20, 22, 30}, x146)
    BY DEF Times, Xor, Shifted
  <2>3. Times(q) = Xor(Squared(x73), x146)
    BY <2>1, <2>2
  <2>4. q \in Word /\ x146 \in Word /\ 146 = 2 * 73
    BY DEF Word
  <2> HIDE DEF q, x73, x146
  <2> QED
    BY <1>4, <2>3, <2>4, PowerDoubled
<1>6. x292 \in Word /\ Congruent(Power(292), x292)
  <2> DEFINE q == {1, 2, 4, 8, 12}
  <2>1. Squared(x146) = {6, 14, 16, 18, 28}
    BY DEF Squared
  <2>2. Times(q) = Xor({6, 14, 16, 18, 28}, x292)
    BY DEF Times, Xor, Shifted
  <2>3. Times(q) = Xor(Squared(x146), x292)
    BY <2>1, <2>2
  <2>4. q \in Word /\ x292 \in Word /\ 292 = 2 * 146
    BY DEF Word
  <2> HIDE DEF q, x146, x292
  <2> QED
    BY <1>5, <2>3, <2>4, PowerDoubled
<1>7. x585 \in Word /\ Congruent(Power(585), x585)
  <2> DEFINE q == {3, 5, 9}
  <2>1. Squared(x292) = {2, 4, 8, 14, 16, 18, 24}
    BY DEF Squared
  <2>2. Shifted(Squared(x292), 1) = {3, 5, 9, 15, 17, 19, 25}
    BY <2>1 DEF Shifted
  <2>3. Times(q) = Xor({3, 5, 9, 15, 17, 19, 25}, x585)
    BY DEF Times, Xor, Shifted
  <2>4. Times(q) = Xor(Shifted(Squared(x292), 1), x585)
    BY <2>2, <2>3
  <2>5. q \in Word /\ x585 \in Word /\ 585 = 2 * 292 + 1
    BY DEF Word
  <2> HIDE DEF q, x292, x585
  <2> QED
    BY <1>6, <2>4, <2>5, PowerDoubledPlusOne
<1>8. x1170 \in Word /\ Congruent(Power(1170), x1170)
  <2> DEFINE q == {0, 1, 8, 12}
  <2>1. Squared(x585) = {16, 20, 28}
    BY DEF Squared
  <2>2. Times(q) = Xor({16, 20, 28}, x1170)
    BY DEF Times, Xor, Shifted
  <2>3. Times(q) = Xor(Squared(x585), x1170)
    BY <2>1, <2>2
  <2>4. q \in Word /\ x1170 \in Word /\ 1170 = 2 * 585
    BY DEF Word
  <2> HIDE DEF q, x585, x1170
  <2> QED
    BY <1>7, <2>3, <2>4, PowerDoubled
<1>9. x2340 \in Word /\ Congruent(Power(2340), x2340)
  <2> DEFINE q == {0}
  <2>1. Squared(x1170) = {0, 2, 10, 12, 16}
    BY DEF Squared
  <2>2. Times(q) = Xor({0, 2, 10, 12, 16}, x2340)
    BY DEF Times, Xor, Shifted
  <2>3. Times(q) = Xor(Squared(x1170), x2340)
    BY <2>1, <2>2
  <2>4. q \in Word /\ x2340 \in Word /\ 2340 = 2 * 1170
    BY DEF Word
  <2> HIDE DEF q, x1170, x2340
  <2> QED
    BY <1>8, <2>3, <2>4, PowerDoubled
<1>10. x4681 \in Word /\ Congruent(Power(4681), x4681)
  <2> DEFINE q == {1, 5}
  <2>1. Squared(x2340) = {4, 10, 20}
    BY DEF Squared
  <2>2. Shifted(Squared(x2340), 1) = {5, 11, 21}
    BY <2>1 DEF Shifted
  <2>3. Times(q) = Xor({5, 11, 21}, x4681)
    BY DEF Times, Xor, Shifted
  <2>4. Times(q) = Xor(Shifted(Squared(x2340), 1), x4681)
    BY <2>2, <2>3
  <2>5. q \in Word /\ x4681 \in Word /\ 4681 = 2 * 2340 + 1
    BY DEF Word
  <2> HIDE DEF q, x2340, x4681
  <2> QED
    BY <1>9, <2>4, <2>5, PowerDoubledPlusOne
<1> QED
  BY <1>10

LEMMA Power32768 == Congruent(Power(32768), {1})
<1> DEFINE x8 == {8}
           x16 == {0, 5, 12}
           x32 == {4, 5, 8, 9, 10, 12, 13}
           x64 == {0, 5, 6, 11, 12, 13, 15}
           x128 == {2, 3, 4, 5, 6, 7, 9, 10, 11, 13, 15}
           x256 == {0, 3, 5, 9, 10, 11, 15}
           x512 == {2, 3, 4, 5, 6, 7, 8, 9, 12}
           x1024 == {2, 6, 7, 9, 10, 12, 13}
           x2048 == {4, 6, 8, 10, 11, 12, 13, 14, 15}
           x4096 == {1, 2, 3, 4, 7, 9, 11, 13, 15}
           x8192 == {2, 3, 4, 11, 15}
           x16384 == {3, 4, 6, 10, 14}
           x32768 == {1}
<1>1. x8 \in Word /\ Congruent(Power(8), x8)
  BY CongruentEquiv DEF Word, Power
<1>2. x16 \in Word /\ Congruent(Power(16), x16)
  <2> DEFINE q == {0}
  <2>1. Squared(x8) = {16}
    BY DEF Squared
  <2>2. Times(q) = Xor({16}, x16)
    BY DEF Times, Xor, Shifted
  <2>3. Times(q) = Xor(Squared(x8), x16)
    BY <2>1, <2>2
  <2>4. q \in Word /\ x16 \in Word /\ 16 = 2 * 8
    BY DEF Word
  <2> HIDE DEF q, x8, x16
  <2> QED
    BY <1>1, <2>3, <2>4, PowerDoubled
<1>3. x32 \in Word /\ Congruent(Power(32), x32)
  <2> DEFINE q == {0, 4, 8}
  <2>1. Squared(x16) = {0, 10, 24}
    BY DEF Squared
  <2>2. Times(q) = Xor({0, 10, 24}, x32)
    BY DEF Times, Xor, Shifted
  <2>3. Times(q) = Xor(Squared(x16), x32)
    BY <2>1, <2>2
  <2>4. q \in Word /\ x32 \in Word /\ 32 = 2 * 16
    BY DEF Word
  <2> HIDE DEF q, x16, x32
  <2> QED
    BY <1>2, <2>3, <2>4, PowerDoubled
<1>4. x64 \in Word /\ Congruent(Power(64), x64)
  <2> DEFINE q == {0, 6, 8, 10}
  <2>1. Squared(x32) = {8, 10, 16, 18, 20, 24, 26}
    BY DEF Squared
  <2>2. Times(q) = Xor({8, 10, 16, 18, 20, 24, 26}, x64)
    BY DEF Times, Xor, Shifted
  <2>3. Times(q) = Xor(Squared(x32), x64)
    BY <2>1, <2>2
  <2>4. q \in Word /\ x64 \in Word /\ 64 = 2 * 32
    BY DEF Word
  <2> HIDE DEF q, x32, x64
  <2> QED
    BY <1>3, <2>3, <2>4, PowerDoubled
<1>5. x128 \in Word /\ Congruent(Power(128), x128)
  <2> DEFINE q == {0, 2, 3, 4, 6, 8, 14}
  <2>1. Squared(x64) = {0, 10, 12, 22, 24, 26, 30}
    BY DEF Squared
  <2>2. Times(q) = Xor({0, 10, 12, 22, 24, 26, 30}, x128)
    BY DEF Times, Xor, Shifted
  <2>3. Times(q) = Xor(Squared(x64), x128)
    BY <2>1, <2>2
  <2>4. q \in Word /\ x128 \in Word /\ 128 = 2 * 64
    BY DEF Word
  <2> HIDE DEF q, x64, x128
  <2> QED
    BY <1>4, <2>3, <2>4, PowerDoubled
<1>6. x256 \in Word /\ Congruent(Power(256), x256)
  <2> DEFINE q == {0, 3, 4, 6, 14}
  <2>1. Squared(x128) = {4, 6, 8, 10, 12, 14, 18, 20, 22, 26, 30}
    BY DEF Squared
  <2>2. Times(q) = Xor({4, 6, 8, 10, 12, 14, 18, 20, 22, 26, 30}, x256)
    BY DEF Times, Xor, Shifted
  <2>3. Times(q) = Xor(Squared(x128), x256)
    BY <2>1, <2>2
  <2>4. q \in Word /\ x256 \in Word /\ 256 = 2 * 128
    BY DEF Word
  <2> HIDE DEF q, x128, x256
  <2> QED
    BY <1>5, <2>3, <2>4, PowerDoubled
<1>7. x512 \in Word /\ Congruent(Power(512), x512)
  <2> DEFINE q == {0, 2, 3, 4, 10, 14}
  <2>1. Squared(x256) = {0, 6, 10, 18, 20, 22, 30}
    BY DEF Squared
  <2>2. Times(q) = Xor({0, 6, 10, 18, 20, 22, 30}, x512)
    BY DEF Times, Xor, Shifted
  <2>3. Times(q) = Xor(Squared(x256), x512)
    BY <2>1, <2>2
  <2>4. q \in Word /\ x512 \in Word /\ 512 = 2 * 256
    BY DEF Word
  <2> HIDE DEF q, x256, x512
  <2> QED
    BY <1>6, <2>3, <2>4, PowerDoubled
<1>8. x1024 \in Word /\ Congruent(Power(1024), x1024)
  <2> DEFINE q == {2, 4, 8}
  <2>1. Squared(x512) = {4, 6, 8, 10, 12, 14, 16, 18, 24}
    BY DEF Squared
  <2>2. Times(q) = Xor({4, 6, 8, 10, 12, 14, 16, 18, 24}, x1024)
    BY DEF Times, Xor, Shifted
  <2>3. Times(q) = Xor(Squared(x512), x1024)
    BY <2>1, <2>2
  <2>4. q \in Word /\ x1024 \in Word /\ 1024 = 2 * 512
    BY DEF Word
  <2> HIDE DEF q, x512, x1024
  <2> QED
    BY <1>7, <2>3, <2>4, PowerDoubled
<1>9. x2048 \in Word /\ Congruent(Power(2048), x2048)
  <2> DEFINE q == {6, 8, 10}
  <2>1. Squared(x1024) = {4, 12, 14, 18, 20, 24, 26}
    BY DEF Squared
  <2>2. Times(q) = Xor({4, 12, 14, 18, 20, 24, 26}, x2048)
    BY DEF Times, Xor, Shifted
  <2>3. Times(q) = Xor(Squared(x1024), x2048)
    BY <2>1, <2>2
  <2>4. q \in Word /\ x2048 \in Word /\ 2048 = 2 * 1024
    BY DEF Word
  <2> HIDE DEF q, x1024, x2048
  <2> QED
    BY <1>8, <2>3, <2>4, PowerDoubled
<1>10. x4096 \in Word /\ Congruent(Power(4096), x4096)
  <2> DEFINE q == {1, 2, 3, 4, 6, 12, 14}
  <2>1. Squared(x2048) = {8, 12, 16, 20, 22, 24, 26, 28, 30}
    BY DEF Squared
  <2>2. Times(q) = Xor({8, 12, 16, 20, 22, 24, 26, 28, 30}, x4096)
    BY DEF Times, Xor, Shifted
  <2>3. Times(q) = Xor(Squared(x2048), x4096)
    BY <2>1, <2>2
  <2>4. q \in Word /\ x4096 \in Word /\ 4096 = 2 * 2048
    BY DEF Word
  <2> HIDE DEF q, x2048, x4096
  <2> QED
    BY <1>9, <2>3, <2>4, PowerDoubled
<1>11. x8192 \in Word /\ Congruent(Power(8192), x8192)
  <2> DEFINE q == {3, 6, 14}
  <2>1. Squared(x4096) = {2, 4, 6, 8, 14, 18, 22, 26, 30}
    BY DEF Squared
  <2>2. Times(q) = Xor({2, 4, 6, 8, 14, 18, 22, 26, 30}, x8192)
    BY DEF Times, Xor, Shifted
  <2>3. Times(q) = Xor(Squared(x4096), x8192)
    BY <2>1, <2>2
  <2>4. q \in Word /\ x8192 \in Word /\ 8192 = 2 * 4096
    BY DEF Word
  <2> HIDE DEF q, x4096, x8192
  <2> QED
    BY <1>10, <2>3, <2>4, PowerDoubled
<1>12. x16384 \in Word /\ Congruent(Power(16384), x16384)
  <2> DEFINE q == {3, 10, 14}
  <2>1. Squared(x8192) = {4, 6, 8, 22, 30}
    BY DEF Squared
  <2>2. Times(q) = Xor({4, 6, 8, 22, 30}, x16384)
    BY DEF Times, Xor, Shifted
  <2>3. Times(q) = Xor(Squared(x8192), x16384)
    BY <2>1, <2>2
  <2>4. q \in Word /\ x16384 \in Word /\ 16384 = 2 * 8192
    BY DEF Word
  <2> HIDE DEF q, x8192, x16384
  <2> QED
    BY <1>11, <2>3, <2>4, PowerDoubled
<1>13. x32768 \in Word /\ Congruent(Power(32768), x32768)
  <2> DEFINE q == {1, 8, 12}
  <2>1. Squared(x16384) = {6, 8, 12, 20, 28}
    BY DEF Squared
  <2>2. Times(q) = Xor({6, 8, 12, 20, 28}, x32768)
    BY DEF Times, Xor, Shifted
  <2>3. Times(q) = Xor(Squared(x16384), x32768)
    BY <2>1, <2>2
  <2>4. q \in Word /\ x32768 \in Word /\ 32768 = 2 * 16384
    BY DEF Word
  <2> HIDE DEF q, x16384, x32768
  <2> QED
    BY <1>12, <2>3, <2>4, PowerDoubled
<1> QED
  BY <1>13

(* A factor of x^k can be cancelled: x does not divide the divisor.        *)
LEMMA ShiftCancels ==
  ASSUME NEW a \in SUBSET Nat, NEW b, b = Shifted(a, 1), Congruent(b, {})
  PROVE  Congruent(a, {})
<1> DEFINE Down(q) == {i - 1 : i \in q}
<1>1. PICK q \in Polynomial : Times(q) = Xor(b, {})
  BY DEF Congruent
<1>2. Times(q) = Shifted(a, 1) /\ q \in SUBSET Nat
  BY <1>1 DEF Xor, Polynomial
<1>3. 0 \notin q
  <2>1. 0 \notin Times(q)
    BY <1>2 DEF Shifted
  <2> QED
    BY <1>2, <2>1, TimesPoint
<1>4. Down(q) \in Polynomial
  <2>1. PICK n \in Nat : q \subseteq 0 .. n
    BY <1>1 DEF Polynomial
  <2>2. Down(q) \subseteq 0 .. n /\ Down(q) \in SUBSET Nat
    BY <1>2, <1>3, <2>1
  <2> QED
    BY <2>2 DEF Polynomial
<1>5. q = Shifted(Down(q), 1)
  <2>1. \A i \in q : (i - 1) + 1 = i
    BY <1>2
  <2> QED
    BY <2>1 DEF Shifted
<1> HIDE DEF Down
<1>6. Shifted(Times(Down(q)), 1) = Shifted(a, 1)
  BY <1>2, <1>4, <1>5, TimesShifted, WordIsPolynomial
<1>7. Times(Down(q)) \in SUBSET Nat
  BY <1>4, TimesIsNat, WordIsPolynomial
<1>8. \A i \in Nat : i \in Times(Down(q)) <=> i \in a
  <2>1. \A i \in Nat, v \in SUBSET Nat : i \in v <=> i + 1 \in Shifted(v, 1)
    BY DEF Shifted
  <2> QED
    BY <1>6, <1>7, <2>1
<1>9. Times(Down(q)) = Xor(a, {})
  BY <1>7, <1>8 DEF Xor
<1> QED
  BY <1>4, <1>9 DEF Congruent

LEMMA ShiftsCancel ==
  ASSUME NEW k \in Nat, NEW a \in SUBSET Nat, Congruent(Shifted(a, k), {})
  PROVE  Congruent(a, {})
<1> DEFINE S == {j \in Nat : \A b \in SUBSET Nat : Congruent(Shifted(b, j), {}) => Congruent(b, {})}
<1>1. 0 \in S
  <2>1. \A b \in SUBSET Nat : Shifted(b, 0) = b
    BY DEF Shifted
  <2> QED
    BY <2>1
<1>2. ASSUME NEW j \in S PROVE j + 1 \in S
  <2> SUFFICES ASSUME NEW b \in SUBSET Nat, Congruent(Shifted(b, j + 1), {}) PROVE Congruent(b, {})
    OBVIOUS
  <2>1. Shifted(b, j) \in SUBSET Nat
    BY DEF Shifted
  <2>2. Shifted(b, j + 1) = Shifted(Shifted(b, j), 1)
    BY ShiftedTwice
  <2>3. Congruent(Shifted(b, j), {})
    BY <2>1, <2>2, ShiftCancels
  <2> QED
    BY <2>3
<1>3. S \in SUBSET Nat
  OBVIOUS
<1>4. S = Nat
  <2> HIDE DEF S
  <2> QED
    BY <1>1, <1>2, <1>3, Induct
<1> QED
  BY <1>4

(* The exponents d for which x^d is congruent to 1.                        *)
Period == {d \in Nat : Congruent(Power(d), Power(0))}

LEMMA PowerFacts ==
  /\ \A d \in Nat : Power(d) \in SUBSET Nat
  /\ \A d, e \in Nat : Shifted(Power(d), e) = Power(d + e)
<1>1. \A d \in Nat : Power(d) \in SUBSET Nat
  BY DEF Power
<1>2. ASSUME NEW d \in Nat, NEW e \in Nat PROVE Shifted(Power(d), e) = Power(d + e)
  BY DEF Power, Shifted
<1> QED
  BY <1>1, <1>2

LEMMA PeriodClosed ==
  ASSUME NEW d \in Period, NEW e \in Nat
  PROVE  e \in Period <=> d + e \in Period
<1>1. Congruent(Power(d), Power(0)) /\ d \in Nat
  BY DEF Period
<1>2. Congruent(Shifted(Power(d), e), Shifted(Power(0), e))
  BY <1>1, PowerFacts, CongruentShifted
<1>3. Shifted(Power(d), e) = Power(d + e) /\ Shifted(Power(0), e) = Power(e) /\ d + e \in Nat
  BY <1>1, PowerFacts
<1>4. Congruent(Power(d + e), Power(e))
  BY <1>2, <1>3
<1> QED
  BY <1>3, <1>4, CongruentEquiv DEF Period

LEMMA PeriodMultiples ==
  ASSUME NEW d \in Period, NEW k \in Nat
  PROVE  d * k \in Period
<1> DEFINE S == {j \in Nat : d * j \in Period}
<1>1. d \in Nat
  BY DEF Period
<1>2. 0 \in S
  BY <1>1, CongruentEquiv DEF Period
<1>3. ASSUME NEW j \in S PROVE j + 1 \in S
  <2>1. d * (j + 1) = d + d * j /\ d * j \in Nat
    BY <1>1
  <2> QED
    BY <2>1, PeriodClosed
<1>4. S \in SUBSET Nat
  OBVIOUS
<1>5. S = Nat
  <2> HIDE DEF S
  <2> QED
    BY <1>2, <1>3, <1>4, Induct
<1> QED
  BY <1>5

(* x^32767 is 1, and x^(32767/p) is not for its prime factors 7, 31, 151.  *)
LEMMA PeriodInstances ==
  32767 \in Period /\ 217 \notin Period /\ 1057 \notin Period /\ 4681 \notin Period
<1>1. 32767 \in Period
  <2> DEFINE a == Xor(Power(32767), Power(0))
  <2>1. a \in SUBSET Nat
    BY PowerFacts DEF Xor
  <2>2. Shifted(a, 1) = Xor(Power(32768), Power(1))
    <3>1. Power(32767) \in SUBSET Nat /\ Power(0) \in SUBSET Nat
      BY DEF Power
    <3>2. Shifted(Power(32767), 1) = Power(32768) /\ Shifted(Power(0), 1) = Power(1)
      BY DEF Power, Shifted
    <3> QED
      BY <3>1, <3>2, XorShifted
  <2>3. Congruent(Power(32768), Power(1))
    BY Power32768 DEF Power
  <2>4. \A c : Xor(c, {}) = c
    BY DEF Xor
  <2>5. Congruent(Shifted(a, 1), {})
    BY <2>2, <2>3, <2>4 DEF Congruent
  <2>6. Congruent(a, {})
    BY <2>1, <2>5, ShiftCancels
  <2> QED
    BY <2>4, <2>6 DEF Congruent, Period
<1>2. ASSUME NEW d \in Period, NEW u \in Word, Congruent(Power(d), u) PROVE 0 \in u /\ 1 \notin u
  <2>1. Congruent(u, Power(0)) /\ Power(0) \in Word
    BY <1>2, CongruentEquiv DEF Period, Power, Word
  <2>2. u = Power(0)
    BY <2>1, RemainderUnique
  <2> QED
    BY <2>2 DEF Power
<1>3. 217 \notin Period
  <2>1. {0, 1, 5, 6, 7, 11, 14} \in Word
    BY DEF Word
  <2> QED
    BY <1>2, <2>1, Power217
<1>4. 1057 \notin Period
  <2>1. {0, 1, 2, 3, 5, 7, 9, 12, 13, 14, 15} \in Word
    BY DEF Word
  <2> QED
    BY <1>2, <2>1, Power1057
<1>5. 4681 \notin Period
  <2>1. {1, 6, 10, 11, 13} \in Word
    BY DEF Word
  <2> QED
    BY <1>2, <2>1, Power4681
<1> QED
  BY <1>1, <1>3, <1>4, <1>5

OrderOfX == 32767
Factor(n) == \E k \in Nat : n * k = OrderOfX

LEMMA SmallFactors ==
  ASSUME NEW m \in 1 .. 181, Factor(m)
  PROVE  m \in {1, 7, 31, 151}
<1>1. PICK j \in Nat : m * j = 32767
  BY DEF Factor, OrderOfX
<1> QED
  BY <1>1, SMT

LEMMA Factors ==
  ASSUME NEW n \in Nat, Factor(n)
  PROVE  n \in {1, 7, 31, 151, 217, 1057, 4681, 32767}
<1>1. PICK k \in Nat : n * k = 32767
  BY DEF Factor, OrderOfX
<1>2. n # 0 /\ k # 0 /\ k * n = 32767 /\ (n <= 181 \/ k <= 181)
  BY <1>1, SMT
<1>3. CASE n <= 181
  <2>1. n \in 1 .. 181
    BY <1>2, <1>3
  <2>2. n \in {1, 7, 31, 151}
    BY <2>1, SmallFactors
  <2> QED
    BY <2>2
<1>4. CASE k <= 181
  <2>1. k \in 1 .. 181
    BY <1>2, <1>4
  <2>2. Factor(k)
    BY <1>2 DEF Factor, OrderOfX
  <2>3. k \in {1, 7, 31, 151}
    BY <2>1, <2>2, SmallFactors
  <2>4. \A a \in Nat : /\ a * 1 = 32767 => a = 32767
                       /\ a * 7 = 32767 => a = 4681
                       /\ a * 31 = 32767 => a = 1057
                       /\ a * 151 = 32767 => a = 217
    OBVIOUS
  <2> QED
    BY <1>1, <2>3, <2>4
<1> QED
  BY <1>2, <1>3, <1>4

(* The divisor has order 32767: no smaller power of x is congruent to 1.   *)
LEMMA Order == ASSUME NEW d \in Period, d # 0 PROVE d >= 32767
<1> DEFINE T == Period \ {0}
<1>1. T \in SUBSET Nat /\ d \in T
  BY DEF Period
<1>2. PICK n \in T : \A k \in T : n <= k
  BY <1>1, Least
<1>3. n \in Nat /\ n > 0 /\ n \in Period
  BY <1>1, <1>2
<1> DEFINE k == 32767 \div n
           v == 32767 % n
<1>4. 32767 = n * k + v /\ v \in 0 .. n - 1
  BY <1>3, SMT
<1>10. k \in Nat
  BY <1>3, SMT
<1> HIDE DEF k, v
<1>5. n * k \in Period
  BY <1>3, <1>10, PeriodMultiples
<1>6. v \in Period
  <2>1. 32767 = n * k + v /\ v \in Nat
    BY <1>3, <1>4
  <2> QED
    BY <1>5, <2>1, PeriodClosed, PeriodInstances
<1>7. v = 0
  BY <1>1, <1>2, <1>3, <1>4, <1>6
<1>8. n \in {1, 7, 31, 151, 217, 1057, 4681, 32767}
  <2>1. PICK m \in Nat : m = n * k
    BY <1>3, <1>10
  <2>2. n * k = OrderOfX
    BY <1>4, <1>7, <2>1 DEF OrderOfX
  <2>3. Factor(n)
    BY <1>10, <2>2 DEF Factor
  <2> QED
    BY <1>3, <2>3, Factors
<1>9. n = 32767
  <2>1. n * 217 \in Period /\ n * 31 \in Period /\ n * 7 \in Period /\ n * 1 \in Period
    BY <1>3, PeriodMultiples
  <2>2. n \notin {1, 217}
    BY <2>1, PeriodInstances
  <2>3. n \notin {7, 151, 31}
    <3>1. 7 * 31 = 217 /\ 31 * 7 = 217 /\ 151 * 7 = 1057
      OBVIOUS
    <3> QED
      BY <2>1, <3>1, PeriodInstances
  <2>4. n \notin {1057, 4681}
    BY <2>1, PeriodInstances
  <2> QED
    BY <1>8, <2>2, <2>3, <2>4
<1> QED
  BY <1>1, <1>2, <1>9

(* A binomial that is congruent to zero spans at least the order.          *)
LEMMA TwoTerms ==
  ASSUME NEW i \in Nat, NEW j \in Nat, i < j, Congruent({i, j}, {})
  PROVE  j - i >= 32767
<1>1. PICK d \in Nat : d = j - i /\ d # 0
  OBVIOUS
<1>2. {i, j} = Shifted({0, d}, i)
  BY <1>1 DEF Shifted
<1>3. Congruent({0, d}, {})
  BY <1>2, ShiftsCancel
<1>4. Xor({0, d}, {}) = Xor(Power(d), Power(0))
  BY <1>1 DEF Xor, Power
<1>5. d \in Period
  BY <1>3, <1>4 DEF Congruent, Period
<1> QED
  BY <1>1, <1>5, Order
-----------------------------------------------------------------------------
LEMMA ShiftedCardinality ==
  ASSUME NEW p \in SUBSET Nat, IsFiniteSet(p), NEW k \in Nat
  PROVE  IsFiniteSet(Shifted(p, k)) /\ Cardinality(Shifted(p, k)) = Cardinality(p)
<1> DEFINE T == Shifted(p, k)
           f == [i \in p |-> i + k]
<1>1. \A i \in p : i \in Int
  OBVIOUS
<1>2. f \in [p -> T] /\ \A t \in T : \E i \in p : f[i] = t
  BY DEF Shifted
<1>3. ASSUME NEW i \in p, NEW j \in p, f[i] = f[j] PROVE i = j
  <2>1. i + k = j + k /\ i \in Int /\ j \in Int
    BY <1>1, <1>3
  <2> QED
    BY <2>1
<1>4. f \in Bijection(p, T)
  BY <1>2, <1>3 DEF Bijection, Injection, Surjection, IsInjective
<1> HIDE DEF f, T
<1>5. IsFiniteSet(T) /\ Cardinality(T) = Cardinality(p)
  BY <1>4, FS_Bijection DEF ExistsBijection
<1> QED
  BY <1>5 DEF T

LEMMA DisjointCardinality ==
  ASSUME NEW a, NEW b, IsFiniteSet(a), IsFiniteSet(b), a \cap b = {}
  PROVE  IsFiniteSet(Xor(a, b)) /\ Cardinality(Xor(a, b)) = Cardinality(a) + Cardinality(b)
<1>1. Xor(a, b) = a \cup b
  BY DEF Xor
<1>2. PICK m \in Nat, n \in Nat : m = Cardinality(a) /\ n = Cardinality(b)
  BY FS_CardinalityType
<1>3. IsFiniteSet(a \cup b) /\ Cardinality(a \cup b) = m + n - Cardinality(a \cap b)
  BY <1>2, FS_Union
<1>4. Cardinality(a \cap b) = 0
  BY FS_EmptySet
<1>5. m + n - 0 = m + n
  OBVIOUS
<1> QED
  BY <1>1, <1>2, <1>3, <1>4, <1>5

LEMMA PairInSet ==
  ASSUME NEW E \in SUBSET Nat, IsFiniteSet(E), Cardinality(E) = 2
  PROVE  \E i, j \in Nat : i < j /\ E = {i, j}
<1>1. E # {}
  BY FS_EmptySet
<1>2. PICK i \in E : TRUE
  BY <1>1
<1>3. IsFiniteSet(E \ {i}) /\ Cardinality(E \ {i}) = 1
  BY <1>2, FS_RemoveElement
<1>4. E \ {i} # {}
  BY <1>3, FS_EmptySet
<1>5. PICK j \in E \ {i} : TRUE
  BY <1>4
<1>6. IsFiniteSet((E \ {i}) \ {j}) /\ Cardinality((E \ {i}) \ {j}) = 0
  BY <1>3, <1>5, FS_RemoveElement
<1>7. (E \ {i}) \ {j} = {}
  BY <1>6, FS_EmptySet
<1>8. E = {i, j} /\ i \in Nat /\ j \in Nat /\ i # j
  BY <1>2, <1>5, <1>7
<1>9. i < j \/ j < i
  BY <1>8
<1>10. {i, j} = {j, i}
  OBVIOUS
<1> QED
  BY <1>8, <1>9, <1>10

(* The terms of an error: those of what the wire did to a byte are added.  *)
LEMMA FlipsCounted ==
  ASSUME NEW b \in Octet, NEW got \in Octet, flips \in Nat, Arrives(b, got)
  PROVE  /\ Xor(b, got) \in Octet /\ IsFiniteSet(Xor(b, got))
         /\ flips' = flips + Cardinality(Xor(b, got))
<1>1. Xor(b, got) \in Octet
  BY DEF Octet, Xor
<1>2. Xor(b, got) \in Word
  BY <1>1, WordIsPolynomial
<1>3. got = b => Xor(b, got) = {}
  BY DEF Xor
<1>4. got = b => Cardinality(Xor(b, got)) = 0
  BY <1>3, FS_EmptySet
<1> QED
  BY <1>1, <1>2, <1>4, WordFinite DEF Arrives

(* What is wrong with a frame so far is a polynomial with as many terms as *)
(* bits were flipped, and the receiver's arithmetic sees its remainder.    *)
ErrorIs(E) ==
  /\ E \in SUBSET (0 .. 8 * Len(body) + 15) /\ IsFiniteSet(E) /\ Cardinality(E) = flips
  /\ AtBody =>
       E \cap 0 .. 15 = {} /\ Congruent(E, Xor(sum, computed))
  /\ AtHigh =>
       E \cap 8 .. 15 = {} /\ Congruent(E, Xor(Xor(sum, computed), Xor(LowByte(sum), low)))
  /\ phase = "ACCEPTED" => Congruent(E, {})

ErrorKept == phase # "DISCARDED" /\ ~ lengthHit => \E E : ErrorIs(E)

LEMMA ErrorBody ==
  ASSUME CrcTypeOK, NEW E, ErrorIs(E), NEW b \in Octet, NEW got \in Octet, BodyMove(b, got)
  PROVE  ErrorIs(Xor(Shifted(E, 8), Shifted(Xor(b, got), 16)))'
<1> DEFINE e == Xor(b, got)
           F == Xor(Shifted(E, 8), Shifted(e, 16))
<1>1. /\ AtBody /\ ~ AtHigh' /\ phase' = "RECEIVING"
      /\ body' = Append(body, b) /\ Arrives(b, got)
      /\ sum' = ByteStep(sum, b) /\ computed' = ByteStep(computed, got)
  BY DEF BodyMove, AtBody, AtHigh, BodyField
<1>2. /\ b \in Octet /\ sum \in Word /\ computed \in Word /\ flips \in Nat
      /\ body \in Seq(Octet) /\ Len(body) \in Nat
  BY DEF CrcTypeOK
<1>3. /\ E \in SUBSET (0 .. 8 * Len(body) + 15) /\ IsFiniteSet(E) /\ Cardinality(E) = flips
      /\ E \cap 0 .. 15 = {} /\ Congruent(E, Xor(sum, computed))
  BY <1>1 DEF ErrorIs
<1>4. e \in Octet /\ IsFiniteSet(e) /\ flips' = flips + Cardinality(e)
  BY <1>1, <1>2, FlipsCounted
<1>5. Len(body') = Len(body) + 1
  BY <1>1, <1>2
<1>6. E \in SUBSET Nat /\ e \in SUBSET Nat
  BY <1>2, <1>3, <1>4 DEF Octet
<1> HIDE DEF e
<1>7. /\ Shifted(E, 8) \subseteq 24 .. 8 * (Len(body) + 1) + 15
      /\ Shifted(e, 16) \subseteq 16 .. 23
  <2>1. ASSUME NEW i \in E PROVE i + 8 \in 24 .. 8 * (Len(body) + 1) + 15
    BY <1>2, <1>3
  <2>2. ASSUME NEW i \in e PROVE i + 16 \in 16 .. 23
    BY <1>4 DEF Octet
  <2> QED
    BY <2>1, <2>2 DEF Shifted
<1>8. /\ F \in SUBSET (0 .. 8 * Len(body') + 15) /\ F \cap 0 .. 15 = {}
      /\ Shifted(E, 8) \cap Shifted(e, 16) = {}
  <2>1. PICK n \in Nat : n = 8 * (Len(body) + 1) + 15 /\ n >= 23
    BY <1>2
  <2>2. /\ 24 .. n \subseteq 0 .. n /\ 16 .. 23 \subseteq 0 .. n
        /\ \A i \in 16 .. 23 : i \notin 24 .. n /\ i \notin 0 .. 15
        /\ \A i \in 24 .. n : i \notin 0 .. 15
    BY <2>1
  <2> QED
    BY <1>5, <1>7, <2>1, <2>2 DEF Xor
<1>9. IsFiniteSet(F) /\ Cardinality(F) = flips'
  <2>1. /\ IsFiniteSet(Shifted(E, 8)) /\ Cardinality(Shifted(E, 8)) = flips
        /\ IsFiniteSet(Shifted(e, 16)) /\ Cardinality(Shifted(e, 16)) = Cardinality(e)
    BY <1>3, <1>4, <1>6, ShiftedCardinality
  <2> QED
    BY <1>4, <1>8, <2>1, DisjointCardinality
<1>10. Congruent(F, Xor(sum', computed'))
  <2>1. sum \in SUBSET Nat /\ computed \in SUBSET Nat /\ b \in SUBSET Nat /\ got \in SUBSET Nat
    BY <1>2 DEF Word, Octet
  <2>2. Xor(sum, computed) \in SUBSET Nat
    BY <2>1 DEF Xor
  <2>3. Congruent(Shifted(E, 8), Xor(Shifted(sum, 8), Shifted(computed, 8)))
    BY <1>3, <1>6, <2>1, <2>2, CongruentShifted, XorShifted
  <2>4. Congruent(F, Xor(Xor(Shifted(sum, 8), Shifted(computed, 8)), Shifted(e, 16)))
    BY <2>3, CongruentXor, CongruentEquiv
  <2>5. Shifted(e, 16) = Xor(Shifted(b, 16), Shifted(got, 16))
    BY <2>1, XorShifted DEF e
  <2>6. Xor(Xor(Shifted(sum, 8), Shifted(computed, 8)), Xor(Shifted(b, 16), Shifted(got, 16)))
          = Xor(Xor(Shifted(sum, 8), Shifted(b, 16)), Xor(Shifted(computed, 8), Shifted(got, 16)))
    BY DEF Xor
  <2>7. /\ Congruent(Xor(Shifted(sum, 8), Shifted(b, 16)), sum')
        /\ Congruent(Xor(Shifted(computed, 8), Shifted(got, 16)), computed')
    BY <1>1, <1>2, ByteStepShifts, CongruentEquiv
  <2>8. Congruent(Xor(Xor(Shifted(sum, 8), Shifted(b, 16)), Xor(Shifted(computed, 8), Shifted(got, 16))),
                  Xor(sum', computed'))
    BY <2>7, CongruentXor
  <2> HIDE DEF F
  <2> QED
    BY <2>4, <2>5, <2>6, <2>8, CongruentEquiv
<1> HIDE DEF F
<1>11. ErrorIs(F)'
  BY <1>1, <1>8, <1>9, <1>10 DEF ErrorIs
<1> QED
  BY <1>11 DEF F, e

LEMMA ErrorLow ==
  ASSUME CrcTypeOK, NEW E, ErrorIs(E), NEW got \in Octet, LowMove(got)
  PROVE  \E F : ErrorIs(F)'
<1> DEFINE e == Xor(LowByte(sum), got)
<1>0. PICK F : F = Xor(E, e)
  OBVIOUS
<1>1. /\ AtBody /\ ~ AtBody' /\ phase' = "RECEIVING"
      /\ Arrives(LowByte(sum), got) /\ low' = got
      /\ UNCHANGED <<body, sum, computed>>
  BY DEF LowMove, AtBody, BodyField
<1>2. sum \in Word /\ flips \in Nat /\ LowByte(sum) \in Octet /\ Len(body) \in Nat
  BY SplitAndJoin DEF CrcTypeOK
<1>3. /\ E \in SUBSET (0 .. 8 * Len(body) + 15) /\ IsFiniteSet(E) /\ Cardinality(E) = flips
      /\ E \cap 0 .. 15 = {} /\ Congruent(E, Xor(sum, computed))
  BY <1>1 DEF ErrorIs
<1>4. e \in Octet /\ IsFiniteSet(e) /\ flips' = flips + Cardinality(e)
  BY <1>1, <1>2, FlipsCounted
<1> HIDE DEF e
<1>5. /\ F \in SUBSET (0 .. 8 * Len(body) + 15) /\ F \cap 8 .. 15 = {} /\ E \cap e = {}
  <2>1. /\ 0 .. 7 \subseteq 0 .. 15 /\ (0 .. 7) \cap (8 .. 15) = {} /\ 8 .. 15 \subseteq 0 .. 15
        /\ 0 .. 7 \subseteq 0 .. 8 * Len(body) + 15
    BY <1>2
  <2>2. e \subseteq 0 .. 7
    BY <1>4 DEF Octet
  <2> QED
    BY <1>0, <1>3, <2>1, <2>2 DEF Xor
<1>6. IsFiniteSet(F) /\ Cardinality(F) = flips'
  BY <1>0, <1>3, <1>4, <1>5, DisjointCardinality
<1>7. Congruent(F, Xor(Xor(sum, computed), e))
  BY <1>0, <1>3, CongruentXor, CongruentEquiv
<1>8. LowByte(sum') = LowByte(sum) /\ e = Xor(LowByte(sum'), low')
  BY <1>1 DEF e
<1>9. ErrorIs(F)'
  BY <1>1, <1>5, <1>6, <1>7, <1>8 DEF ErrorIs
<1> QED
  BY <1>9

LEMMA ErrorHigh ==
  ASSUME CrcTypeOK, NEW E, ErrorIs(E), NEW got \in Octet, HighMove(got), phase' = "ACCEPTED"
  PROVE  \E F : ErrorIs(F)'
<1> DEFINE e == Xor(HighByte(sum), got)
<1>0. PICK F : F = Xor(E, Shifted(e, 8))
  OBVIOUS
<1>1. /\ AtHigh /\ ~ AtHigh' /\ ~ AtBody'
      /\ Arrives(HighByte(sum), got) /\ computed = JoinBytes(low, got)
      /\ UNCHANGED <<body, sum, computed, low>>
  BY DEF HighMove, AtBody, AtHigh, BodyField
<1>2. /\ sum \in Word /\ low \in Octet /\ flips \in Nat /\ Len(body) \in Nat
      /\ LowByte(sum) \in Octet /\ HighByte(sum) \in Octet
      /\ sum = JoinBytes(LowByte(sum), HighByte(sum))
  BY SplitAndJoin DEF CrcTypeOK
<1>3. /\ E \in SUBSET (0 .. 8 * Len(body) + 15) /\ IsFiniteSet(E) /\ Cardinality(E) = flips
      /\ E \cap 8 .. 15 = {} /\ Congruent(E, Xor(Xor(sum, computed), Xor(LowByte(sum), low)))
  BY <1>1 DEF ErrorIs
<1>4. e \in Octet /\ IsFiniteSet(e) /\ flips' = flips + Cardinality(e)
  BY <1>1, <1>2, FlipsCounted
<1>5. \A l, h \in Octet : JoinBytes(l, h) = Xor(l, Shifted(h, 8))
  <2>1. ASSUME NEW l \in Octet, NEW h \in Octet, NEW j \in Shifted(h, 8) PROVE j \notin l
    BY DEF Octet, Shifted
  <2>2. \A l, h \in Octet : JoinBytes(l, h) = l \cup Shifted(h, 8)
    BY DEF JoinBytes, Shifted
  <2> QED
    BY <2>1, <2>2 DEF Xor
<1>6. Shifted(e, 8) = Xor(Shifted(HighByte(sum), 8), Shifted(got, 8))
  <2>1. HighByte(sum) \in SUBSET Nat /\ got \in SUBSET Nat
    BY <1>2 DEF Octet
  <2> QED
    BY <2>1, XorShifted
<1>7. Xor(Xor(Xor(sum, computed), Xor(LowByte(sum), low)), Shifted(e, 8)) = {}
  <2>1. /\ sum = Xor(LowByte(sum), Shifted(HighByte(sum), 8))
        /\ computed = Xor(low, Shifted(got, 8))
    BY <1>1, <1>2, <1>5
  <2>2. \A p, q, v, s : Xor(Xor(Xor(Xor(p, q), Xor(v, s)), Xor(p, v)), Xor(q, s)) = {}
    BY DEF Xor
  <2> HIDE DEF e
  <2> QED
    BY <1>6, <2>1, <2>2
<1> HIDE DEF e
<1>8. /\ F \in SUBSET (0 .. 8 * Len(body) + 15) /\ E \cap Shifted(e, 8) = {}
  <2>1. 8 .. 15 \subseteq 0 .. 8 * Len(body) + 15
    BY <1>2
  <2>2. Shifted(e, 8) \subseteq 8 .. 15
    BY <1>4 DEF Octet, Shifted
  <2> QED
    BY <1>0, <1>3, <2>1, <2>2 DEF Xor
<1>9. IsFiniteSet(F) /\ Cardinality(F) = flips'
  <2>1. e \in SUBSET Nat
    BY <1>4 DEF Octet
  <2>2. IsFiniteSet(Shifted(e, 8)) /\ Cardinality(Shifted(e, 8)) = Cardinality(e)
    BY <1>4, <2>1, ShiftedCardinality
  <2> QED
    BY <1>0, <1>3, <1>4, <1>8, <2>2, DisjointCardinality
<1>10. Congruent(F, {})
  <2>1. Congruent(F, Xor(Xor(Xor(sum, computed), Xor(LowByte(sum), low)), Shifted(e, 8)))
    BY <1>0, <1>3, CongruentXor, CongruentEquiv
  <2> QED
    BY <1>7, <2>1
<1>11. ErrorIs(F)'
  BY <1>1, <1>8, <1>9, <1>10 DEF ErrorIs
<1> QED
  BY <1>11

LEMMA ErrorStep == CrcTypeOK /\ Together /\ ErrorKept /\ [CrcNext]_crcVars => ErrorKept'
<1> SUFFICES ASSUME CrcTypeOK, Together, ErrorKept, [CrcNext]_crcVars,
                    phase' # "DISCARDED", ~ lengthHit'
             PROVE  \E E : ErrorIs(E)'
  BY DEF ErrorKept
<1>1. ASSUME NEW b \in Offered, NEW got \in Octet, Transfer(b, got) PROVE \E F : ErrorIs(F)'
  <2>1. b \in Octet /\ ~ lengthHit /\ (BodyMove(b, got) \/ LowMove(got) \/ HighMove(got))
    BY <1>1, Moves
  <2>2. PICK E : ErrorIs(E)
    BY <1>1, <2>1 DEF ErrorKept, Transfer
  <2>3. HighMove(got) => phase' = "ACCEPTED"
    BY DEF HighMove
  <2> QED
    BY <2>1, <2>2, <2>3, ErrorBody, ErrorLow, ErrorHigh
<1>2. CASE UNCHANGED crcVars
  <2>1. PICK E : ErrorIs(E)
    BY <1>2 DEF ErrorKept, crcVars
  <2> QED
    BY <1>2, <2>1 DEF crcVars, ErrorIs, LowByte, AtBody, AtHigh
<1> QED
  BY <1>1, <1>2 DEF CrcNext

(* How long the part of a frame is that the checksum covers: LENGTH says,  *)
(* and the host sends none above the limit.                                *)
SenderPlace ==
  /\ Len(body) <= MaxLength + 2
  /\ sender.field = "OPCODE" => Len(body) = 0
  /\ sender.field = "LENGTH" => Len(body) = 1
  /\ sender.field = "PAYLOAD" => sender.left > 0 /\ Len(body) + sender.left <= MaxLength + 2

LEMMA SenderStep == CrcTypeOK /\ SenderPlace /\ [CrcNext]_crcVars => SenderPlace'
<1> SUFFICES ASSUME CrcTypeOK, SenderPlace, [CrcNext]_crcVars PROVE SenderPlace'
  OBVIOUS
<1>1. ASSUME NEW b \in Offered, NEW got \in Octet, Transfer(b, got) PROVE SenderPlace'
  <2>1. /\ sender' = After(sender, b) /\ sender \in FramePlace /\ sender' \in FramePlace
        /\ body \in Seq(Octet) /\ b \in Octet /\ MaxLength \in Nat
    BY <1>1, OfferedIsOctet, AfterIsPlace, CrcLinkAssumption DEF Transfer, Sends, CrcTypeOK
  <2>2. Number(b) \in Nat /\ Len(body) \in Nat
    BY <2>1, NumberIsNat
  <2>3. sender.field \in BodyField => Len(body') = Len(body) + 1
    <3>1. sender.field \in BodyField => body' = Append(body, b)
      BY <1>1 DEF Transfer, Sends
    <3>2. body \in Seq(Octet) /\ b \in Octet
      BY <2>1
    <3>3. Len(Append(body, b)) = Len(body) + 1
      BY <3>2
    <3> QED
      BY <3>1, <3>3
  <2>8. MaxLength \in Nat /\ (sender.field \in BodyField => Len(body') = Len(body) + 1)
    BY <2>1, <2>3
  <2>4. CASE sender.field = "OPCODE"
    <3>1. sender'.field = "LENGTH"
      BY <2>1, <2>4 DEF After, AtField
    <3>2. Len(body') = 1
      BY <2>4, <2>8 DEF BodyField, SenderPlace
    <3> QED
      BY <2>8, <3>1, <3>2 DEF SenderPlace
  <2>5. CASE sender.field = "LENGTH"
    <3>1. Number(b) <= MaxLength
      BY <2>5 DEF Offered
    <3>4. Len(body') = 2
      <4>1. Len(body) = 1
        BY <2>5 DEF SenderPlace
      <4>2. sender.field \in BodyField
        BY <2>5 DEF BodyField
      <4> QED
        BY <2>8, <4>1, <4>2
    <3>2. CASE Number(b) > 0
      <4>1. sender' = [field |-> "PAYLOAD", left |-> Number(b)]
        BY <2>1, <2>2, <2>5, <3>2 DEF After
      <4> QED
        BY <2>2, <2>8, <3>1, <3>2, <3>4, <4>1 DEF SenderPlace
    <3>3. CASE Number(b) = 0
      <4>1. sender'.field = "CRC_LOW"
        BY <2>1, <2>2, <2>5, <3>3 DEF After, AtField
      <4> QED
        BY <2>8, <3>4, <4>1 DEF SenderPlace
    <3> QED
      BY <2>2, <3>2, <3>3
  <2>6. CASE sender.field = "PAYLOAD"
    <3>1. sender.left \in Nat
      BY <2>1 DEF FramePlace
    <3>2. CASE sender.left > 1
      <4>1. sender'.field = "PAYLOAD" /\ sender'.left = sender.left - 1
        BY <2>1, <2>6, <3>2 DEF After, FramePlace
      <4> QED
        BY <2>1, <2>3, <2>6, <3>1, <3>2, <4>1 DEF BodyField, SenderPlace
    <3>3. CASE sender.left <= 1
      <4>1. sender'.field = "CRC_LOW"
        BY <2>1, <2>6, <3>3 DEF After, AtField
      <4> QED
        BY <2>1, <2>3, <2>6, <3>1, <4>1 DEF BodyField, SenderPlace
    <3> QED
      BY <3>1, <3>2, <3>3
  <2>7. CASE sender.field \notin BodyField
    <3>1. body' = body
      BY <1>1, <2>7 DEF Transfer, Sends
    <3>2. sender'.field \in {"CRC_HIGH", "END"}
      BY <2>1, <2>7 DEF After, AtField, BodyField
    <3> QED
      BY <3>1, <3>2 DEF SenderPlace
  <2> QED
    BY <2>4, <2>5, <2>6, <2>7 DEF BodyField
<1>2. CASE UNCHANGED crcVars
  BY <1>2 DEF crcVars, SenderPlace
<1> QED
  BY <1>1, <1>2 DEF CrcNext

LEMMA SenderAlwaysPlaced == CrcSpec => []SenderPlace
<1>1. CrcInit => SenderPlace
  BY CrcLinkAssumption DEF CrcInit, SenderPlace, AtField
<1> QED
  BY <1>1, SenderStep, CrcTypeCorrect, PTL DEF CrcSpec

(* Up to three flipped bits are never accepted, wherever they are outside  *)
(* LENGTH, in any frame of no more bits than the order of the divisor: two *)
(* flips further apart may cancel.  (A frame of this firmware is far       *)
(* shorter.)                                                               *)
THEOREM ThreeFlipsAlwaysCaught ==
  ASSUME 8 * (MaxLength + 4) <= OrderOfX
  PROVE  CrcSpec => []ThreeFlipsCaught
<1>1. CrcInit => ErrorKept
  <2> SUFFICES ASSUME CrcInit PROVE ErrorIs({})
    BY DEF ErrorKept
  <2>1. IsFiniteSet({}) /\ Cardinality({}) = 0
    BY FS_EmptySet
  <2>2. Xor(InitialCrc, InitialCrc) = {}
    BY DEF Xor
  <2> QED
    BY <2>1, <2>2, CongruentEquiv DEF CrcInit, ErrorIs, AtField, AtHigh
<1>2. CrcTypeOK /\ SenderPlace /\ ErrorKept /\ OddFlipsCaught => ThreeFlipsCaught
  <2> SUFFICES ASSUME CrcTypeOK, SenderPlace, ErrorKept, OddFlipsCaught,
                      phase = "ACCEPTED", flips \in 1 .. 3, ~ lengthHit
               PROVE  FALSE
    BY DEF ThreeFlipsCaught
  <2>1. flips = 2
    <3>1. flips % 2 = 0
      BY DEF OddFlipsCaught
    <3> QED
      BY <3>1
  <2>2. PICK E : ErrorIs(E)
    BY DEF ErrorKept
  <2>3. /\ E \in SUBSET (0 .. 8 * Len(body) + 15) /\ IsFiniteSet(E) /\ Cardinality(E) = 2
        /\ Congruent(E, {})
    BY <2>1, <2>2 DEF ErrorIs
  <2>4. Len(body) \in Nat /\ Len(body) <= MaxLength + 2 /\ MaxLength \in Nat
    BY CrcLinkAssumption DEF CrcTypeOK, SenderPlace
  <2>5. E \in SUBSET Nat
    BY <2>3, <2>4
  <2>6. PICK i \in Nat, j \in Nat : i < j /\ E = {i, j}
    BY <2>3, <2>5, PairInSet
  <2>7. j - i >= 32767
    BY <2>3, <2>6, TwoTerms
  <2>8. j <= 8 * Len(body) + 15
    BY <2>3, <2>4, <2>6
  <2> QED
    BY <2>4, <2>6, <2>7, <2>8 DEF OrderOfX
<1>3. CrcSpec => []ErrorKept
  BY <1>1, ErrorStep, CrcTypeCorrect, AlwaysTogether, PTL DEF CrcSpec
<1> QED
  BY <1>2, <1>3, CrcTypeCorrect, SenderAlwaysPlaced, OddFlipsAlwaysCaught, PTL
=============================================================================
