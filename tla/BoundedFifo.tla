----------------------------- MODULE BoundedFifo -----------------------------
(***************************************************************************)
(* What a ring buffer promises its two users: a queue of at most Room      *)
(* elements that keeps them whole and in order.  A put that finds no room  *)
(* says so or, if the queue evicts, drops the oldest element first.        *)
(***************************************************************************)
EXTENDS Naturals, Sequences

CONSTANTS Element, Room, Evicts

VARIABLES queue,   \* the elements put and not yet got, oldest first
          res      \* how the last operation ended

fifoVars == <<queue, res>>

Init == queue = <<>> /\ res = <<"NONE">>

Put(e) ==
  /\ Len(queue) < Room
  /\ queue' = Append(queue, e)
  /\ res' = <<"PUT">>

Refuse == Len(queue) = Room /\ res' = <<"FULL">> /\ UNCHANGED queue

Evict == Evicts /\ Len(queue) = Room /\ queue' = Tail(queue) /\ UNCHANGED res

Get ==
  /\ queue # <<>>
  /\ res' = <<"GOT", Head(queue)>>
  /\ queue' = Tail(queue)

Starve == queue = <<>> /\ res' = <<"EMPTY">> /\ UNCHANGED queue

Clear == queue' = <<>> /\ res' = <<"NONE">>

Next == (\E e \in Element : Put(e)) \/ Refuse \/ Evict \/ Get \/ Starve \/ Clear

Spec == Init /\ [][Next]_fifoVars
=============================================================================
