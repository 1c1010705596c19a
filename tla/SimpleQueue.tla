---------------------------- MODULE SimpleQueue ----------------------------
(***************************************************************************)
(* Bounded_Simple_Queue, the kernel's message queue, access by access.     *)
(*                                                                         *)
(* The main loop pops and pushes; the CAN interrupt pushes, and runs from  *)
(* its beginning to its end between any two accesses of the main loop.     *)
(* A step is one access to a variable that both of them write.  What only  *)
(* the main loop writes (_front, and _rthreads, which the interrupt never  *)
(* reads) belongs to the step before.  The compiler is taken to do every   *)
(* access in the order of the source, wrapping _back in its register.      *)
(***************************************************************************)
EXTENDS Integers, FiniteSets

CONSTANTS Size,         \* __size: the elements of the queue
          MaxMessages   \* bound: messages in a behaviour, numbered from 1

VARIABLES
  elements,   \* _elements, and the cell behind the array
  front,      \* _front
  back,       \* _back
  fill,       \* _fill
  wthreads,   \* _wthreads
  pc,         \* what the main loop does next
  reg,        \* main loop: the register of ++_back, _fill++ and _fill--
  change,     \* main loop: what it adds to _fill
  hand,       \* main loop: the message it pushes or has popped
  next,       \* the next message
  accepted,   \* the messages push() has not refused
  taken       \* the messages pop() has delivered

mainVars == <<pc, reg, change, hand>>
vars == <<elements, front, back, fill, wthreads, mainVars, next, accepted, taken>>

NoMessage == 0

Init ==
  /\ elements = [i \in 0..Size |-> NoMessage]
  /\ front = 0 /\ back = 0 /\ fill = 0 /\ wthreads = 0
  /\ pc = "idle" /\ reg = 0 /\ change = 0 /\ hand = NoMessage
  /\ next = 1 /\ accepted = {} /\ taken = {}

Full == fill + wthreads = Size
Wrapped(i) == IF i = Size THEN 0 ELSE i

(* a message is there for push(), which takes it unless the queue is full *)
NewMessage ==
  /\ next <= MaxMessages /\ next' = next + 1
  /\ accepted' = IF Full THEN accepted ELSE accepted \union {next}

(* push() in the interrupt, behind what the interrupted push has claimed *)
IrqPush ==
  /\ NewMessage
  /\ IF Full THEN UNCHANGED <<elements, back, fill>>
     ELSE /\ elements' = [elements EXCEPT ![back + wthreads] = next]
          /\ back' = Wrapped(back + 1)
          /\ fill' = fill + 1
  /\ UNCHANGED <<front, wthreads, mainVars, taken>>

(* push() in the main loop *)
Push ==
  /\ pc = "idle" /\ NewMessage
  /\ IF Full THEN UNCHANGED <<pc, hand>> ELSE pc' = "claim" /\ hand' = next
  /\ UNCHANGED <<elements, front, back, fill, wthreads, reg, change, taken>>
Claim ==
  /\ pc = "claim" /\ pc' = "write"
  /\ wthreads' = wthreads + 1
  /\ UNCHANGED <<elements, front, back, fill, reg, change, hand, next, accepted, taken>>
Write ==
  /\ pc = "write" /\ pc' = "release"
  /\ elements' = [elements EXCEPT ![back + wthreads - 1] = hand]
  /\ UNCHANGED <<front, back, fill, wthreads, reg, change, hand, next, accepted, taken>>
Release ==
  /\ pc = "release" /\ pc' = "loadBack"
  /\ wthreads' = wthreads - 1
  /\ UNCHANGED <<elements, front, back, fill, reg, change, hand, next, accepted, taken>>
LoadBack ==
  /\ pc = "loadBack" /\ pc' = "storeBack"
  /\ reg' = back
  /\ UNCHANGED <<elements, front, back, fill, wthreads, change, hand, next, accepted, taken>>
StoreBack ==
  /\ pc = "storeBack" /\ pc' = "loadFill"
  /\ back' = Wrapped(reg + 1) /\ change' = 1
  /\ UNCHANGED <<elements, front, fill, wthreads, reg, hand, next, accepted, taken>>

(* pop(), in the main loop alone *)
Pop ==
  /\ pc = "idle" /\ fill # 0 /\ pc' = "loadFill"
  /\ hand' = elements[front] /\ front' = Wrapped(front + 1) /\ change' = -1
  /\ taken' = taken \union {elements[front]}
  /\ UNCHANGED <<elements, back, fill, wthreads, reg, next, accepted>>

(* _fill++ and _fill-- *)
LoadFill ==
  /\ pc = "loadFill" /\ pc' = "storeFill"
  /\ reg' = fill
  /\ UNCHANGED <<elements, front, back, fill, wthreads, change, hand, next, accepted, taken>>
StoreFill ==
  /\ pc = "storeFill" /\ pc' = "idle"
  /\ fill' = reg + change
  /\ UNCHANGED <<elements, front, back, wthreads, reg, change, hand, next, accepted, taken>>

Next == \/ IrqPush \/ Push \/ Claim \/ Write \/ Release \/ LoadBack \/ StoreBack
        \/ Pop \/ LoadFill \/ StoreFill
Spec == Init /\ [][Next]_vars

(* "Pays attention for interruptions by others by itself" (Bounded_Simple_Queue.h:75): between
   two calls of the main loop the queue holds exactly the messages that push() took and pop()
   has not delivered. *)
PaysAttention ==
  pc = "idle" => /\ fill = Cardinality(accepted \ taken)
                 /\ {elements[(front + i) % Size] : i \in 0..(fill - 1)} = accepted \ taken
=============================================================================
