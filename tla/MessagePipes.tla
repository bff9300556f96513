---------------------------- MODULE MessagePipes ----------------------------
(***************************************************************************)
(* What the DataChannel router promises, seen from outside: every          *)
(* connection is a pipe of its own.  Messages leave a pipe in the order    *)
(* they were put in, once each and through that pipe only; a message may   *)
(* be lost on the way out, and then it is known to be; a pipe is opened    *)
(* once, and what a closed pipe still held is gone.                        *)
(***************************************************************************)
EXTENDS Naturals, Sequences

CONSTANT Conns

VARIABLES
  stage,    \* of each pipe: new, open or closed
  count,    \* how many messages were put into it
  waiting,  \* the messages in it
  passed,   \* the messages that came out of it
  dropped   \* the messages lost on the way out

vars == <<stage, count, waiting, passed, dropped>>

Message == Conns \X (Nat \ {0})

Init ==
  /\ stage = [c \in Conns |-> "new"]
  /\ count = [c \in Conns |-> 0]
  /\ waiting = [c \in Conns |-> <<>>]
  /\ passed = [c \in Conns |-> <<>>]
  /\ dropped = [c \in Conns |-> <<>>]

Open(c) ==
  /\ stage[c] = "new"
  /\ stage' = [stage EXCEPT ![c] = "open"]
  /\ UNCHANGED <<count, waiting, passed, dropped>>

Put(c) ==
  /\ stage[c] = "open"
  /\ count' = [count EXCEPT ![c] = @ + 1]
  /\ waiting' = [waiting EXCEPT ![c] = Append(@, <<c, count[c] + 1>>)]
  /\ UNCHANGED <<stage, passed, dropped>>

\* The first message leaves the pipe.
Remove(c) ==
  /\ waiting[c] # <<>>
  /\ waiting' = [waiting EXCEPT ![c] = Tail(@)]
  /\ UNCHANGED <<stage, count>>

Take(c) ==
  /\ Remove(c)
  /\ passed' = [passed EXCEPT ![c] = Append(@, Head(waiting[c]))]
  /\ UNCHANGED dropped

Drop(c) ==
  /\ Remove(c)
  /\ dropped' = [dropped EXCEPT ![c] = Append(@, Head(waiting[c]))]
  /\ UNCHANGED passed

Close(C) ==
  /\ \A c \in C : stage[c] = "open"
  /\ stage' = [c \in Conns |-> IF c \in C THEN "closed" ELSE stage[c]]
  /\ waiting' = [c \in Conns |-> IF c \in C THEN <<>> ELSE waiting[c]]
  /\ UNCHANGED <<count, passed, dropped>>

Next ==
  \/ \E c \in Conns : Open(c) \/ Put(c) \/ Take(c) \/ Drop(c)
  \/ \E C \in SUBSET Conns : Close(C)

Spec == Init /\ [][Next]_vars

=============================================================================
