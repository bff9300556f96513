---------------------------- MODULE WebrtcRouter ----------------------------
(***************************************************************************)
(* The DataChannel router of the webrtc task (webrtc_task.cpp): the table  *)
(* that pairs SCTP streams with ITS connections, the callbacks that fill   *)
(* and empty it, the scheduler that moves messages from the connections to *)
(* the streams, and every place where the session is torn down around it.  *)
(*                                                                         *)
(* The tasks the channels lead to run beside the webrtc task: they send    *)
(* and close at any time, also inside a pass of the scheduler.  Everything *)
(* else happens on the webrtc task, between passes.  What sctpSend answers *)
(* is left open: it takes the message, refuses it, or keeps a copy in the  *)
(* retransmission pool and fails (SctpOutbound says when).  A message is   *)
(* the connection it was sent on and its number there.                     *)
(***************************************************************************)
EXTENDS Integers, Sequences, FiniteSets, FiniteSetsExt

CONSTANTS
  Streams,      \* SCTP stream ids; one is opened at most once per association
  Levels,       \* priorities a channel may get, from its DCEP OPEN or a pin
  MaxChannels,  \* DC_MAX_CHANNELS
  PassLimit,    \* messages per pass of the scheduler (8)
  MaxConns,     \* bound: ITS connections ever made
  MaxMessages,  \* bound: messages the targets send, all together
  MaxKept,      \* bound: sends that fail after the pool has taken the message
  AllocOutcomes \* what the allocator may answer

ASSUME RouterAssumption ==
  /\ Levels \subseteq Nat /\ Levels # {}
  /\ MaxChannels \in Nat \ {0} /\ PassLimit \in Nat \ {0}
  /\ MaxConns \in Nat \ {0} /\ MaxMessages \in Nat /\ MaxKept \in Nat
  /\ AllocOutcomes \subseteq BOOLEAN /\ AllocOutcomes # {}

VARIABLES
  active,       \* dtlsSessionActive
  connected,    \* dtlsConnected
  established,  \* sctp.established
  chan,         \* sctp.channels by stream, with the connection it was opened for
  dcMap,        \* dcMap
  its,          \* the ITS handles of this task
  sized,        \* routerRecvBuf # nullptr
  cursor,       \* lastServedSlot
  iter,         \* iterations of the current pass, 0 between passes
  opened,       \* history: the priority of every connection made, in order
  sent,         \* history: messages sent by the target of each connection
  out,          \* history: what sctpSend took, or kept before it failed
  passed,       \* history: what successful sends took, by their channel's connection
  dropped,      \* history: what a failed allocation lost, likewise
  strayed       \* history: inbound messages that reached another channel's connection

session == <<active, connected, established>>
sched == <<sized, cursor, iter>>
history == <<opened, sent, out, passed, dropped, strayed>>
vars == <<session, chan, dcMap, its, sched, history>>

Slots == 0..(MaxChannels - 1)
Handles == 1..MaxChannels
Conns == 1..MaxConns
NoConn == 0
NoHandle == -1
NoStream == -1

EmptySlot == [handle |-> NoHandle, sid |-> NoStream, priority |-> 0, stash |-> <<>>]
FreeHandle == [state |-> "free", conn |-> NoConn, ref |-> 0, queue |-> <<>>]
NewChannels == [s \in Streams |-> [state |-> "new", conn |-> NoConn]]

Init ==
  /\ active = FALSE /\ connected = FALSE /\ established = FALSE
  /\ chan = NewChannels
  /\ dcMap = [i \in Slots |-> EmptySlot]
  /\ its = [h \in Handles |-> FreeHandle]
  /\ sized = FALSE /\ cursor = -1 /\ iter = 0
  /\ opened = <<>> /\ sent = [c \in Conns |-> 0] /\ strayed = {}
  /\ out = <<>> /\ passed = [c \in Conns |-> <<>>] /\ dropped = [c \in Conns |-> <<>>]

-----------------------------------------------------------------------------
(* The table. *)

Mapped == {i \in Slots : dcMap[i].handle # NoHandle}
FreeSlots == Slots \ Mapped
SlotsOn(s) == {i \in Mapped : dcMap[i].sid = s}
\* The scans of the table stop at the first slot they look for.
First(i, S) == i \in S /\ \A j \in S : i <= j

\* Mutant of Cleared: the stash of the slot survives.
ClearedKeepingStash(i) == [dcMap EXCEPT ![i] = [EmptySlot EXCEPT !.stash = dcMap[i].stash]]
\* dcMapClear
Cleared(i) == [dcMap EXCEPT ![i] = EmptySlot]

\* itsDisconnect: whatever the target had sent and the task not read is gone.
Freed(H) == [h \in Handles |-> IF h \in H THEN FreeHandle ELSE its[h]]

\* dcMapClearAll
ClearAll ==
  /\ its' = Freed({dcMap[i].handle : i \in Mapped})
  /\ dcMap' = [i \in Slots |-> EmptySlot]

\* sctpInit
ResetAssociation == established' = FALSE /\ chan' = NewChannels

Idle == iter = 0
Linked == established /\ connected

-----------------------------------------------------------------------------
(* Callbacks of the SCTP association. *)

OpenChannels == {s \in Streams : chan[s].state = "open"}
Opening(s) ==
  /\ Idle /\ Linked
  /\ chan[s].state = "new" /\ Cardinality(OpenChannels) < MaxChannels

\* webrtcDcOpen: the lowest free slot and a new connection to the named target,
\* with the priority the browser asked for or the one the target's name pins;
\* the first channel allocates the buffer, and later ones try again if it failed.
DcOpen(s, h, p, allocOk) ==
  /\ Opening(s) /\ Len(opened) < MaxConns
  /\ its[h].state = "free"
  /\ \E i \in Slots :
       LET c == Len(opened) + 1
       IN /\ First(i, FreeSlots)
          /\ chan' = [chan EXCEPT ![s] = [state |-> "open", conn |-> c]]
          /\ dcMap' = [dcMap EXCEPT ![i].handle = h, ![i].sid = s, ![i].priority = p]
          /\ its' = [its EXCEPT ![h] =
                       [state |-> "open", conn |-> c, ref |-> i, queue |-> <<>>]]
  /\ sized' = (sized \/ allocOk)
  /\ opened' = Append(opened, p)
  /\ UNCHANGED <<session, cursor, iter, sent, out, passed, dropped, strayed>>

\* A bad label, a full table, or a target that does not answer within 3 s.
DcRefuse(s) ==
  /\ Opening(s)
  /\ chan' = [chan EXCEPT ![s] = [state |-> "closed", conn |-> NoConn]]
  /\ UNCHANGED <<session, dcMap, its, sched, history>>

\* Mutant of DcReset: the connection is left to its target.
DcResetKeepingConnection(s) ==
  /\ Idle /\ Linked /\ chan[s].state = "open"
  /\ chan' = [chan EXCEPT ![s] = [state |-> "closed", conn |-> NoConn]]
  /\ \E i \in SlotsOn(s) : dcMap' = Cleared(i)
  /\ UNCHANGED <<session, its, sched, history>>

\* The browser closes the channel: webrtcDcReset.
DcReset(s) ==
  /\ Idle /\ Linked /\ chan[s].state = "open"
  /\ chan' = [chan EXCEPT ![s] = [state |-> "closed", conn |-> NoConn]]
  /\ \/ SlotsOn(s) = {} /\ UNCHANGED <<dcMap, its>>
     \/ \E i \in Slots : /\ First(i, SlotsOn(s))
                         /\ dcMap' = Cleared(i) /\ its' = Freed({dcMap[i].handle})
  /\ UNCHANGED <<session, sched, history>>

\* webrtcDcData; a target whose buffer stays full for 50 ms loses the message.
DcData(s) ==
  /\ Idle /\ Linked
  /\ \E i \in Slots :
       LET to == its[dcMap[i].handle].conn
       IN /\ First(i, SlotsOn(s))
          /\ strayed' = IF to = chan[s].conn THEN strayed ELSE strayed \cup {<<s, to>>}
  /\ UNCHANGED <<session, chan, dcMap, its, sched, opened, sent, out, passed, dropped>>

-----------------------------------------------------------------------------
(* The targets (outside the repository), and the notice of a disconnect. *)

\* Messages sent so far, for the bound.
TotalSent == MapThenSumSet(LAMBDA d : sent[d], Conns)

TargetSend(h) ==
  LET c == its[h].conn IN
    /\ its[h].state = "open" /\ TotalSent < MaxMessages
    /\ sent' = [sent EXCEPT ![c] = @ + 1]
    /\ its' = [its EXCEPT ![h].queue = Append(@, <<c, sent[c] + 1>>)]
    /\ UNCHANGED <<session, chan, dcMap, sched, opened, out, passed, dropped, strayed>>

TargetClose(h) ==
  /\ its[h].state = "open"
  /\ its' = [its EXCEPT ![h].state = "closing"]
  /\ UNCHANGED <<session, chan, dcMap, sched, history>>

\* Mutant of OnItsDisconnect: the slot keeps the handle.
OnItsDisconnectKeepingSlot(h) ==
  /\ Idle /\ its[h].state = "closing"
  /\ its' = Freed({h})
  /\ chan' = [chan EXCEPT ![dcMap[its[h].ref].sid] = [state |-> "closed", conn |-> NoConn]]
  /\ UNCHANGED <<session, dcMap, sched, history>>

\* webrtcOnItsDisconnect, which closes the channel with sctpStreamReset.
OnItsDisconnect(h) ==
  LET i == its[h].ref IN
    /\ Idle /\ its[h].state = "closing"
    /\ its' = Freed({h})
    /\ dcMap' = Cleared(i)
    /\ chan' = [s \in Streams |->
                  IF Linked /\ s = dcMap[i].sid /\ chan[s].state = "open"
                  THEN [state |-> "closed", conn |-> NoConn] ELSE chan[s]]
    /\ UNCHANGED <<session, sched, history>>

-----------------------------------------------------------------------------
(* The scheduler. *)

HasWork(i) ==
  i \in Mapped /\ (dcMap[i].stash # <<>> \/ its[dcMap[i].handle].queue # <<>>)
Workers == {i \in Slots : HasWork(i)}
TopLevel ==
  LET W == Workers
  IN {i \in W : \A j \in W : dcMap[j].priority <= dcMap[i].priority}

\* Steps from the slot after the cursor, wrapping.
Distance(i) == (i - cursor - 1) % MaxChannels
\* Mutant of Picked: the scan starts from slot 0 every time.
PickedFromStart(i) == i \in TopLevel /\ \A j \in TopLevel : i <= j
\* Mutant of Picked: the scan stops one short of the slot served last.
PickedShort(i) ==
  /\ i \in TopLevel /\ \A j \in TopLevel : Distance(i) <= Distance(j)
  /\ i # cursor
Picked(i) == LET T == TopLevel IN i \in T /\ \A j \in T : Distance(i) <= Distance(j)

\* Mutant of NextIter: a pass goes on while there is work.
NextIterUncapped == iter + 1
NextIter == (iter + 1) % PassLimit

\* One call of sctpSend with message m of slot i, and what became of it: "sent",
\* "refused" with nothing done, or "kept" in the pool although the call failed.
Entry(i, m, r) ==
  [conn |-> chan[dcMap[i].sid].conn, msg |-> m, ok |-> r = "sent",
   ready |-> {its[dcMap[j].handle].conn : j \in Workers}]
KeptEntries == {n \in DOMAIN out : ~out[n].ok}
SctpSend(i, m, r) ==
  /\ r = "kept" => Cardinality(KeptEntries) < MaxKept
  /\ out' = IF r = "refused" THEN out ELSE Append(out, Entry(i, m, r))
  /\ passed' = IF r = "sent"
               THEN [passed EXCEPT ![chan[dcMap[i].sid].conn] = Append(@, m)] ELSE passed

\* A stashed message goes first; if it is still refused the pass ends.
ServeStash(i, r) ==
  /\ Linked /\ Picked(i) /\ dcMap[i].stash # <<>>
  /\ SctpSend(i, Head(dcMap[i].stash), r)
  /\ IF r = "sent"
     THEN dcMap' = [dcMap EXCEPT ![i].stash = <<>>] /\ cursor' = i /\ iter' = NextIter
     ELSE UNCHANGED <<dcMap, cursor>> /\ iter' = 0
  /\ UNCHANGED <<session, chan, its, sized, opened, sent, dropped, strayed>>

\* A refused message is put aside, or lost when there is no memory for it.
Stashed(i, m, allocOk) ==
  IF allocOk THEN [dcMap EXCEPT ![i].stash = <<m>>] ELSE dcMap

ServeFresh(i, r, allocOk) ==
  LET h == dcMap[i].handle
      m == Head(its[h].queue)
  IN /\ Linked /\ sized /\ Picked(i) /\ dcMap[i].stash = <<>>
     /\ SctpSend(i, m, r)
     /\ its' = [its EXCEPT ![h].queue = Tail(@)]
     /\ IF r = "sent"
        THEN cursor' = i /\ iter' = NextIter /\ UNCHANGED <<dcMap, dropped>>
        ELSE /\ dcMap' = Stashed(i, m, allocOk) /\ iter' = 0 /\ UNCHANGED cursor
             /\ dropped' = IF allocOk THEN dropped
                           ELSE [dropped EXCEPT ![its[h].conn] = Append(@, m)]
     /\ UNCHANGED <<session, chan, sized, opened, sent, strayed>>

\* itsRecv finds nothing after all: the iteration is spent, the cursor stays.
ServeNothing(i) ==
  /\ Linked /\ sized /\ Picked(i) /\ dcMap[i].stash = <<>>
  /\ iter' = NextIter
  /\ UNCHANGED <<session, chan, dcMap, its, sized, cursor, history>>

\* Nothing left to send.
EndPass ==
  /\ iter > 0 /\ Workers = {}
  /\ iter' = 0
  /\ UNCHANGED <<session, chan, dcMap, its, sized, cursor, history>>

-----------------------------------------------------------------------------
(* The session around the router. *)

\* handleSignalingMsg
Offer ==
  /\ Idle
  /\ ClearAll /\ ResetAssociation
  /\ active' = TRUE /\ connected' = FALSE
  /\ UNCHANGED <<sched, history>>

Handshake ==
  /\ Idle /\ active /\ ~connected
  /\ connected' = TRUE
  /\ UNCHANGED <<active, established, chan, dcMap, its, sched, history>>

Associate ==
  /\ Idle /\ connected /\ ~established
  /\ established' = TRUE
  /\ UNCHANGED <<active, connected, chan, dcMap, its, sched, history>>

\* webrtcSessionTeardown: the signalling connection closed or was evicted.
SessionTeardown ==
  /\ Idle
  /\ ClearAll /\ ResetAssociation
  /\ active' = FALSE /\ connected' = FALSE
  /\ UNCHANGED <<sched, history>>

\* The last WiFi interface goes down, or the UDP port changes; the association
\* keeps its state.
LinkDown ==
  /\ Idle
  /\ ClearAll
  /\ IF connected THEN active' = FALSE /\ connected' = FALSE
                  ELSE UNCHANGED <<active, connected>>
  /\ UNCHANGED <<established, chan, sched, history>>

\* SCTP ABORT: the DTLS session stays.
Abort ==
  /\ Idle /\ Linked
  /\ ClearAll /\ ResetAssociation
  /\ UNCHANGED <<active, connected, sched, history>>

\* DTLS close_notify, or no packet for 8 s: a new session waits for a handshake.
Restart ==
  /\ Idle /\ (connected \/ established)
  /\ ClearAll /\ ResetAssociation
  /\ active' = TRUE /\ connected' = FALSE
  /\ UNCHANGED <<sched, history>>

-----------------------------------------------------------------------------
Sent == \E i \in Slots : ServeStash(i, "sent") \/ ServeFresh(i, "sent", TRUE)
NotSent == \E i \in Slots, r \in {"refused", "kept"} :
  ServeStash(i, r) \/ \E a \in AllocOutcomes : ServeFresh(i, r, a)

Next ==
  \/ \E s \in Streams : \/ \E h \in Handles, p \in Levels, a \in AllocOutcomes :
                             DcOpen(s, h, p, a)
                        \/ DcRefuse(s) \/ DcReset(s) \/ DcData(s)
  \/ \E h \in Handles : TargetSend(h) \/ TargetClose(h) \/ OnItsDisconnect(h)
  \/ Sent \/ NotSent \/ EndPass \/ \E i \in Slots : ServeNothing(i)
  \/ Offer \/ Handshake \/ Associate
  \/ SessionTeardown \/ LinkDown \/ Abort \/ Restart

Spec == Init /\ [][Next]_vars

\* The main loop comes round, and SACKs make room in the pool again and again.
FairSpec == Spec /\ WF_vars(EndPass) /\ SF_vars(Sent)

-----------------------------------------------------------------------------
(* Properties. *)

Message == Conns \X (Nat \ {0})

\* Every variable keeps its shape, and a slot stashes at most one message.
TypeOK ==
  /\ active \in BOOLEAN /\ connected \in BOOLEAN /\ established \in BOOLEAN
  /\ chan \in [Streams -> [state : {"new", "open", "closed"}, conn : {NoConn} \cup Conns]]
  /\ dcMap \in [Slots -> [handle : {NoHandle} \cup Handles, sid : {NoStream} \cup Streams,
                         priority : {0} \cup Levels,
                         stash : Seq(Message)]]
  /\ \A i \in Slots : Len(dcMap[i].stash) <= 1
  /\ its \in [Handles -> [state : {"free", "open", "closing"}, conn : {NoConn} \cup Conns,
                          ref : Slots, queue : Seq(Message)]]
  /\ sized \in BOOLEAN /\ cursor \in Slots \cup {-1} /\ iter \in 0..(PassLimit - 1)
  /\ opened \in Seq(Levels) /\ sent \in [Conns -> Nat]
  /\ out \in Seq([conn : {NoConn} \cup Conns, msg : Message, ok : BOOLEAN,
                  ready : SUBSET ({NoConn} \cup Conns)])
  /\ passed \in [Conns -> Seq(Message)] /\ dropped \in [Conns -> Seq(Message)]
  /\ strayed \subseteq Streams \X ({NoConn} \cup Conns)

\* A used slot pairs an open channel with the connection made for it, and is the
\* slot the connection's disconnect notice will name.
SlotsPair ==
  \A i \in Mapped :
    LET h == dcMap[i].handle
        s == dcMap[i].sid
    IN /\ its[h].state # "free" /\ its[h].ref = i
       /\ chan[s].state = "open" /\ chan[s].conn = its[h].conn

\* No connection outlives its slot: its target would wait for a reader for ever.
NoConnectionLeaked ==
  \A h \in Handles : its[h].state # "free" => \E i \in Mapped : dcMap[i].handle = h

\* While packets flow every open channel leads somewhere, and once they do not
\* no connection is kept.
OpenChannelsServed ==
  /\ Linked => \A s \in OpenChannels : SlotsOn(s) # {}
  /\ Mapped # {} => Linked

\* The table of streams and connections survives every order of opens, closes from
\* either side and teardowns, with slots and handles being reused.
Paired == SlotsPair /\ NoConnectionLeaked /\ OpenChannelsServed

\* What the browser sends on a channel reaches only the connection made for it.
RightTarget == strayed = {}

Live == {its[h].conn : h \in {g \in Handles : its[g].state # "free"}}
\* What a connection's target sent and no call of sctpSend has disposed of.
Waiting(c) ==
  IF c \notin Live THEN <<>>
  ELSE LET h == CHOOSE g \in Handles : its[g].conn = c
       IN dcMap[its[h].ref].stash \o its[h].queue

Stage(c) ==
  IF c > Len(opened) THEN "new" ELSE IF c \in Live THEN "open" ELSE "closed"

\* The pipes of MessagePipes as the router implements them.
Pipes == INSTANCE MessagePipes WITH
  stage <- [c \in Conns |-> Stage(c)],
  count <- sent,
  waiting <- [c \in Conns |-> Waiting(c)]

\* A connection's messages are taken from it in order, each once, and each goes to
\* one successful send on the channel of that very connection, or to the allocator's
\* failure, which the code logs; what is refused stays first in line, and a close ends
\* the pipe.  (Copies that the pool keeps of sends that failed: OnePacketOneMessage.)
PipesKept == Pipes!Spec

\* Channel c had something to send at every send from the m-th to the n-th.
ReadyThroughout(c, m, n) == \A k \in m..n : c \in out[k].ready
SameLevel(c, d) == opened[c] = opened[d]

\* c waited while d of its level was served twice.
PassedOver(c, d, m, n) ==
  /\ m < n /\ c # d /\ SameLevel(c, d)
  /\ out[m].ok /\ out[n].ok /\ out[m].conn = d /\ out[n].conn = d
  /\ ReadyThroughout(c, m, n)
  /\ \A k \in m..n : out[k].conn # c

\* schedulerPass, as its comment has it: a chatty channel does not starve its siblings
\* of the same level, as long as no channel of another level is served in between (the
\* one cursor serves all levels, and the code ensures no more).
BurstsShare ==
  \A m, n \in DOMAIN out : \A c \in out[n].ready :
    PassedOver(c, out[n].conn, m, n) => \E k \in m..n : ~SameLevel(c, out[k].conn)

\* docs/webrtc.md: one packet read from an ITS handle is one SCTP DATA message on the
\* paired stream.  No message is handed to the association as two of its messages.
OnePacketOneMessage ==
  \A m, n \in DOMAIN out : out[m].msg = out[n].msg => m = n

\* As long as the pool takes messages again and again, a connection drains once its
\* target falls silent (MaxMessages sees to that): nothing stays behind in a stash
\* or in a connection the scan never comes back to.
EveryChannelDrains ==
  \A c \in Conns : (sized /\ Waiting(c) # <<>>) ~> (Waiting(c) = <<>>)

=============================================================================
