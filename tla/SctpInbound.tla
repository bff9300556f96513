----------------------------- MODULE SctpInbound -----------------------------
(***************************************************************************)
(* The receiving half of the device's SCTP association (webrtc_sctp.cpp):  *)
(* the cumulative TSN point, the reorder buffer, the DataChannel table and *)
(* the per-channel reassembly of fragmented messages.                      *)
(*                                                                         *)
(* The browser and the network are the environment.  The chunk the peer    *)
(* sent with TSN t is peerOut[t]; a packet that was sent once may arrive   *)
(* at any time, any number of times, or never, which covers loss,          *)
(* reordering, duplication and retransmission.  The initial TSN is         *)
(* normalised to 1 and TSNs are not reduced modulo 2^32 here: the code     *)
(* compares TSNs by the sign of their difference, which agrees with <= as  *)
(* long as the TSNs compared are less than 2^31 apart.                     *)
(*                                                                         *)
(* sctpInput runs to completion on the webrtc task.  Its drain loop is     *)
(* modelled one iteration per step; "phase" keeps every other step of the  *)
(* device out until the loop has ended.                                    *)
(***************************************************************************)
EXTENDS Integers, Sequences, FiniteSets

CONSTANTS
  Streams,       \* SCTP stream ids the browser may open
  MaxChannels,   \* DC_MAX_CHANNELS
  ReorderSlots,  \* SCTP_REORDER_SLOTS
  MaxFrags,      \* fragments that fit MAX_MESSAGE (262144 bytes)
  MaxTsn,        \* bound: chunks the peer sends in one association
  AllocOutcomes, \* what heap_caps_malloc may answer for a reassembly buffer
  LateCookie     \* whether a delayed copy of COOKIE-ECHO may still arrive

ASSUME ReceiverAssumption ==
  /\ MaxChannels \in Nat \ {0}
  /\ ReorderSlots \in Nat \ {0}
  /\ MaxFrags \in Nat \ {0}
  /\ MaxTsn \in Nat
  /\ Streams # {}
  /\ AllocOutcomes \subseteq BOOLEAN
  /\ AllocOutcomes # {}
  /\ LateCookie \in BOOLEAN

VARIABLES
  peerOut,     \* the peer's chunks, by TSN
  peerFwd,     \* the highest FORWARD-TSN the peer has announced
  peerReset,   \* streams whose close the peer has requested by RE-CONFIG
  established, \* a->established
  peerTsn,     \* a->peerTsn: the cumulative TSN ack point
  reorder,     \* TSNs held in a->reorder
  chan,        \* a->channels
  phase,       \* where sctpInput is: idle, or draining the reorder buffer
  dcepOut,     \* a DCEP ACK occupies the response buffer of this packet
  log,         \* history: TSNs handed to deliverChunk
  delivered,   \* history: messages handed to onData, as the TSNs they hold
  sacked       \* history: TSNs some SACK has reported as received

peerVars == <<peerOut, peerFwd, peerReset>>
assocVars == <<established, peerTsn, reorder, chan, phase, dcepOut>>
histVars == <<log, delivered, sacked>>
vars == <<peerVars, assocVars, histVars>>

Slots == 1..MaxChannels

\* One DATA chunk: a DCEP OPEN, or fragment "part" of "of" of a message.
Chunk == [kind : {"open", "data"}, sid : Streams,
          part : Nat \ {0}, of : Nat \ {0}]

OpenChunk(s) == [kind |-> "open", sid |-> s, part |-> 1, of |-> 1]
DataChunk(s, i, n) == [kind |-> "data", sid |-> s, part |-> i, of |-> n]

\* No reassembly buffer (rxBuf == nullptr).  A buffer is the TSNs copied to it.
NoBuf == <<>>
FreeSlot(s) == [open |-> FALSE, sid |-> s, rx |-> NoBuf]

Channel == [open : BOOLEAN, sid : Streams, rx : Seq(Nat)]

NoChannels == [i \in Slots |-> FreeSlot(CHOOSE s \in Streams : TRUE)]

Init ==
  /\ peerOut = <<>> /\ peerFwd = 0 /\ peerReset = {}
  /\ established = FALSE
  /\ peerTsn = 0
  /\ reorder = {}
  /\ chan = NoChannels
  /\ phase = "idle" /\ dcepOut = FALSE
  /\ log = <<>> /\ delivered = <<>> /\ sacked = {}

-----------------------------------------------------------------------------
(* The browser's side of the association.                                  *)

Opened == {peerOut[t].sid : t \in {u \in DOMAIN peerOut : peerOut[u].kind = "open"}}

PeerOpen(s) ==
  /\ established
  /\ s \notin Opened
  /\ Len(peerOut) < MaxTsn
  /\ peerOut' = Append(peerOut, OpenChunk(s))
  /\ UNCHANGED <<peerFwd, peerReset, assocVars, histVars>>

PeerSend(s, n) ==
  /\ s \in Opened \ peerReset
  /\ Len(peerOut) + n <= MaxTsn
  /\ peerOut' = peerOut \o [i \in 1..n |-> DataChunk(s, i, n)]
  /\ UNCHANGED <<peerFwd, peerReset, assocVars, histVars>>

\* The close of a DataChannel: an Outgoing SSN Reset Request (RFC 6525).
PeerClose(s) ==
  /\ s \in Opened \ peerReset
  /\ peerReset' = peerReset \cup {s}
  /\ UNCHANGED <<peerOut, peerFwd, assocVars, histVars>>

\* Partial reliability gives up whole messages; DCEP OPENs are reliable.
MessageEnd(n) == peerOut[n].part = peerOut[n].of

PeerAbandon(n) ==
  /\ n > peerFwd
  /\ MessageEnd(n)
  /\ \A t \in 1..n : peerOut[t].kind = "data" \/ t \in sacked
  /\ peerFwd' = n
  /\ UNCHANGED <<peerOut, peerReset, assocVars, histVars>>

-----------------------------------------------------------------------------
(* Helpers of the receiver.                                                *)

\* sctpFindChannelByStream: the slots open on a stream.
OpenOn(s) == {i \in Slots : chan[i].open /\ chan[i].sid = s}

ClosedSlots == {i \in Slots : ~chan[i].open}
LowestClosed(i) == i \in ClosedSlots /\ \A j \in ClosedSlots : i <= j

\* What buildSack reports: the cumulative point and the gap blocks.
SackCover(cum, held) == (1..cum) \cup held

IsDuplicate(t) == t <= peerTsn
\* Mutant of IsNext: anything new is taken for the next chunk.
IsNextPastGap(t) == t >= peerTsn + 1

IsNext(t) == t = peerTsn + 1

\* Mutant of Buffered: the capacity test is dropped.
BufferedUnbounded(t) == reorder \cup {t}

\* Mutant of Buffered: a full pool evicts its highest chunk for the new one.
BufferedEvicting(t) ==
  IF Cardinality(reorder) < ReorderSlots THEN reorder \cup {t}
  ELSE (reorder \ {CHOOSE u \in reorder : \A v \in reorder : v <= u}) \cup {t}

\* reorderInsert: a chunk already held is accepted, a full pool drops it.  When
\* there is a slot but no memory it is as if the chunk had not come.
Buffered(t) ==
  IF Cardinality(reorder) < ReorderSlots THEN reorder \cup {t} ELSE reorder

\* The buffered chunks a FORWARD-TSN does not cover.
BeyondForward(n) == {t \in reorder : t > n}

\* handleDcepOpen.  A stream already open is ignored, a full table refuses;
\* else the lowest free slot is wiped and taken, and onDceopen may close it
\* again before the ACK is built.
HandleDcepOpen(s) ==
  IF OpenOn(s) # {} \/ ClosedSlots = {}
  THEN UNCHANGED <<chan, dcepOut>>
  ELSE \E i \in Slots, accepted \in BOOLEAN :
         /\ LowestClosed(i)
         /\ chan' = [chan EXCEPT ![i] =
                       [open |-> accepted, sid |-> s, rx |-> NoBuf]]
         /\ dcepOut' = (dcepOut \/ accepted)

\* Mutant of Reassembled: a continuation without its first fragment is kept.
ReassembledOrphan(rx, t, c, allocOk) ==
  LET base == IF c.part = 1 THEN NoBuf ELSE rx
  IN  IF ~allocOk \/ Len(base) + 1 > MaxFrags THEN NoBuf ELSE Append(base, t)

\* The reassembly buffer after fragment c of TSN t, given what the allocator
\* answers: a first fragment starts afresh, an orphan is ignored, a message
\* past MAX_MESSAGE is dropped with its buffer.
Reassembled(rx, t, c, allocOk) ==
  LET base == IF c.part = 1 THEN NoBuf ELSE rx
  IN  IF (c.part > 1 /\ rx = NoBuf) \/ ~allocOk \/ Len(base) + 1 > MaxFrags
      THEN NoBuf
      ELSE Append(base, t)

\* processDataFragment.
ProcessDataFragment(t, c) ==
  IF OpenOn(c.sid) = {}
  THEN UNCHANGED <<chan, delivered>>
  ELSE LET i == CHOOSE j \in OpenOn(c.sid) : TRUE
       IN  IF c.of = 1
           THEN /\ delivered' = Append(delivered, <<t>>)
                /\ UNCHANGED chan
           ELSE \E allocOk \in AllocOutcomes :
                  LET rx == Reassembled(chan[i].rx, t, c, allocOk)
                      whole == c.part = c.of /\ rx # NoBuf
                  IN  /\ delivered' = IF whole THEN Append(delivered, rx)
                                              ELSE delivered
                      /\ chan' = [chan EXCEPT ![i].rx =
                                    IF whole THEN NoBuf ELSE rx]

\* deliverChunk: one in-order chunk goes to its handler.
DeliverChunk(t) ==
  /\ log' = Append(log, t)
  /\ \/ /\ peerOut[t].kind = "open"
        /\ HandleDcepOpen(peerOut[t].sid)
        /\ UNCHANGED delivered
     \/ /\ peerOut[t].kind = "data"
        /\ ProcessDataFragment(t, peerOut[t])
        /\ UNCHANGED dcepOut

-----------------------------------------------------------------------------
(* The chunks sctpInput handles.                                           *)

\* COOKIE-ECHO: the cookie carries the TSNs both ends chose at INIT.
RecvCookieEcho ==
  /\ phase = "idle"
  /\ ~established \/ LateCookie
  /\ established' = TRUE
  /\ peerTsn' = 0
  /\ UNCHANGED <<peerVars, reorder, chan, phase, dcepOut, histVars>>

\* Mutant of RecvDuplicate: a chunk already delivered is dropped in silence.
RecvDuplicateSilent(t) ==
  /\ established /\ phase = "idle"
  /\ IsDuplicate(t)
  /\ UNCHANGED vars

\* A DATA chunk at or below the cumulative point is acknowledged again.
RecvDuplicate(t) ==
  /\ established /\ phase = "idle"
  /\ IsDuplicate(t)
  /\ sacked' = sacked \cup SackCover(peerTsn, reorder)
  /\ UNCHANGED <<peerVars, assocVars, log, delivered>>

\* The chunk the cumulative point waits for: deliver it, then drain.
RecvNext(t) ==
  /\ established /\ phase = "idle"
  /\ ~IsDuplicate(t) /\ IsNext(t)
  /\ DeliverChunk(t)
  /\ peerTsn' = t
  /\ phase' = "data"
  /\ UNCHANGED <<peerVars, established, reorder, sacked>>

\* A chunk past a gap is held, or dropped un-acknowledged if the pool is full.
RecvAhead(t) ==
  /\ established /\ phase = "idle"
  /\ ~IsDuplicate(t) /\ ~IsNext(t)
  /\ reorder' = Buffered(t)
  /\ sacked' = sacked \cup SackCover(peerTsn, reorder')
  /\ UNCHANGED <<peerVars, established, peerTsn, chan, phase, dcepOut,
                 log, delivered>>

\* Mutant of RecvForwardTsn: a late FORWARD-TSN moves the point back.
RecvForwardTsnBack(n) ==
  /\ established /\ phase = "idle"
  /\ MessageEnd(n)
  /\ peerTsn' = n
  /\ reorder' = BeyondForward(n)
  /\ phase' = "forward"
  /\ UNCHANGED <<peerVars, established, chan, dcepOut, histVars>>

\* Mutant of RecvForwardTsn: the buffer is not drained after the skip.
RecvForwardTsnNoDrain(n) ==
  /\ established /\ phase = "idle"
  /\ MessageEnd(n)
  /\ peerTsn' = IF n > peerTsn THEN n ELSE peerTsn
  /\ reorder' = IF n > peerTsn THEN BeyondForward(n) ELSE reorder
  /\ sacked' = sacked \cup SackCover(peerTsn', reorder')
  /\ UNCHANGED <<peerVars, established, chan, phase, dcepOut,
                 log, delivered>>

\* FORWARD-TSN: the point moves forward, never back, and what it covers goes.
RecvForwardTsn(n) ==
  /\ established /\ phase = "idle"
  /\ MessageEnd(n)
  /\ peerTsn' = IF n > peerTsn THEN n ELSE peerTsn
  /\ reorder' = IF n > peerTsn THEN BeyondForward(n) ELSE reorder
  /\ phase' = "forward"
  /\ UNCHANGED <<peerVars, established, chan, dcepOut, histVars>>

\* One iteration of drainReorder: the next TSN is in the buffer.
DrainOne ==
  /\ phase # "idle"
  /\ peerTsn + 1 \in reorder
  /\ DeliverChunk(peerTsn + 1)
  /\ peerTsn' = peerTsn + 1
  /\ reorder' = reorder \ {peerTsn + 1}
  /\ UNCHANGED <<peerVars, established, phase, sacked>>

\* The drain loop ends.  After DATA a DCEP ACK takes the response buffer if
\* there is one; otherwise, and always after FORWARD-TSN, the answer is a SACK.
DrainEnd ==
  /\ phase # "idle"
  /\ peerTsn + 1 \notin reorder
  /\ sacked' = IF phase = "data" /\ dcepOut
               THEN sacked
               ELSE sacked \cup SackCover(peerTsn, reorder)
  /\ phase' = "idle"
  /\ dcepOut' = FALSE
  /\ UNCHANGED <<peerVars, established, peerTsn, reorder, chan,
                 log, delivered>>

\* RE-CONFIG, Outgoing SSN Reset Request: the channel closes at once its
\* reassembly buffer is freed and the peer is told "success".
RecvReconfig(s) ==
  /\ established /\ phase = "idle"
  /\ s \in peerReset
  /\ chan' = [i \in Slots |->
                IF i \in OpenOn(s)
                THEN [chan[i] EXCEPT !.open = FALSE, !.rx = NoBuf]
                ELSE chan[i]]
  /\ UNCHANGED <<peerVars, established, peerTsn, reorder, phase, dcepOut,
                 log, delivered, sacked>>

\* sctpStreamReset: the device closes the stream (its ITS target went away).
StreamReset(s) ==
  /\ established /\ phase = "idle"
  /\ OpenOn(s) # {}
  /\ chan' = [i \in Slots |->
                IF i \in OpenOn(s) THEN [chan[i] EXCEPT !.open = FALSE]
                                   ELSE chan[i]]
  /\ UNCHANGED <<peerVars, established, peerTsn, reorder, phase, dcepOut, histVars>>

\* ABORT from the peer, or a teardown of the session (sctpInit): nothing of
\* the association survives, and the browser starts its next one afresh.
Shutdown ==
  /\ established /\ phase = "idle"
  /\ peerOut' = <<>> /\ peerFwd' = 0 /\ peerReset' = {}
  /\ established' = FALSE
  /\ peerTsn' = 0
  /\ reorder' = {}
  /\ chan' = NoChannels
  /\ log' = <<>> /\ delivered' = <<>> /\ sacked' = {}
  /\ UNCHANGED <<phase, dcepOut>>

-----------------------------------------------------------------------------

PeerStep ==
  \/ \E s \in Streams : PeerOpen(s) \/ PeerClose(s)
  \/ \E s \in Streams, n \in 1..(MaxFrags + 1) : PeerSend(s, n)
  \/ \E n \in 1..Len(peerOut) : PeerAbandon(n)

Arrival ==
  \/ \E t \in 1..Len(peerOut) : RecvDuplicate(t) \/ RecvNext(t) \/ RecvAhead(t)
  \/ \E n \in 1..peerFwd : RecvForwardTsn(n)
  \/ \E s \in Streams : RecvReconfig(s)

Next ==
  \/ PeerStep
  \/ RecvCookieEcho
  \/ Arrival
  \/ DrainOne \/ DrainEnd
  \/ \E s \in Streams : StreamReset(s)
  \/ Shutdown

Spec == Init /\ [][Next]_vars

\* The browser resends what no SACK has reported until one does, and repeats
\* FORWARD-TSN until the cumulative point has passed what it gave up.
Resend(t) ==
  /\ t \in DOMAIN peerOut
  /\ t > peerFwd
  /\ t \notin sacked
  /\ RecvDuplicate(t) \/ RecvNext(t) \/ RecvAhead(t)

ResendForward ==
  /\ peerFwd > 0
  /\ ~ (1..peerFwd \subseteq sacked)
  /\ RecvForwardTsn(peerFwd)

FairSpec ==
  /\ Spec
  /\ WF_vars(DrainOne) /\ WF_vars(DrainEnd)
  /\ \A t \in 1..MaxTsn : SF_vars(Resend(t))
  /\ SF_vars(ResendForward)

-----------------------------------------------------------------------------
(* Properties.                                                             *)

\* Every variable keeps its shape and the reorder pool its capacity.
TypeOK ==
  /\ peerOut \in Seq(Chunk)
  /\ peerFwd \in 0..Len(peerOut)
  /\ peerReset \in SUBSET Streams
  /\ established \in BOOLEAN
  /\ peerTsn \in 0..Len(peerOut)
  /\ reorder \in SUBSET (1..Len(peerOut))
  /\ Cardinality(reorder) <= ReorderSlots
  /\ chan \in [Slots -> Channel]
  /\ phase \in {"idle", "data", "forward"}
  /\ dcepOut \in BOOLEAN
  /\ log \in Seq(Nat)
  /\ delivered \in Seq(Seq(Nat))
  /\ sacked \in SUBSET (1..Len(peerOut))

\* processDataChunk "delivers strictly in TSN order": no chunk is delivered
\* twice or early, and only what the peer gave up is missing.
InOrderOnce ==
  /\ \A i, j \in DOMAIN log : i < j => log[i] < log[j]
  /\ \A i \in DOMAIN log : log[i] <= peerTsn
  /\ \A t \in 1..peerTsn : t > peerFwd => \E i \in DOMAIN log : log[i] = t

\* What a SACK has reported, by the cumulative point or by a gap block, is
\* never dropped again: the peer has already freed its copy.
NoRenege == sacked \subseteq SackCover(peerTsn, reorder)

\* Between packets the reorder buffer holds neither a chunk that could be
\* delivered nor one already passed, so neither can pin a slot.
NothingReadyHeld ==
  phase = "idle" => \A t \in reorder : t > peerTsn + 1

\* A message handed to onData is all of one message and nothing else,
\* whatever allocations failed, fragments went missing or streams closed.
MessagesWhole ==
  \A k \in DOMAIN delivered :
    LET m == delivered[k]
        head == peerOut[m[1]]
    IN  /\ head.kind = "data" /\ Len(m) = head.of
        /\ \A i \in DOMAIN m : peerOut[m[i]] = DataChunk(head.sid, i, head.of)
        /\ \A i \in DOMAIN m : m[i] = m[1] + i - 1

\* The association keeps the promise of module TsnOrder.
Order == INSTANCE TsnOrder WITH
  sent <- Len(peerOut), abandoned <- peerFwd, cum <- peerTsn, out <- log

InOrderDelivery == Order!OrdSpec

\* Every chunk the peer sends is in the end acknowledged, the one whose SACK a
\* DCEP ACK displaced included ("covered by the next SACK"), although a full
\* reorder pool drops chunks and the peer falls silent after its last one.
EverythingAcknowledged ==
  \A t \in 1..MaxTsn : t \in DOMAIN peerOut ~> (t \in sacked \/ ~established)

=============================================================================
