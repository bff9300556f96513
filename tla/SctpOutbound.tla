----------------------------- MODULE SctpOutbound -----------------------------
(***************************************************************************)
(* The sending half of the device's SCTP association (webrtc_sctp.cpp):    *)
(* numbering of messages, the retransmission pool, SACKs with Gap Ack      *)
(* Blocks, the retransmission timer, and the abandoning of a stream's      *)
(* chunks by FORWARD-TSN.                                                  *)
(*                                                                         *)
(* The network may lose, delay and reorder whatever it carries.  The peer  *)
(* is a receiver that follows RFC 4960 and RFC 3758: it sends a SACK for   *)
(* what it receives, may report any window, and tells when a closed one    *)
(* opens.  The association is established; the initial TSN is normalised   *)
(* to 1 and TSNs are not reduced modulo 2^32.  A message is a run of       *)
(* fragments, one TSN each, and a fragment is the unit in which the pool   *)
(* and the window are counted.  A stream is opened once: ids are not       *)
(* reused in an association.  The transport takes all packets of a call of *)
(* sctpRetransmit or none.                                                 *)
(***************************************************************************)
EXTENDS Integers, Sequences, FiniteSets, FiniteSetsExt

CONSTANTS
  Streams,     \* stream ids
  Ordered,     \* streams whose channelType has no 0x80 bit
  Reliable,    \* streams with reliableInfinite
  Favoured,    \* streams with a priority of 1024 or more
  MaxRexmit,   \* retransmission limit of the streams that are not Reliable
  PoolSlots,   \* SCTP_REXMIT_SLOTS
  PoolBytes,   \* SCTP_REXMIT_POOL_BYTES, in fragments
  MaxBurst,    \* MAX_FRAGS_PER_CALL
  LowQuota,    \* the share of PoolBytes rexmitQuota leaves to other streams
  Window,      \* the a_rwnd of the peer's INIT, in fragments
  Reports,     \* the a_rwnd of its SACKs
  SsnMod,      \* 2^16: stream sequence numbers wrap there
  MaxFrags,    \* bound: fragments of a message
  MaxTsn,      \* bound: TSNs used in one association
  MaxSacks,    \* bound: SACKs in flight
  AllocOutcomes, \* what heap_caps_malloc may answer for the copy a pool entry keeps
  Lossy        \* TRUE: packets vanish; FALSE: they may only be late for ever

ASSUME SenderAssumption ==
  /\ Ordered \subseteq Streams /\ Reliable \subseteq Streams /\ Favoured \subseteq Streams
  /\ MaxRexmit \in Nat
  /\ PoolSlots \in Nat \ {0} /\ PoolBytes \in Nat /\ LowQuota \in 0..PoolBytes
  /\ MaxBurst \in Nat \ {0}
  /\ Window \in Nat /\ Reports \subseteq 0..Window /\ SsnMod \in Nat \ {0}
  /\ MaxFrags \in Nat \ {0} /\ MaxTsn \in Nat /\ MaxSacks \in Nat
  /\ AllocOutcomes \subseteq BOOLEAN /\ AllocOutcomes # {}
  /\ Lossy \in BOOLEAN

VARIABLES
  chan,       \* a->channels, by stream: state and next SSN
  myTsn,      \* a->myTsn: the next TSN
  peerRwnd,   \* a->peerRwnd
  pool,       \* a->rexmit: messages held, by slot, with their retransmission count
  sackCum,    \* a->sackCumTsn
  sackGaps,   \* TSNs the gap blocks of the last SACK cover
  clock,      \* a->lastSackMs: unset, or set less or more than 1500 ms ago
  pendingFwd, \* a->pendingFwdTsn, 0 when none is staged
  wire,       \* TSNs of DATA chunks in flight
  fwdWire,    \* FORWARD-TSN values in flight
  sacks,      \* SACKs in flight
  got,        \* TSNs the peer has received
  skip,       \* the highest FORWARD-TSN the peer has received
  due,        \* what the peer has to tell: a SACK, an opened window, nothing
  msgs        \* history: the messages that were given TSNs, in order

sender == <<chan, myTsn, peerRwnd, pool, sackCum, sackGaps, clock, pendingFwd>>
network == <<wire, fwdWire, sacks>>
peer == <<got, skip, due>>
vars == <<sender, network, peer, msgs>>

Tsns == 1..MaxTsn
Slots == 0..(PoolSlots - 1)
Message == [sid : Streams, ssn : 0..(SsnMod - 1), first : Tsns, last : Tsns, ack : BOOLEAN]
Entry == [slot : Slots, msg : Nat \ {0}, tries : Nat]
Sack == [cum : 0..MaxTsn, gaps : SUBSET Tsns, rwnd : Reports]

\* sackCumTsn is 0 until the first SACK while the initial TSN is random, so a
\* signed comparison with it may put it on either side of the TSNs in use.
Init ==
  /\ chan = [s \in Streams |-> [state |-> "new", ssn |-> 0]]
  /\ myTsn = 1 /\ peerRwnd = Window
  /\ pool = {}
  /\ sackCum \in {0, MaxTsn} /\ sackGaps = {} /\ clock = "unset"
  /\ pendingFwd = 0
  /\ wire = {} /\ fwdWire = {} /\ sacks = {}
  /\ got = {} /\ skip = 0 /\ due = "nothing"
  /\ msgs = <<>>

-----------------------------------------------------------------------------
(* The pool. *)

TsnsOf(m) == msgs[m].first .. msgs[m].last
\* a->rexmitBytes: the fragments the pool holds, each under a TSN of its own.
Used == Cardinality(UNION {TsnsOf(e.msg) : e \in pool})

\* Mutant of FreeSlots: the probe does not look whether a slot is taken.
SlotsUntested == Slots
\* The probe of rexmitInsert takes one of these; which, is left open.
FreeSlots == {i \in Slots : \A e \in pool : e.slot # i}
\* rexmitInsert with the quota of the stream: bytes by priority, slots for all.
Room(quota, n) == n + Used <= quota /\ FreeSlots # {}
Quota(s) == IF s \in Favoured THEN PoolBytes ELSE LowQuota

\* The pool with a fresh entry for the message about to be appended to msgs.
Placed == {pool \cup {[slot |-> i, msg |-> Len(msgs) + 1, tries |-> 0]} : i \in FreeSlots}
\* The pool after an insertion whose failure the code ignores: the quota, the
\* slots, or the allocator may refuse the message.
Inserted(quota, n) ==
  UNION {IF allocOk /\ Room(quota, n) THEN Placed ELSE {pool} : allocOk \in AllocOutcomes}
NewMessage(s, ssn, n, ack) ==
  [sid |-> s, ssn |-> ssn, first |-> myTsn, last |-> myTsn + n - 1, ack |-> ack]

\* Mutant of AckedBy: an overlap with a gap block counts as full coverage.
AckedByOverlap(e, cum, gaps) ==
  msgs[e.msg].last <= cum \/ TsnsOf(e.msg) \cap gaps # {}
\* The entries a SACK frees: below the cumulative point, or inside a gap block.
AckedBy(e, cum, gaps) ==
  msgs[e.msg].last <= cum \/ TsnsOf(e.msg) \subseteq gaps

\* Retry budget exceeded.
Exhausted(e) == msgs[e.msg].sid \notin Reliable /\ ~msgs[e.msg].ack /\ e.tries >= MaxRexmit
Counted(e) == msgs[e.msg].sid \notin Reliable /\ ~msgs[e.msg].ack
\* Chunks beyond the cumulative point that no gap block covers.
Missing(e, cum, gaps) == {t \in TsnsOf(e.msg) : t > cum /\ t \notin gaps}

\* sctpRetransmit scans the slots from the first, and stops when it has sent
\* MaxBurst chunks: those it has to send before it comes to entry e.
Ahead(p, e, cum, gaps) ==
  UNION {Missing(f, cum, gaps) : f \in {g \in p : g.slot < e.slot /\ ~Exhausted(g)}}
Reached(p, e, cum, gaps) == Cardinality(Ahead(p, e, cum, gaps)) < MaxBurst
\* What it sends of entry e.
Burst(p, e, cum, gaps) ==
  {t \in Missing(e, cum, gaps) :
     Cardinality(Ahead(p, e, cum, gaps) \cup {u \in Missing(e, cum, gaps) : u < t}) < MaxBurst}

\* The entries a scan that comes to them leaves in the pool.
Stays(e, cum) == msgs[e.msg].last > cum /\ ~Exhausted(e)
Retained(p, cum, gaps) == {e \in p : Reached(p, e, cum, gaps) => Stays(e, cum)}
Resent(p, cum, gaps) == UNION {Burst(p, e, cum, gaps) : e \in Retained(p, cum, gaps)}
AfterResend(p, cum, gaps) ==
  {IF Counted(e) /\ Burst(p, e, cum, gaps) # {} THEN [e EXCEPT !.tries = @ + 1] ELSE e :
     e \in Retained(p, cum, gaps)}

\* sctpRetransmit; up: the DTLS transport takes packets.
Retransmit(p, cum, gaps, up) ==
  IF up THEN /\ pool' = AfterResend(p, cum, gaps)
             /\ wire' = wire \cup Resent(p, cum, gaps)
        ELSE pool' = {e \in p : Stays(e, cum)} /\ UNCHANGED wire

-----------------------------------------------------------------------------
(* Sending. *)

NextSsn(n) == (n + 1) % SsnMod

\* handleDcepOpen: the DCEP ACK takes a TSN and the first SSN of the stream.  Its
\* packet may be overwritten by a later reply or lost by the transport.
OpenChannel(s) ==
  /\ chan[s].state = "new" /\ myTsn <= MaxTsn
  /\ chan' = [chan EXCEPT ![s] = [state |-> "open", ssn |-> NextSsn(0)]]
  /\ msgs' = Append(msgs, NewMessage(s, 0, 1, TRUE))
  /\ pool' \in Inserted(PoolBytes, 1)
  /\ \/ wire' = wire \cup {myTsn}
     \/ UNCHANGED wire
  /\ myTsn' = myTsn + 1
  /\ UNCHANGED <<peerRwnd, sackCum, sackGaps, clock, pendingFwd,
                 fwdWire, sacks, peer>>

\* A message fits when it is within the peer's window and, on a reliable stream,
\* within the share of the pool the stream may use, and can be copied.
Fits(s, n, allocOk) == n <= peerRwnd /\ (s \in Reliable => allocOk /\ Room(Quota(s), n))

\* Mutant of BackOff: the SSN is not given back.
BackOffKeepingSsn(s, n) ==
  /\ chan[s].state = "open" /\ myTsn + n - 1 <= MaxTsn
  /\ \E allocOk \in AllocOutcomes : ~Fits(s, n, allocOk)
  /\ s \in Ordered
  /\ chan' = [chan EXCEPT ![s].ssn = NextSsn(@)]
  /\ UNCHANGED <<myTsn, peerRwnd, pool, sackCum, sackGaps, clock, pendingFwd,
                 network, peer, msgs>>

\* sctpSend that returns 0: the TSNs are given back, and the SSN too unless
\* taking it has just wrapped the counter to 0.
BackOff(s, n) ==
  /\ chan[s].state = "open" /\ myTsn + n - 1 <= MaxTsn
  /\ \E allocOk \in AllocOutcomes : ~Fits(s, n, allocOk)
  /\ chan' = [chan EXCEPT ![s].ssn =
                IF s \in Ordered /\ NextSsn(@) = 0 THEN 0 ELSE @]
  /\ UNCHANGED <<myTsn, peerRwnd, pool, sackCum, sackGaps, clock, pendingFwd,
                 network, peer, msgs>>

\* sctpSend of n fragments, of which the transport takes the first k.
Send(s, n, k) ==
  /\ chan[s].state = "open" /\ myTsn + n - 1 <= MaxTsn
  /\ \E allocOk \in AllocOutcomes : Fits(s, n, allocOk)
  /\ chan' = [chan EXCEPT ![s].ssn = IF s \in Ordered THEN NextSsn(@) ELSE @]
  /\ msgs' = Append(msgs, NewMessage(s, IF s \in Ordered THEN chan[s].ssn ELSE 0, n, FALSE))
  /\ pool' \in IF s \in Reliable THEN Placed
               ELSE IF MaxRexmit > 0 THEN Inserted(Quota(s), n) ELSE {pool}
  /\ myTsn' = myTsn + n
  /\ peerRwnd' = peerRwnd - n
  /\ wire' = wire \cup (myTsn .. myTsn + k - 1)
  /\ UNCHANGED <<sackCum, sackGaps, clock, pendingFwd, fwdWire, sacks, peer>>

\* A SACK restarts the clock; entries it covers are freed; one with gaps
\* retransmits the holes.
RecvSack(k, up) ==
  /\ k \in sacks
  /\ sacks' = sacks \ {k}
  /\ peerRwnd' = k.rwnd
  /\ sackCum' = k.cum /\ sackGaps' = k.gaps /\ clock' = "running"
  /\ LET left == {e \in pool : ~AckedBy(e, k.cum, k.gaps)} IN
       IF k.gaps = {} THEN pool' = left /\ UNCHANGED wire
                      ELSE Retransmit(left, k.cum, k.gaps, up)
  /\ UNCHANGED <<chan, myTsn, pendingFwd, fwdWire, peer, msgs>>

\* 1500 ms go by without a SACK.
Expire ==
  /\ clock = "running"
  /\ clock' = "expired"
  /\ UNCHANGED <<chan, myTsn, peerRwnd, pool, sackCum, sackGaps, pendingFwd,
                 network, peer, msgs>>

\* Mutant of Rto: the clock stops instead of being started again.
RtoOnce(up) ==
  /\ clock = "expired" /\ pool # {}
  /\ clock' = "unset"
  /\ Retransmit(pool, sackCum, sackGaps, up)
  /\ UNCHANGED <<chan, myTsn, peerRwnd, sackCum, sackGaps, pendingFwd,
                 fwdWire, sacks, peer, msgs>>

\* The main loop finds the clock expired, and starts it again.
Rto(up) ==
  /\ clock = "expired" /\ pool # {}
  /\ clock' = "running"
  /\ Retransmit(pool, sackCum, sackGaps, up)
  /\ UNCHANGED <<chan, myTsn, peerRwnd, sackCum, sackGaps, pendingFwd,
                 fwdWire, sacks, peer, msgs>>

-----------------------------------------------------------------------------
(* Abandoning a stream. *)

\* Mutant of AdvanceTo: the FORWARD-TSN covers everything that was sent.
AdvanceToEnd(p) == myTsn - 1
\* rexmitComputeForwardTsn: up to the lowest TSN still in the pool.
AdvanceTo(p) == IF p = {} THEN myTsn - 1 ELSE Min({msgs[e.msg].first : e \in p}) - 1

\* sctpStreamReset, or the peer's own reset in handleReconfigChunk: the stream's
\* entries are purged, and a FORWARD-TSN staged if it advances the last SACK.
CloseChannel(s) ==
  LET mine == {e \in pool : msgs[e.msg].sid = s}
      left == pool \ mine
  IN /\ chan[s].state = "open"
     /\ chan' = [chan EXCEPT ![s].state = "closed"]
     /\ pool' = left
     /\ pendingFwd' = IF mine # {} /\ AdvanceTo(left) > sackCum
                      THEN AdvanceTo(left) ELSE pendingFwd
     /\ UNCHANGED <<myTsn, peerRwnd, sackCum, sackGaps, clock, network, peer, msgs>>

\* The main loop sends what is staged; a send the transport refuses stays staged.
SendForward(up) ==
  /\ pendingFwd # 0
  /\ IF up THEN fwdWire' = fwdWire \cup {pendingFwd} /\ pendingFwd' = 0
           ELSE UNCHANGED <<fwdWire, pendingFwd>>
  /\ UNCHANGED <<chan, myTsn, peerRwnd, pool, sackCum, sackGaps, clock,
                 wire, sacks, peer, msgs>>

-----------------------------------------------------------------------------
(* The network and the peer (outside the repository). *)

\* The peer's cumulative TSN ack point.
PeerCum == Max({n \in 0..MaxTsn : \A t \in 1..n : t \in got \/ t <= skip})

Lose ==
  /\ Lossy
  /\ \/ \E t \in wire : wire' = wire \ {t} /\ UNCHANGED <<fwdWire, sacks>>
     \/ \E n \in fwdWire : fwdWire' = fwdWire \ {n} /\ UNCHANGED <<wire, sacks>>
     \/ \E k \in sacks : sacks' = sacks \ {k} /\ UNCHANGED <<wire, fwdWire>>
  /\ UNCHANGED <<sender, peer, msgs>>

PeerRecv(t) ==
  /\ t \in wire
  /\ got' = got \cup {t}
  /\ wire' = wire \ {t}
  /\ due' = "sack"
  /\ UNCHANGED <<sender, fwdWire, sacks, skip, msgs>>

PeerRecvForward(n) ==
  /\ n \in fwdWire
  /\ skip' = Max({skip, n})
  /\ fwdWire' = fwdWire \ {n}
  /\ due' = "sack"
  /\ UNCHANGED <<sender, wire, sacks, got, msgs>>

\* A SACK tells of what came in, or that a window opens that was closed.
MayTell(r) == due = "sack" \/ (due = "window" /\ r > 0)
PeerSack(r) ==
  /\ MayTell(r)
  /\ Cardinality(sacks) < MaxSacks
  /\ sacks' = sacks \cup {[cum |-> PeerCum, gaps |-> {t \in got : t > PeerCum}, rwnd |-> r]}
  /\ due' = IF r = 0 THEN "window" ELSE "nothing"
  /\ UNCHANGED <<sender, wire, fwdWire, got, skip, msgs>>

-----------------------------------------------------------------------------
Next ==
  \/ \E s \in Streams : OpenChannel(s) \/ CloseChannel(s)
  \/ \E s \in Streams, n \in 1..MaxFrags :
       BackOff(s, n) \/ \E k \in 0..n : Send(s, n, k)
  \/ \E k \in sacks, up \in BOOLEAN : RecvSack(k, up)
  \/ Expire \/ \E up \in BOOLEAN : Rto(up) \/ SendForward(up)
  \/ Lose
  \/ \E t \in Tsns : PeerRecv(t) \/ PeerRecvForward(t)
  \/ \E r \in Reports : PeerSack(r)

Spec == Init /\ [][Next]_vars

SackArrives == \E k \in sacks, up \in BOOLEAN : RecvSack(k, up)

\* Time passes, so a SACK arrives or the clock expires; when it has, the main loop
\* comes round before a SACK arrives, and not each time to a transport that refuses.
\* Neither is sure while SACKs keep arriving.
TimerRuns == WF_vars(Expire \/ SackArrives) /\ SF_vars(Rto(TRUE) \/ SackArrives)

\* A chunk put on the wire again and again gets through, the peer sends the SACKs
\* it has to, and of those it sends again and again some get through.
PathWorks ==
  /\ \A t \in Tsns : SF_vars(PeerRecv(t))
  /\ WF_vars(\E r \in Reports : PeerSack(r)) /\ SF_vars(SackArrives)

FairSpec == Spec /\ TimerRuns /\ PathWorks

-----------------------------------------------------------------------------
(* Properties. *)

Typed ==
  /\ chan \in [Streams -> [state : {"new", "open", "closed"}, ssn : 0..(SsnMod - 1)]]
  /\ myTsn \in 1..(MaxTsn + 1) /\ peerRwnd \in 0..Window
  /\ pool \subseteq Entry
  /\ \A e \in pool : e.msg \in DOMAIN msgs /\ e.tries <= MaxRexmit
  /\ \A e, f \in pool : e.slot = f.slot => e = f
  /\ sackCum \in 0..MaxTsn /\ sackGaps \subseteq Tsns
  /\ clock \in {"unset", "running", "expired"}
  /\ pendingFwd \in 0..MaxTsn
  /\ wire \subseteq Tsns /\ fwdWire \subseteq Tsns /\ sacks \subseteq Sack
  /\ got \subseteq Tsns /\ skip \in 0..MaxTsn /\ due \in {"nothing", "window", "sack"}
  /\ msgs \in Seq(Message)

\* Every variable keeps its shape, no two messages share a slot of the pool, and
\* the pool holds no more bytes than it may.
TypeOK == Typed /\ Used <= PoolBytes

\* Messages of reliable streams that were not closed.
Guaranteed(m) == msgs[m].sid \in Reliable /\ ~msgs[m].ack /\ chan[msgs[m].sid].state = "open"
Arrived(m) == TsnsOf(m) \subseteq got
Held(m) == \E e \in pool : e.msg = m

\* What a reliable stream was given is either at the peer or in the pool, however
\* late, stale or out of order the SACKs are that free entries.
ReliableHeld == \A m \in DOMAIN msgs : Guaranteed(m) => Arrived(m) \/ Held(m)

\* No FORWARD-TSN, staged, in flight or received, makes the peer skip a chunk of a
\* reliable stream that it still needs.
ForwardSkipsNothingNeeded ==
  \A m \in DOMAIN msgs : Guaranteed(m) =>
    \A n \in fwdWire \cup {pendingFwd, skip} :
      \A t \in TsnsOf(m) : t <= n => t \in got

\* TSNs are used without a gap, and so are the SSNs of an ordered stream: a peer
\* waits for ever for a number that was never used.
NumbersGapless ==
  /\ \A m \in DOMAIN msgs :
       /\ msgs[m].first = IF m = 1 THEN 1 ELSE msgs[m - 1].last + 1
       /\ msgs[m].sid \in Ordered =>
            msgs[m].ssn = Cardinality({i \in 1..(m - 1) : msgs[i].sid = msgs[m].sid}) % SsnMod
  /\ myTsn = IF msgs = <<>> THEN 1 ELSE msgs[Len(msgs)].last + 1

\* What the purge of a closed reliable stream took from the pool.
Abandoned(m) ==
  msgs[m].sid \in Reliable /\ ~msgs[m].ack /\ chan[msgs[m].sid].state = "closed" /\ ~Held(m)

\* docs/webrtc-internals.md section 4: on a stream reset a FORWARD-TSN is sent so
\* the peer's cumulative TSN advances past the abandoned chunks: once nothing
\* older is outstanding, one that covers a chunk the peer lacks is on its way.
PurgedForwarded ==
  \A m \in DOMAIN msgs : Abandoned(m) => \A t \in TsnsOf(m) :
    \/ t \in got \/ t \in wire
    \/ \E n \in fwdWire \cup {skip, pendingFwd} : t <= n
    \/ \E e \in pool : msgs[e.msg].first < t

\* Once the peer has been heard, and the targets fall silent (MaxTsn sees to that),
\* every message of a reliable stream arrives unless its stream is closed, although
\* any SACK restarts the clock and a call resends only the first few chunks.
EveryReliableArrives ==
  clock # "unset" ~> \A m \in DOMAIN msgs : Guaranteed(m) => Arrived(m)

=============================================================================
