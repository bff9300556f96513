-------------------------- MODULE SctpInboundProofs --------------------------
(***************************************************************************)
(* Proofs about SctpInbound for every number of streams, channel slots,    *)
(* reorder slots and TSNs.                                                 *)
(***************************************************************************)
EXTENDS SctpInbound, FiniteSetTheorems, SequenceTheorems, TLAPS

-----------------------------------------------------------------------------
(* Type correctness.                                                       *)

\* deliverChunk keeps the channel table and the histories well formed.
LEMMA DeliverTyped ==
  ASSUME TypeOK, NEW t \in DOMAIN peerOut, DeliverChunk(t)
  PROVE  /\ chan' \in [Slots -> Channel]
         /\ dcepOut' \in BOOLEAN
         /\ log' \in Seq(Nat)
         /\ delivered' \in Seq(Seq(Nat))
<1>. DEFINE c == peerOut[t]
<1>1. t \in Nat /\ c \in Chunk
  BY DEF TypeOK
<1>2. log' \in Seq(Nat)
  BY <1>1 DEF TypeOK, DeliverChunk
<1>3. CASE c.kind = "open" /\ HandleDcepOpen(c.sid) /\ UNCHANGED delivered
  <2>1. c.sid \in Streams
    BY <1>1 DEF Chunk
  <2>2. \A accepted \in BOOLEAN :
          [open |-> accepted, sid |-> c.sid, rx |-> NoBuf] \in Channel
    BY <2>1 DEF Channel, NoBuf
  <2>. QED
    BY <1>2, <1>3, <2>2 DEF TypeOK, HandleDcepOpen
<1>4. CASE ProcessDataFragment(t, c) /\ UNCHANGED dcepOut
  <2>1. c.sid \in Streams
    BY <1>1 DEF Chunk
  <2>2. CASE OpenOn(c.sid) = {}
    BY <1>2, <1>4, <2>2 DEF TypeOK, ProcessDataFragment
  <2>3. CASE OpenOn(c.sid) # {}
    <3>. DEFINE i == CHOOSE j \in OpenOn(c.sid) : TRUE
    <3>1. i \in Slots /\ chan[i] \in Channel
      BY <2>3 DEF OpenOn, TypeOK
    <3>2. chan[i].rx \in Seq(Nat)
      BY <3>1 DEF Channel
    <3>3. \A ok \in BOOLEAN : Reassembled(chan[i].rx, t, c, ok) \in Seq(Nat)
      BY <1>1, <3>2 DEF Reassembled, NoBuf
    <3>4. CASE c.of = 1
      <4>1. delivered' = Append(delivered, <<t>>) /\ UNCHANGED chan
        BY <1>4, <2>3, <3>4 DEF ProcessDataFragment
      <4>2. <<t>> \in Seq(Nat)
        BY <1>1
      <4>. QED
        BY <1>2, <1>4, <4>1, <4>2 DEF TypeOK
    <3>5. CASE c.of # 1
      <4>1. PICK ok \in AllocOutcomes :
              LET rx == Reassembled(chan[i].rx, t, c, ok)
                  whole == c.part = c.of /\ rx # NoBuf
              IN  /\ delivered' = IF whole THEN Append(delivered, rx) ELSE delivered
                  /\ chan' = [chan EXCEPT ![i].rx = IF whole THEN NoBuf ELSE rx]
        BY <1>4, <2>3, <3>5 DEF ProcessDataFragment
      <4>2. Reassembled(chan[i].rx, t, c, ok) \in Seq(Nat)
        BY <3>3, ReceiverAssumption
      <4>. HIDE DEF i, c
      <4>3. \A rx \in Seq(Nat) : [chan EXCEPT ![i].rx = rx] \in [Slots -> Channel]
        BY <3>1 DEF TypeOK, Channel
      <4>4. NoBuf \in Seq(Nat)
        BY DEF NoBuf
      <4>. QED
        BY <1>2, <1>4, <4>1, <4>2, <4>3, <4>4 DEF TypeOK
    <3>. QED
      BY <3>4, <3>5
  <2>. QED
    BY <2>2, <2>3
<1>. QED
  BY <1>3, <1>4 DEF DeliverChunk

LEMMA HeldFinite ==
  ASSUME TypeOK
  PROVE  IsFiniteSet(reorder)
<1>1. Len(peerOut) \in Int /\ 1 \in Int
  BY DEF TypeOK
<1>2. IsFiniteSet(1..Len(peerOut))
  BY <1>1, FS_Interval
<1>3. reorder \subseteq 1..Len(peerOut)
  BY DEF TypeOK
<1>. QED
  BY <1>2, <1>3, FS_Subset

\* The reorder pool never exceeds its slots.
LEMMA BufferedFits ==
  ASSUME TypeOK, NEW t \in DOMAIN peerOut
  PROVE  /\ Buffered(t) \in SUBSET (1..Len(peerOut))
         /\ Cardinality(Buffered(t)) <= ReorderSlots
<1>1. t \in 1..Len(peerOut) /\ Len(peerOut) \in Nat
  BY DEF TypeOK
<1>2. IsFiniteSet(reorder)
  BY <1>1, HeldFinite
<1>3. Cardinality(reorder) \in Nat
  BY <1>2, FS_CardinalityType
<1>4. Cardinality(reorder \cup {t}) =
        IF t \in reorder THEN Cardinality(reorder) ELSE Cardinality(reorder) + 1
  BY <1>2, FS_AddElement, Zenon
<1>5. Cardinality(reorder \cup {t}) <= Cardinality(reorder) + 1
  BY <1>3, <1>4
<1>6. Cardinality(reorder) < ReorderSlots
        => Cardinality(reorder \cup {t}) <= ReorderSlots
  BY <1>3, <1>4, ReceiverAssumption
<1>7. reorder \cup {t} \in SUBSET (1..Len(peerOut)) /\ Cardinality(reorder) <= ReorderSlots
  BY <1>1 DEF TypeOK
<1>. QED
  BY <1>6, <1>7 DEF Buffered, TypeOK

\* Removing chunks from the pool keeps it within its slots.
LEMMA FewerHeldFits ==
  ASSUME TypeOK, NEW S \in SUBSET reorder
  PROVE  /\ S \in SUBSET (1..Len(peerOut))
         /\ Cardinality(S) <= ReorderSlots
<1>1. IsFiniteSet(reorder)
  BY HeldFinite
<1>2. Cardinality(S) <= Cardinality(reorder) /\ Cardinality(S) \in Nat
  BY <1>1, FS_Subset, FS_CardinalityType
<1>3. Cardinality(reorder) \in Nat
  BY <1>1, FS_CardinalityType
<1>. QED
  BY <1>2, <1>3, ReceiverAssumption DEF TypeOK

\* What a SACK reports was sent.
LEMMA SackCoverTyped ==
  ASSUME TypeOK, NEW cum \in 0..Len(peerOut), NEW held \in SUBSET (1..Len(peerOut))
  PROVE  SackCover(cum, held) \in SUBSET (1..Len(peerOut))
BY DEF SackCover, TypeOK

\* What a fresh association starts from.
LEMMA EmptyTyped ==
  /\ <<>> \in Seq(Chunk) /\ Len(<<>>) = 0
  /\ <<>> \in Seq(Nat) /\ <<>> \in Seq(Seq(Nat))
  /\ Cardinality({}) = 0
BY EmptySeq, FS_EmptySet

LEMMA NoChannelsTyped == NoChannels \in [Slots -> Channel]
<1>1. (CHOOSE s \in Streams : TRUE) \in Streams
  BY ReceiverAssumption
<1>2. FreeSlot(CHOOSE s \in Streams : TRUE) \in Channel
  BY <1>1, EmptyTyped DEF FreeSlot, Channel, NoBuf
<1>. QED
  BY <1>2 DEF NoChannels

LEMMA TypeInit == Init => TypeOK
<1>. SUFFICES ASSUME Init PROVE TypeOK
  OBVIOUS
<1>1. chan \in [Slots -> Channel]
  BY NoChannelsTyped DEF Init
<1>2. peerOut \in Seq(Chunk) /\ log \in Seq(Nat) /\ delivered \in Seq(Seq(Nat))
  BY EmptyTyped DEF Init
<1>3. peerFwd \in 0..Len(peerOut) /\ peerTsn \in 0..Len(peerOut)
  BY EmptyTyped DEF Init
<1>4. Cardinality(reorder) <= ReorderSlots
  BY EmptyTyped, ReceiverAssumption DEF Init
<1>. QED
  BY <1>1, <1>2, <1>3, <1>4 DEF Init, TypeOK

\* Every step keeps the types: one case per action.
LEMMA TypeStep ==
  ASSUME TypeOK, [Next]_vars
  PROVE  TypeOK'
<1>. USE DEF peerVars, assocVars, histVars
<1>0. Len(peerOut) \in Nat /\ DOMAIN peerOut = 1..Len(peerOut)
  BY DEF TypeOK
<1>1. ASSUME NEW s \in Streams, PeerOpen(s)
      PROVE  TypeOK'
  <2>1. OpenChunk(s) \in Chunk
    BY DEF OpenChunk, Chunk
  <2>2. peerOut' \in Seq(Chunk) /\ Len(peerOut') = Len(peerOut) + 1
    BY <1>1, <2>1 DEF PeerOpen, TypeOK
  <2>. QED
    BY <1>0, <1>1, <2>2 DEF PeerOpen, TypeOK
<1>2. ASSUME NEW s \in Streams, NEW n \in 1..(MaxFrags + 1), PeerSend(s, n)
      PROVE  TypeOK'
  <2>. DEFINE frags == [i \in 1..n |-> DataChunk(s, i, n)]
  <2>1. \A i \in 1..n : DataChunk(s, i, n) \in Chunk
    BY ReceiverAssumption DEF DataChunk, Chunk
  <2>2. frags \in Seq(Chunk) /\ Len(frags) = n
    BY <2>1, ReceiverAssumption
  <2>3. peerOut' = peerOut \o frags
    BY <1>2 DEF PeerSend
  <2>. HIDE DEF frags
  <2>4. peerOut' \in Seq(Chunk) /\ Len(peerOut') = Len(peerOut) + n
    BY <2>2, <2>3, ConcatProperties DEF TypeOK
  <2>. QED
    BY <1>0, <1>2, <2>4, ReceiverAssumption DEF PeerSend, TypeOK
<1>3. ASSUME NEW s \in Streams, PeerClose(s)
      PROVE  TypeOK'
  BY <1>3 DEF PeerClose, TypeOK
<1>4. ASSUME NEW n \in 1..Len(peerOut), PeerAbandon(n)
      PROVE  TypeOK'
  BY <1>0, <1>4 DEF PeerAbandon, TypeOK
<1>5. CASE RecvCookieEcho
  BY <1>0, <1>5 DEF RecvCookieEcho, TypeOK
<1>6. ASSUME NEW t \in 1..Len(peerOut), RecvDuplicate(t)
      PROVE  TypeOK'
  <2>1. SackCover(peerTsn, reorder) \in SUBSET (1..Len(peerOut))
    BY SackCoverTyped DEF TypeOK
  <2>. QED
    BY <1>6, <2>1 DEF RecvDuplicate, TypeOK
<1>7. ASSUME NEW t \in 1..Len(peerOut), RecvNext(t)
      PROVE  TypeOK'
  <2>1. DeliverChunk(t) /\ t \in DOMAIN peerOut
    BY <1>0, <1>7 DEF RecvNext
  <2>2. /\ chan' \in [Slots -> Channel] /\ dcepOut' \in BOOLEAN
        /\ log' \in Seq(Nat) /\ delivered' \in Seq(Seq(Nat))
    BY <2>1, DeliverTyped
  <2>. QED
    BY <1>0, <1>7, <2>2 DEF RecvNext, TypeOK
<1>8. ASSUME NEW t \in 1..Len(peerOut), RecvAhead(t)
      PROVE  TypeOK'
  <2>1. /\ reorder' \in SUBSET (1..Len(peerOut))
        /\ Cardinality(reorder') <= ReorderSlots
    BY <1>0, <1>8, BufferedFits DEF RecvAhead
  <2>2. SackCover(peerTsn, reorder') \in SUBSET (1..Len(peerOut))
    BY <2>1, SackCoverTyped DEF TypeOK
  <2>. QED
    BY <1>8, <2>1, <2>2 DEF RecvAhead, TypeOK
<1>9. ASSUME NEW n \in 1..peerFwd, RecvForwardTsn(n)
      PROVE  TypeOK'
  <2>1. reorder' \in SUBSET reorder
    BY <1>9 DEF RecvForwardTsn, BeyondForward
  <2>2. /\ reorder' \in SUBSET (1..Len(peerOut))
        /\ Cardinality(reorder') <= ReorderSlots
    BY <2>1, FewerHeldFits
  <2>. QED
    BY <1>0, <1>9, <2>2 DEF RecvForwardTsn, TypeOK
<1>10. ASSUME NEW s \in Streams, RecvReconfig(s)
       PROVE  TypeOK'
  <2>1. \A c \in Channel : [c EXCEPT !.open = FALSE, !.rx = NoBuf] \in Channel
    BY EmptyTyped DEF Channel, NoBuf
  <2>2. chan' \in [Slots -> Channel]
    BY <1>10, <2>1 DEF RecvReconfig, TypeOK
  <2>. QED
    BY <1>10, <2>2 DEF RecvReconfig, TypeOK
<1>11. CASE DrainOne
  <2>1. DeliverChunk(peerTsn + 1) /\ peerTsn + 1 \in DOMAIN peerOut
    BY <1>0, <1>11 DEF DrainOne, TypeOK
  <2>2. /\ chan' \in [Slots -> Channel] /\ dcepOut' \in BOOLEAN
        /\ log' \in Seq(Nat) /\ delivered' \in Seq(Seq(Nat))
    BY <2>1, DeliverTyped
  <2>3. reorder' \in SUBSET reorder
    BY <1>11 DEF DrainOne
  <2>4. /\ reorder' \in SUBSET (1..Len(peerOut))
        /\ Cardinality(reorder') <= ReorderSlots
    BY <2>3, FewerHeldFits
  <2>. QED
    BY <1>0, <1>11, <2>1, <2>2, <2>4 DEF DrainOne, TypeOK
<1>12. CASE DrainEnd
  <2>1. SackCover(peerTsn, reorder) \in SUBSET (1..Len(peerOut))
    BY SackCoverTyped DEF TypeOK
  <2>. QED
    BY <1>12, <2>1 DEF DrainEnd, TypeOK
<1>13. ASSUME NEW s \in Streams, StreamReset(s)
       PROVE  TypeOK'
  <2>1. chan' \in [Slots -> Channel]
    BY <1>13 DEF StreamReset, TypeOK, Channel
  <2>. QED
    BY <1>13, <2>1 DEF StreamReset, TypeOK
<1>14. CASE Shutdown
  <2>1. chan' \in [Slots -> Channel]
    BY <1>14, NoChannelsTyped DEF Shutdown
  <2>2. peerOut' \in Seq(Chunk) /\ log' \in Seq(Nat) /\ delivered' \in Seq(Seq(Nat))
    BY <1>14, EmptyTyped DEF Shutdown
  <2>3. peerFwd' \in 0..Len(peerOut') /\ peerTsn' \in 0..Len(peerOut')
    BY <1>14, EmptyTyped DEF Shutdown
  <2>4. Cardinality(reorder') <= ReorderSlots
    BY <1>14, EmptyTyped, ReceiverAssumption DEF Shutdown
  <2>. QED
    BY <1>14, <2>1, <2>2, <2>3, <2>4 DEF Shutdown, TypeOK
<1>15. CASE UNCHANGED vars
  BY <1>15 DEF vars, TypeOK
<1>. QED
  BY <1>1, <1>2, <1>3, <1>4, <1>5, <1>6, <1>7, <1>8, <1>9, <1>10, <1>11,
     <1>12, <1>13, <1>14, <1>15 DEF Next, PeerStep, Arrival

\* Every reachable state is well typed and the reorder pool within its slots.
THEOREM TypeCorrect == Spec => []TypeOK
<1>1. Init => TypeOK
  BY TypeInit
<1>2. TypeOK /\ [Next]_vars => TypeOK'
  BY TypeStep
<1>. QED
  BY <1>1, <1>2, PTL DEF Spec

-----------------------------------------------------------------------------
(* Order and acknowledgement.  A COOKIE-ECHO that arrives again rewinds the *)
(* cumulative point, so these theorems are about associations in which none *)
(* does (~LateCookie).                                                      *)

\* Nothing at or below the cumulative point stays in the reorder buffer.
HeldAhead == \A t \in reorder : t > peerTsn

\* Before the first COOKIE-ECHO the cumulative point is at its start, and no
\* packet is being worked on.
UntouchedBeforeCookie == ~established => peerTsn = 0 /\ phase = "idle"

OrderInv ==
  /\ TypeOK
  /\ InOrderOnce
  /\ NoRenege
  /\ NothingReadyHeld
  /\ HeldAhead
  /\ UntouchedBeforeCookie

LEMMA OrderInit == Init => OrderInv
<1>. SUFFICES ASSUME Init PROVE OrderInv
  OBVIOUS
<1>1. TypeOK
  BY TypeInit
<1>2. InOrderOnce
  BY DEF Init, InOrderOnce
<1>. QED
  BY <1>1, <1>2 DEF Init, OrderInv, NoRenege, NothingReadyHeld, HeldAhead,
     UntouchedBeforeCookie

\* Delivering the chunk after the cumulative point keeps the log in order.
LEMMA DeliverInOrder ==
  ASSUME TypeOK, InOrderOnce, NEW t \in DOMAIN peerOut, t = peerTsn + 1,
         log' = Append(log, t), peerTsn' = t, UNCHANGED peerFwd
  PROVE  InOrderOnce'
<1>1. log \in Seq(Nat) /\ Len(log) \in Nat /\ t \in Nat /\ peerTsn \in Nat
  BY DEF TypeOK
<1>2. /\ Len(log') = Len(log) + 1
      /\ DOMAIN log' = 1..(Len(log) + 1)
      /\ \A i \in 1..Len(log) : log'[i] = log[i]
      /\ log'[Len(log) + 1] = t
  BY <1>1
<1>3. \A i \in DOMAIN log : i \in 1..Len(log) /\ log[i] \in Nat /\ log[i] < t
  BY <1>1 DEF InOrderOnce
<1>4. \A i, j \in DOMAIN log' : i < j => log'[i] < log'[j]
  <2>. SUFFICES ASSUME NEW i \in DOMAIN log', NEW j \in DOMAIN log', i < j
                PROVE  log'[i] < log'[j]
    OBVIOUS
  <2>1. i \in 1..Len(log)
    BY <1>1, <1>2
  <2>2. CASE j = Len(log) + 1
    BY <1>1, <1>2, <1>3, <2>1, <2>2
  <2>3. CASE j \in 1..Len(log)
    BY <1>1, <1>2, <2>1, <2>3 DEF InOrderOnce
  <2>. QED
    BY <1>1, <1>2, <2>2, <2>3
<1>5. \A i \in DOMAIN log' : log'[i] <= peerTsn'
  BY <1>1, <1>2, <1>3
<1>6. \A u \in 1..peerTsn' : u > peerFwd' => \E i \in DOMAIN log' : log'[i] = u
  <2>. SUFFICES ASSUME NEW u \in 1..peerTsn', u > peerFwd'
                PROVE  \E i \in DOMAIN log' : log'[i] = u
    OBVIOUS
  <2>1. CASE u = t
    BY <1>1, <1>2, <2>1
  <2>2. CASE u \in 1..peerTsn
    <3>1. PICK i \in DOMAIN log : log[i] = u
      BY <2>2 DEF InOrderOnce
    <3>2. i \in 1..Len(log) /\ i \in DOMAIN log' /\ log'[i] = log[i]
      BY <1>1, <1>2, <1>3
    <3>. QED
      BY <3>1, <3>2
  <2>. QED
    BY <1>1, <2>1, <2>2
<1>. QED
  BY <1>4, <1>5, <1>6 DEF InOrderOnce

\* Every step keeps the order and what was acknowledged: one case per action.
LEMMA OrderStep ==
  ASSUME ~LateCookie, OrderInv, [Next]_vars
  PROVE  OrderInv'
<1>. USE DEF peerVars, assocVars, histVars
<1>0. TypeOK' /\ TypeOK
  BY TypeStep DEF OrderInv
<1>a. /\ Len(peerOut) \in Nat /\ DOMAIN peerOut = 1..Len(peerOut)
      /\ peerTsn \in Nat /\ peerTsn' \in Nat /\ peerFwd \in Nat /\ peerFwd' \in Nat
      /\ reorder \subseteq Nat /\ reorder' \subseteq Nat
  BY <1>0 DEF TypeOK
<1>1. CASE PeerStep
  <2>1. UNCHANGED <<assocVars, histVars>> /\ peerFwd' >= peerFwd
    BY <1>1, <1>a DEF PeerStep, PeerOpen, PeerSend, PeerClose, PeerAbandon
  <2>2. InOrderOnce'
    BY <1>a, <2>1 DEF OrderInv, InOrderOnce
  <2>. QED
    BY <1>0, <2>1, <2>2 DEF OrderInv, NoRenege, SackCover, NothingReadyHeld,
       HeldAhead, UntouchedBeforeCookie
<1>2. CASE RecvCookieEcho
  <2>1. peerTsn' = peerTsn /\ UNCHANGED <<peerVars, reorder, phase, histVars>>
    BY <1>2 DEF RecvCookieEcho, OrderInv, UntouchedBeforeCookie
  <2>2. InOrderOnce'
    BY <2>1 DEF OrderInv, InOrderOnce
  <2>3. established'
    BY <1>2 DEF RecvCookieEcho
  <2>. QED
    BY <1>0, <2>1, <2>2, <2>3 DEF OrderInv, NoRenege, SackCover,
       NothingReadyHeld, HeldAhead, UntouchedBeforeCookie
<1>3. ASSUME NEW t \in 1..Len(peerOut), RecvDuplicate(t)
      PROVE  OrderInv'
  <2>1. InOrderOnce'
    BY <1>3 DEF RecvDuplicate, OrderInv, InOrderOnce
  <2>. QED
    BY <1>0, <1>3, <2>1 DEF RecvDuplicate, OrderInv, NoRenege, SackCover,
       NothingReadyHeld, HeldAhead, UntouchedBeforeCookie
<1>4. ASSUME NEW t \in 1..Len(peerOut), RecvNext(t)
      PROVE  OrderInv'
  <2>1. /\ t \in DOMAIN peerOut /\ t = peerTsn + 1 /\ peerTsn' = t
        /\ log' = Append(log, t) /\ UNCHANGED peerFwd
    BY <1>4, <1>a DEF RecvNext, IsNext, DeliverChunk
  <2>2. InOrderOnce'
    BY <1>0, <2>1, DeliverInOrder DEF OrderInv
  <2>3. HeldAhead'
    <3>1. phase = "idle" /\ UNCHANGED reorder
      BY <1>4 DEF RecvNext
    <3>. QED
      BY <1>a, <2>1, <3>1 DEF OrderInv, NothingReadyHeld, HeldAhead
  <2>4. NoRenege'
    BY <1>4, <1>a, <2>1 DEF RecvNext, OrderInv, NoRenege, SackCover
  <2>. QED
    BY <1>0, <1>4, <2>2, <2>3, <2>4 DEF RecvNext, OrderInv, NothingReadyHeld,
       UntouchedBeforeCookie
<1>5. ASSUME NEW t \in 1..Len(peerOut), RecvAhead(t)
      PROVE  OrderInv'
  <2>1. t > peerTsn + 1 /\ reorder' \subseteq reorder \cup {t} /\ reorder \subseteq reorder'
    BY <1>5, <1>a DEF RecvAhead, IsDuplicate, IsNext, Buffered
  <2>2. InOrderOnce'
    BY <1>5 DEF RecvAhead, OrderInv, InOrderOnce
  <2>3. HeldAhead' /\ NothingReadyHeld'
    BY <1>5, <1>a, <2>1 DEF RecvAhead, OrderInv, HeldAhead, NothingReadyHeld
  <2>4. NoRenege'
    BY <1>5, <2>1 DEF RecvAhead, OrderInv, NoRenege, SackCover
  <2>. QED
    BY <1>0, <1>5, <2>2, <2>3, <2>4 DEF RecvAhead, OrderInv, UntouchedBeforeCookie
<1>6. ASSUME NEW n \in 1..peerFwd, RecvForwardTsn(n)
      PROVE  OrderInv'
  <2>1. /\ n \in Nat /\ n <= peerFwd /\ peerTsn' >= peerTsn
        /\ peerTsn' = peerTsn \/ peerTsn' = n
        /\ phase' = "forward" /\ established'
        /\ UNCHANGED <<peerFwd, log, sacked>>
    BY <1>6, <1>a DEF RecvForwardTsn
  <2>2. InOrderOnce'
    <3>1. \A i \in DOMAIN log : log[i] \in Nat
      BY <1>0 DEF TypeOK
    <3>2. \A u \in 1..peerTsn' : u > peerFwd => u \in 1..peerTsn
      BY <1>a, <2>1
    <3>3. \A i \in DOMAIN log : log[i] <= peerTsn'
      BY <1>a, <2>1, <3>1 DEF OrderInv, InOrderOnce
    <3>. QED
      BY <2>1, <3>2, <3>3 DEF OrderInv, InOrderOnce
  <2>3. HeldAhead'
    BY <1>6, <1>a DEF RecvForwardTsn, BeyondForward, OrderInv, HeldAhead
  <2>4. NoRenege'
    <3>. SUFFICES ASSUME NEW u \in sacked
                  PROVE  u \in 1..peerTsn' \/ u \in reorder'
      BY <2>1 DEF NoRenege, SackCover
    <3>1. u \in 1..peerTsn \/ u \in reorder
      BY DEF OrderInv, NoRenege, SackCover
    <3>2. u \in Nat /\ u >= 1
      BY <1>0 DEF TypeOK
    <3>. QED
      BY <1>6, <1>a, <2>1, <3>1, <3>2 DEF RecvForwardTsn, BeyondForward
  <2>. QED
    BY <1>0, <2>1, <2>2, <2>3, <2>4 DEF OrderInv, NothingReadyHeld, UntouchedBeforeCookie
<1>7. CASE DrainOne
  <2>1. /\ peerTsn + 1 \in DOMAIN peerOut /\ peerTsn' = peerTsn + 1
        /\ reorder' = reorder \ {peerTsn + 1} /\ phase' # "idle"
        /\ log' = Append(log, peerTsn + 1) /\ UNCHANGED <<peerFwd, sacked, established>>
    BY <1>7, <1>0, <1>a DEF DrainOne, DeliverChunk, TypeOK
  <2>2. InOrderOnce'
    BY <1>0, <2>1, DeliverInOrder DEF OrderInv
  <2>3. HeldAhead'
    BY <1>a, <2>1 DEF OrderInv, HeldAhead
  <2>4. NoRenege'
    BY <1>a, <2>1 DEF OrderInv, NoRenege, SackCover
  <2>5. UntouchedBeforeCookie'
    <3>1. established
      BY <1>7 DEF DrainOne, OrderInv, UntouchedBeforeCookie
    <3>. QED
      BY <2>1, <3>1 DEF UntouchedBeforeCookie
  <2>. QED
    BY <1>0, <2>1, <2>2, <2>3, <2>4, <2>5 DEF OrderInv, NothingReadyHeld
<1>8. CASE DrainEnd
  <2>1. InOrderOnce'
    BY <1>8 DEF DrainEnd, OrderInv, InOrderOnce
  <2>2. NothingReadyHeld'
    BY <1>8, <1>a DEF DrainEnd, OrderInv, NothingReadyHeld, HeldAhead
  <2>3. NoRenege'
    BY <1>8 DEF DrainEnd, OrderInv, NoRenege, SackCover
  <2>. QED
    BY <1>0, <1>8, <2>1, <2>2, <2>3 DEF DrainEnd, OrderInv, HeldAhead, UntouchedBeforeCookie
<1>9. ASSUME NEW s \in Streams, RecvReconfig(s) \/ StreamReset(s)
      PROVE  OrderInv'
  <2>1. UNCHANGED <<peerFwd, peerTsn, reorder, phase, established, log, sacked>>
    BY <1>9 DEF RecvReconfig, StreamReset
  <2>2. InOrderOnce'
    BY <2>1 DEF OrderInv, InOrderOnce
  <2>. QED
    BY <1>0, <2>1, <2>2 DEF OrderInv, NoRenege, SackCover, NothingReadyHeld,
       HeldAhead, UntouchedBeforeCookie
<1>10. CASE Shutdown
  <2>1. InOrderOnce'
    BY <1>10 DEF Shutdown, InOrderOnce
  <2>. QED
    BY <1>0, <1>10, <2>1 DEF Shutdown, OrderInv, NoRenege, NothingReadyHeld,
       HeldAhead, UntouchedBeforeCookie
<1>11. CASE UNCHANGED vars
  <2>1. InOrderOnce'
    BY <1>11 DEF vars, OrderInv, InOrderOnce
  <2>. QED
    BY <1>0, <1>11, <2>1 DEF vars, OrderInv, NoRenege, SackCover,
       NothingReadyHeld, HeldAhead, UntouchedBeforeCookie
<1>. QED
  BY <1>1, <1>2, <1>3, <1>4, <1>5, <1>6, <1>7, <1>8, <1>9, <1>10, <1>11
     DEF Next, Arrival

\* Delivery "strictly in TSN order": nothing twice, nothing early, and only
\* what the peer gave up is missing.
THEOREM DeliveredInOrder == ASSUME ~LateCookie PROVE Spec => []InOrderOnce
<1>1. Init => OrderInv
  BY OrderInit
<1>2. OrderInv /\ [Next]_vars => OrderInv'
  BY OrderStep
<1>3. OrderInv => InOrderOnce
  BY DEF OrderInv
<1>. QED
  BY <1>1, <1>2, <1>3, PTL DEF Spec

\* What a SACK has reported is never dropped again.
THEOREM SackedIsKept == ASSUME ~LateCookie PROVE Spec => []NoRenege
<1>1. Init => OrderInv
  BY OrderInit
<1>2. OrderInv /\ [Next]_vars => OrderInv'
  BY OrderStep
<1>3. OrderInv => NoRenege
  BY DEF OrderInv
<1>. QED
  BY <1>1, <1>2, <1>3, PTL DEF Spec

\* Between packets the reorder buffer holds nothing deliverable or passed.
THEOREM ReorderDrained == ASSUME ~LateCookie PROVE Spec => []NothingReadyHeld
<1>1. Init => OrderInv
  BY OrderInit
<1>2. OrderInv /\ [Next]_vars => OrderInv'
  BY OrderStep
<1>3. OrderInv => NothingReadyHeld
  BY DEF OrderInv
<1>. QED
  BY <1>1, <1>2, <1>3, PTL DEF Spec

-----------------------------------------------------------------------------
(* Refinement.                                                             *)

\* Every step of the receiver is a step of TsnOrder or leaves it unchanged.
LEMMA OrderStepRefines ==
  ASSUME ~LateCookie, OrderInv, OrderInv', [Next]_vars
  PROVE  [Order!OrdNext]_(Order!ordVars)
<1>. USE DEF peerVars, assocVars, histVars, Order!ordVars
<1>a. /\ Len(peerOut) \in Nat /\ DOMAIN peerOut = 1..Len(peerOut)
      /\ peerTsn \in Nat /\ peerFwd \in Nat /\ peerTsn <= Len(peerOut)
      /\ reorder \subseteq 1..Len(peerOut)
  BY DEF OrderInv, TypeOK
<1>1. ASSUME NEW s \in Streams, PeerOpen(s)
      PROVE  Order!OrdSend
  <2>1. Len(peerOut') = Len(peerOut) + 1
    BY <1>1 DEF PeerOpen, OrderInv, TypeOK
  <2>. QED
    BY <1>1, <1>a, <2>1 DEF PeerOpen, Order!OrdSend
<1>2. ASSUME NEW s \in Streams, NEW n \in 1..(MaxFrags + 1), PeerSend(s, n)
      PROVE  Order!OrdSend
  <2>. DEFINE frags == [i \in 1..n |-> DataChunk(s, i, n)]
  <2>1. \A i \in 1..n : DataChunk(s, i, n) \in Chunk
    BY ReceiverAssumption DEF DataChunk, Chunk
  <2>2. frags \in Seq(Chunk) /\ Len(frags) = n
    BY <2>1, ReceiverAssumption
  <2>3. peerOut' = peerOut \o frags
    BY <1>2 DEF PeerSend
  <2>. HIDE DEF frags
  <2>4. Len(peerOut') = Len(peerOut) + n
    BY <2>2, <2>3, ConcatProperties DEF OrderInv, TypeOK
  <2>. QED
    BY <1>2, <1>a, <2>4, ReceiverAssumption DEF PeerSend, Order!OrdSend
<1>3. ASSUME NEW n \in 1..Len(peerOut), PeerAbandon(n)
      PROVE  Order!OrdAbandon
  BY <1>3, <1>a DEF PeerAbandon, Order!OrdAbandon
<1>4. CASE RecvCookieEcho
  BY <1>4 DEF RecvCookieEcho, OrderInv, UntouchedBeforeCookie
<1>5. ASSUME NEW t \in 1..Len(peerOut), RecvNext(t)
      PROVE  Order!OrdDeliver
  BY <1>5, <1>a DEF RecvNext, IsNext, DeliverChunk, Order!OrdDeliver
<1>6. CASE DrainOne
  <2>1. Order!OrdDeliver
    BY <1>6, <1>a DEF DrainOne, DeliverChunk, Order!OrdDeliver
  <2>. QED
    BY <2>1 DEF Order!OrdNext
<1>7. ASSUME NEW n \in 1..peerFwd, RecvForwardTsn(n)
      PROVE  Order!OrdSkip \/ UNCHANGED <<Len(peerOut), peerFwd, peerTsn, log>>
  BY <1>7, <1>a DEF RecvForwardTsn, Order!OrdSkip
<1>8. CASE Shutdown
  <2>1. Order!OrdRestart
    BY <1>8, EmptyTyped DEF Shutdown, Order!OrdRestart
  <2>. QED
    BY <2>1 DEF Order!OrdNext
<1>9. ASSUME NEW t \in 1..Len(peerOut), RecvDuplicate(t) \/ RecvAhead(t)
      PROVE  UNCHANGED <<Len(peerOut), peerFwd, peerTsn, log>>
  BY <1>9 DEF RecvDuplicate, RecvAhead
<1>10. ASSUME NEW s \in Streams, PeerClose(s) \/ RecvReconfig(s) \/ StreamReset(s)
       PROVE  UNCHANGED <<Len(peerOut), peerFwd, peerTsn, log>>
  BY <1>10 DEF PeerClose, RecvReconfig, StreamReset
<1>11. CASE DrainEnd \/ UNCHANGED vars
  BY <1>11 DEF DrainEnd, vars
<1>. QED
  BY <1>1, <1>2, <1>3, <1>4, <1>5, <1>6, <1>7, <1>8, <1>9, <1>10, <1>11
     DEF Next, PeerStep, Arrival, Order!OrdNext

\* The receiver implements the abstract promise of in-order, at-most-once
\* delivery with only abandoned chunks passed over.
THEOREM ImplementsTsnOrder == ASSUME ~LateCookie PROVE Spec => InOrderDelivery
<1>1. Init => OrderInv
  BY OrderInit
<1>2. OrderInv /\ [Next]_vars => OrderInv'
  BY OrderStep
<1>3. Init => Order!OrdInit
  BY EmptyTyped DEF Init, Order!OrdInit
<1>4. OrderInv /\ OrderInv' /\ [Next]_vars => [Order!OrdNext]_(Order!ordVars)
  BY OrderStepRefines
<1>. QED
  BY <1>1, <1>2, <1>3, <1>4, PTL DEF Spec, InOrderDelivery, Order!OrdSpec

-----------------------------------------------------------------------------
(* Reassembly.  These facts do not need ~LateCookie.                       *)

\* The peer sends the fragments of a message one after the other.
Grouped ==
  \A t \in DOMAIN peerOut :
    LET c == peerOut[t]
    IN  /\ c.part <= c.of /\ (c.kind = "open" => c.of = 1)
        /\ c.part > 1 => /\ t > 1 /\ peerOut[t - 1].sid = c.sid
                         /\ peerOut[t - 1].of = c.of /\ peerOut[t - 1].part = c.part - 1

\* A stream has at most one open channel.
OneOpen ==
  \A i, j \in Slots :
    chan[i].open /\ chan[j].open /\ chan[i].sid = chan[j].sid => i = j

\* m holds the first fragments of a message of n fragments on stream s.
Start(m, s, n) ==
  \A i \in DOMAIN m : /\ m[i] \in DOMAIN peerOut /\ m[i] = m[1] + i - 1
                      /\ peerOut[m[i]] = DataChunk(s, i, n)

\* An open channel holds the start of a message, and the chunk the cumulative point
\* waits for goes on with it or begins another message.
Held(i) ==
  LET rx == chan[i].rx
      t == peerTsn + 1
  IN  /\ \E n \in Nat : Start(rx, chan[i].sid, n)
      /\ \/ rx[Len(rx)] = peerTsn
         \/ t \in DOMAIN peerOut /\ peerOut[t].sid = chan[i].sid => peerOut[t].part = 1
Assembling == \A i \in Slots : chan[i].open /\ chan[i].rx # NoBuf => Held(i)

\* What was handed on is a message from its first fragment to its last.
Whole(m) == m # <<>> /\ \E s \in Streams : Start(m, s, Len(m))
Assembled == \A k \in DOMAIN delivered : Whole(delivered[k])

WholeInv == TypeOK /\ Grouped /\ OneOpen /\ Assembling /\ Assembled

LEMMA ChunkIs ==
  ASSUME NEW c \in Chunk, c.kind = "data"
  PROVE  /\ c = DataChunk(c.sid, c.part, c.of) /\ c.sid \in Streams
         /\ c.part \in Nat \ {0} /\ c.of \in Nat \ {0}
BY DEF Chunk, DataChunk

\* After the last fragment of a message, and on another stream, a message begins.
LEMMA NextBegins ==
  ASSUME TypeOK, Grouped, NEW t \in DOMAIN peerOut, NEW s,
         peerOut[t].sid # s \/ peerOut[t].part = peerOut[t].of,
         NEW u \in DOMAIN peerOut, u = t + 1, peerOut[u].sid = s
  PROVE  peerOut[u].part = 1
<1>1. peerOut[t] \in Chunk /\ peerOut[u] \in Chunk /\ t \in Nat /\ u - 1 = t
  BY DEF TypeOK
<1>2. peerOut[t].part \in Nat /\ peerOut[u].part \in Nat \ {0} /\ peerOut[u].of \in Nat
  BY <1>1 DEF Chunk
<1>3. peerOut[u].part <= peerOut[u].of
  BY DEF Grouped
<1>4. peerOut[u].part > 1 => /\ peerOut[t].sid = s /\ peerOut[t].of = peerOut[u].of
                             /\ peerOut[t].part = peerOut[u].part - 1
  BY <1>1 DEF Grouped
<1>. QED
  BY <1>2, <1>3, <1>4

LEMMA OneChunk ==
  ASSUME NEW t \in Nat
  PROVE  <<t>> \in Seq(Nat) /\ Len(<<t>>) = 1 /\ DOMAIN <<t>> = {1} /\ <<t>>[1] = t
OBVIOUS

LEMMA OneMore ==
  \A q \in Seq(Nat), t \in Nat :
    /\ Append(q, t) \in Seq(Nat) /\ Len(Append(q, t)) = Len(q) + 1
    /\ DOMAIN Append(q, t) = 1..(Len(q) + 1) /\ Append(q, t)[Len(q) + 1] = t
    /\ \A k \in 1..Len(q) : Append(q, t)[k] = q[k]
OBVIOUS

\* The buffer after a fragment is the start of that fragment's message.
LEMMA ReassembledStart ==
  ASSUME TypeOK, Grouped, NEW i \in Slots, chan[i].rx # NoBuf => Held(i),
         NEW t \in DOMAIN peerOut, t = peerTsn + 1, NEW c, c = peerOut[t],
         c.kind = "data", c.sid = chan[i].sid, NEW ok \in BOOLEAN,
         NEW r, r = Reassembled(chan[i].rx, t, c, ok), r # NoBuf
  PROVE  r \in Seq(Nat) /\ Len(r) = c.part /\ r[Len(r)] = t /\ Start(r, c.sid, c.of)
<1> DEFINE rx == chan[i].rx
<1>1. rx \in Seq(Nat) /\ c \in Chunk /\ t \in Nat /\ peerTsn \in Nat
  BY DEF TypeOK, Channel
<1>2. c = DataChunk(c.sid, c.part, c.of) /\ c.part \in Nat \ {0}
  BY <1>1, ChunkIs
<1>3. CASE c.part = 1
  <2>1. r = <<t>>
    <3>1. r = NoBuf \/ r = Append(NoBuf, t)
      BY <1>3 DEF Reassembled
    <3>. QED
      BY <3>1 DEF NoBuf
  <2>2. r \in Seq(Nat) /\ Len(r) = 1 /\ DOMAIN r = {1} /\ r[1] = t
    BY <1>1, <2>1, OneChunk
  <2>3. peerOut[t] = DataChunk(c.sid, 1, c.of)
    BY <1>2, <1>3
  <2>4. t = t + 1 - 1
    BY <1>1
  <2>. QED
    BY <1>3, <2>2, <2>3, <2>4 DEF Start
<1>4. CASE c.part # 1
  <2>1. rx # NoBuf /\ r = Append(rx, t)
    BY <1>2, <1>4 DEF Reassembled
  <2> DEFINE n == Len(rx)
  <2>2. n \in Nat \ {0} /\ DOMAIN rx = 1..n /\ rx[n] \in Nat
    BY <1>1, <2>1 DEF NoBuf
  <2>3. PICK m \in Nat : Start(rx, c.sid, m)
    BY <2>1 DEF Held
  <2>4. rx[n] = peerTsn
    BY <1>4, <2>1 DEF Held
  <2>5. t - 1 = peerTsn /\ peerOut[t - 1] = DataChunk(c.sid, n, m) /\ peerTsn = rx[1] + n - 1
    <3>1. n \in DOMAIN rx /\ t - 1 = peerTsn
      BY <1>1, <2>2
    <3>2. rx[n] = rx[1] + n - 1 /\ peerOut[rx[n]] = DataChunk(c.sid, n, m)
      BY <2>3, <3>1 DEF Start
    <3>. QED
      BY <2>4, <3>1, <3>2
  <2>6. peerOut[t - 1].of = c.of /\ peerOut[t - 1].part = c.part - 1
    BY <1>2, <1>4 DEF Grouped
  <2>7. m = c.of /\ n = c.part - 1
    BY <2>5, <2>6 DEF DataChunk
  <2>8. /\ r \in Seq(Nat) /\ Len(r) = n + 1 /\ DOMAIN r = 1..(n + 1) /\ r[n + 1] = t
        /\ \A k \in 1..n : r[k] = rx[k]
    <3>1. rx \in Seq(Nat) /\ t \in Nat /\ r = Append(rx, t)
      BY <1>1, <2>1
    <3>2. PICK q \in Seq(Nat) : q = rx
      BY <3>1
    <3>3. /\ Append(q, t) \in Seq(Nat) /\ Len(Append(q, t)) = Len(q) + 1
          /\ DOMAIN Append(q, t) = 1..(Len(q) + 1) /\ Append(q, t)[Len(q) + 1] = t
          /\ \A k \in 1..Len(q) : Append(q, t)[k] = q[k]
      BY <3>1, OneMore, ZenonT(40)
    <3> HIDE DEF rx
    <3>. QED
      BY <3>1, <3>2, <3>3, ZenonT(40)
  <2>9. rx[1] \in Nat
    BY <1>1, <2>2
  <2> HIDE DEF n, rx
  <2>10. n + 1 = c.part
    BY <1>2, <2>2, <2>7
  <2>11. ASSUME NEW k \in DOMAIN r
         PROVE  /\ r[k] \in DOMAIN peerOut /\ r[k] = r[1] + k - 1
                /\ peerOut[r[k]] = DataChunk(c.sid, k, c.of)
    <3>1. r[1] = rx[1]
      BY <2>2, <2>8
    <3>2. CASE k \in 1..n
      BY <2>2, <2>3, <2>7, <2>8, <3>1, <3>2, ZenonT(40) DEF Start
    <3>3. CASE k = n + 1
      <4>1. t = rx[1] + (n + 1) - 1
        BY <1>1, <2>2, <2>5, <2>9
      <4>. QED
        BY <1>2, <2>8, <2>10, <3>1, <3>3, <4>1
    <3>. QED
      BY <2>2, <2>8, <3>2, <3>3
  <2>. QED
    BY <2>8, <2>10, <2>11 DEF Start
<1>. QED
  BY <1>3, <1>4

\* What was handed on stays whole while the peer only adds chunks.
LEMMA AssembledStays ==
  ASSUME Assembled, delivered' = delivered,
         \A t \in DOMAIN peerOut : t \in DOMAIN peerOut' /\ peerOut'[t] = peerOut[t]
  PROVE  Assembled'
<1> SUFFICES ASSUME NEW k \in DOMAIN delivered PROVE Whole(delivered[k])'
  BY DEF Assembled
<1>1. PICK s \in Streams : delivered[k] # <<>> /\ Start(delivered[k], s, Len(delivered[k]))
  BY DEF Assembled, Whole
<1>2. Start(delivered[k], s, Len(delivered[k]))'
  BY <1>1 DEF Start
<1>. QED
  BY <1>1, <1>2 DEF Whole

LEMMA HandedOn ==
  ASSUME Assembled, delivered \in Seq(Seq(Nat)), UNCHANGED peerOut,
         NEW m \in Seq(Nat), Whole(m)', delivered' = Append(delivered, m)
  PROVE  Assembled'
<1>1. /\ DOMAIN delivered' = 1..(Len(delivered) + 1) /\ DOMAIN delivered = 1..Len(delivered)
      /\ Len(delivered) \in Nat /\ delivered'[Len(delivered) + 1] = m
      /\ \A k \in 1..Len(delivered) : delivered'[k] = delivered[k]
  BY AppendProperties
<1>2. ASSUME NEW k \in 1..Len(delivered)
      PROVE  delivered[k] # <<>> /\ \E s \in Streams : Start(delivered[k], s, Len(delivered[k]))'
  <2>1. PICK s \in Streams : delivered[k] # <<>> /\ Start(delivered[k], s, Len(delivered[k]))
    BY <1>1 DEF Assembled, Whole
  <2>2. Start(delivered[k], s, Len(delivered[k]))'
    <3>1. delivered'[k] = delivered[k]
      BY <1>1
    <3>. QED
      BY <2>1, <3>1 DEF Start
  <2>. QED
    BY <2>1, <2>2
<1>3. ASSUME NEW k \in 1..(Len(delivered) + 1) PROVE Whole(delivered[k])'
  <2>1. CASE k = Len(delivered) + 1
    BY <1>1, <2>1, ZenonT(40) DEF Whole, Start
  <2>2. CASE k \in 1..Len(delivered)
    BY <1>1, <1>2, <2>2 DEF Whole, Start
  <2>. QED
    BY <1>1, <2>1, <2>2
<1>. QED
  BY <1>1, <1>3 DEF Assembled

\* One chunk delivered: the table and what was handed on.
LEMMA DeliverWhole ==
  ASSUME WholeInv, NEW t \in DOMAIN peerOut, t = peerTsn + 1, DeliverChunk(t),
         peerTsn' = t, UNCHANGED peerOut
  PROVE  OneOpen' /\ Assembling' /\ Assembled'
<1>0. TypeOK /\ Grouped /\ OneOpen /\ Assembling /\ Assembled
  BY DEF WholeInv
<1> DEFINE c == peerOut[t]
<1>1. c \in Chunk /\ t \in Nat /\ chan \in [Slots -> Channel] /\ delivered \in Seq(Seq(Nat))
  BY <1>0 DEF TypeOK
<1>2. ASSUME NEW j \in Slots, chan'[j] = chan[j], chan[j].open, chan[j].rx # NoBuf,
             chan[j].sid # c.sid \/ c.part = c.of
      PROVE  Held(j)'
  <2>1. PICK n \in Nat : Start(chan[j].rx, chan[j].sid, n)
    BY <1>0, <1>2 DEF Assembling, Held
  <2>2. Start(chan[j].rx, chan[j].sid, n)'
    BY <1>2, <2>1 DEF Start
  <2>3. t + 1 \in DOMAIN peerOut /\ peerOut[t + 1].sid = chan[j].sid => peerOut[t + 1].part = 1
    BY <1>0, <1>2, NextBegins
  <2>. QED
    BY <1>2, <2>2, <2>3 DEF Held
<1>3. CASE c.kind = "open" /\ HandleDcepOpen(c.sid) /\ UNCHANGED delivered
  <2>1. c.part = c.of
    <3>1. c.part \in Nat \ {0} /\ c.part <= c.of /\ c.of = 1
      BY <1>0, <1>1, <1>3 DEF Grouped, Chunk
    <3>. QED
      BY <3>1
  <2>2. Assembled'
    BY <1>0, <1>3, AssembledStays
  <2>3. CASE UNCHANGED chan
    <3>1. Assembling'
      BY <1>2, <2>1, <2>3 DEF Assembling
    <3>. QED
      BY <1>0, <2>2, <2>3, <3>1 DEF OneOpen
  <2>4. CASE ~UNCHANGED chan
    <3>1. PICK i \in Slots, accepted \in BOOLEAN :
            /\ OpenOn(c.sid) = {}
            /\ chan' = [chan EXCEPT ![i] = [open |-> accepted, sid |-> c.sid, rx |-> NoBuf]]
      BY <1>3, <2>4 DEF HandleDcepOpen
    <3>2. /\ chan'[i] = [open |-> accepted, sid |-> c.sid, rx |-> NoBuf]
          /\ \A j \in Slots : j # i => chan'[j] = chan[j]
      BY <1>1, <3>1
    <3>3. OneOpen'
      <4>1. \A j \in Slots : chan[j].open => chan[j].sid # c.sid
        BY <3>1 DEF OpenOn
      <4>. QED
        BY <1>0, <3>2, <4>1 DEF OneOpen
    <3>4. ASSUME NEW j \in Slots, chan'[j].open, chan'[j].rx # NoBuf PROVE Held(j)'
      <4>1. chan'[j] = chan[j]
        BY <3>2, <3>4
      <4>. QED
        BY <1>2, <2>1, <3>4, <4>1
    <3>. QED
      BY <2>2, <3>3, <3>4 DEF Assembling
  <2>. QED
    BY <2>3, <2>4
<1>4. CASE c.kind = "data" /\ ProcessDataFragment(t, c)
  <2>0. /\ c = DataChunk(c.sid, c.part, c.of) /\ c.sid \in Streams
        /\ c.part \in Nat \ {0} /\ c.of \in Nat \ {0} /\ c.part <= c.of
    BY <1>0, <1>1, <1>4, ChunkIs DEF Grouped
  <2>1. CASE OpenOn(c.sid) = {}
    <3>1. UNCHANGED <<chan, delivered>>
      BY <1>4, <2>1 DEF ProcessDataFragment
    <3>2. \A j \in Slots : chan[j].open => chan[j].sid # c.sid
      BY <2>1 DEF OpenOn
    <3>3. Assembling'
      BY <1>2, <3>1, <3>2 DEF Assembling
    <3>4. Assembled' /\ OneOpen'
      BY <1>0, <3>1, AssembledStays DEF OneOpen
    <3>. QED
      BY <3>3, <3>4
  <2>2. CASE OpenOn(c.sid) # {} /\ c.of = 1
    <3>1. delivered' = Append(delivered, <<t>>) /\ UNCHANGED chan
      BY <1>4, <2>2 DEF ProcessDataFragment
    <3>2. Assembling'
      BY <1>2, <2>0, <2>2, <3>1 DEF Assembling
    <3>3. Whole(<<t>>)'
      <4>1. <<t>> # <<>> /\ Len(<<t>>) = 1 /\ DOMAIN <<t>> = {1} /\ <<t>>[1] = t /\ t = t + 1 - 1
        BY <1>1
      <4>2. c = DataChunk(c.sid, 1, 1)
        BY <2>0, <2>2
      <4>3. Start(<<t>>, c.sid, Len(<<t>>))'
        BY <4>1, <4>2 DEF Start
      <4>. QED
        BY <2>0, <4>1, <4>3 DEF Whole
    <3>. QED
      <4>1. <<t>> \in Seq(Nat) /\ delivered \in Seq(Seq(Nat))
        BY <1>1
      <4>2. Assembled'
        BY <1>0, <3>1, <3>3, <4>1, HandedOn
      <4>3. OneOpen'
        BY <1>0, <3>1 DEF OneOpen
      <4>. QED
        BY <3>2, <4>2, <4>3
  <2>3. CASE OpenOn(c.sid) # {} /\ c.of # 1
    <3> DEFINE i == CHOOSE j \in OpenOn(c.sid) : TRUE
    <3>1. PICK ok \in AllocOutcomes :
            LET rx == Reassembled(chan[i].rx, t, c, ok)
                whole == c.part = c.of /\ rx # NoBuf
            IN  /\ delivered' = IF whole THEN Append(delivered, rx) ELSE delivered
                /\ chan' = [chan EXCEPT ![i].rx = IF whole THEN NoBuf ELSE rx]
      BY <1>4, <2>3 DEF ProcessDataFragment
    <3>2. i \in Slots /\ chan[i].open /\ chan[i].sid = c.sid
      BY <2>3 DEF OpenOn
    <3>3. PICK r : r = Reassembled(chan[i].rx, t, c, ok)
      OBVIOUS
    <3> HIDE DEF i
    <3>4. /\ delivered' = IF c.part = c.of /\ r # NoBuf THEN Append(delivered, r) ELSE delivered
          /\ chan' = [chan EXCEPT ![i].rx = IF c.part = c.of /\ r # NoBuf THEN NoBuf ELSE r]
      BY <3>1, <3>3
    <3>5. r # NoBuf => r \in Seq(Nat) /\ Len(r) = c.part /\ r[Len(r)] = t /\ Start(r, c.sid, c.of)
      <4>1. chan[i].rx # NoBuf => Held(i)
        BY <1>0, <3>2 DEF Assembling
      <4>2. ok \in BOOLEAN
        BY ReceiverAssumption
      <4>. QED
        BY <1>0, <1>4, <3>2, <3>3, <4>1, <4>2, ReassembledStart
    <3>6. /\ chan'[i].open = chan[i].open /\ chan'[i].sid = chan[i].sid
          /\ chan'[i].rx = NoBuf \/ (chan'[i].rx = r /\ r # NoBuf)
          /\ \A j \in Slots : j # i => chan'[j] = chan[j]
      BY <1>1, <3>2, <3>4 DEF Channel
    <3>7. OneOpen'
      BY <1>0, <3>2, <3>6 DEF OneOpen
    <3>8. ASSUME NEW j \in Slots, chan'[j].open, chan'[j].rx # NoBuf PROVE Held(j)'
      <4>1. CASE j = i
        <5>1. chan'[j].rx = r /\ r # NoBuf /\ chan'[j].sid = c.sid
          BY <3>2, <3>6, <3>8, <4>1
        <5>2. Start(r, c.sid, c.of)'
          BY <3>5, <5>1 DEF Start
        <5>3. r[Len(r)] = peerTsn'
          BY <3>5, <5>1
        <5>. QED
          BY <2>0, <5>1, <5>2, <5>3 DEF Held
      <4>2. CASE j # i
        <5>1. chan'[j] = chan[j] /\ chan[j].sid # c.sid
          BY <1>0, <3>2, <3>6, <3>8, <4>2 DEF OneOpen
        <5>. QED
          BY <1>2, <3>8, <5>1
      <4>. QED
        BY <4>1, <4>2
    <3>9. Assembled'
      <4>1. CASE c.part = c.of /\ r # NoBuf
        <5>1. r # <<>> /\ r \in Seq(Nat)
          BY <3>5, <4>1 DEF NoBuf
        <5>2. Start(r, c.sid, Len(r))'
          BY <3>5, <4>1 DEF Start
        <5>3. Whole(r)'
          BY <2>0, <5>1, <5>2 DEF Whole
        <5>. QED
          BY <1>0, <1>1, <3>4, <4>1, <5>1, <5>3, HandedOn
      <4>2. CASE ~(c.part = c.of /\ r # NoBuf)
        BY <1>0, <3>4, <4>2, AssembledStays
      <4>. QED
        BY <4>1, <4>2
    <3>. QED
      BY <3>7, <3>8, <3>9 DEF Assembling
  <2>. QED
    BY <2>1, <2>2, <2>3
<1>. QED
  BY <1>3, <1>4 DEF DeliverChunk

\* Nothing of the table, the point or what was handed on changes but by closing.
LEMMA ClosingWhole ==
  ASSUME WholeInv, UNCHANGED <<peerOut, peerTsn, delivered>>,
         \A i \in Slots : chan'[i].open => chan'[i] = chan[i]
  PROVE  Grouped' /\ OneOpen' /\ Assembling' /\ Assembled'
<1>0. Grouped /\ OneOpen /\ Assembling /\ Assembled
  BY DEF WholeInv
<1>1. Grouped'
  BY <1>0 DEF Grouped
<1>2. Assembled'
  BY <1>0, AssembledStays
<1>3. ASSUME NEW i \in Slots, chan'[i].open, chan'[i].rx # NoBuf PROVE Held(i)'
  <2>1. chan'[i] = chan[i] /\ Held(i)
    BY <1>0, <1>3 DEF Assembling
  <2>. QED
    BY <2>1 DEF Held, Start
<1>. QED
  BY <1>0, <1>1, <1>2, <1>3 DEF OneOpen, Assembling

\* The peer adds a DCEP OPEN or all the fragments of a message.
LEMMA GrowingWhole ==
  ASSUME WholeInv, NEW n \in Nat \ {0}, NEW w \in Seq(Chunk), Len(w) = n,
         NEW s \in Streams, NEW k \in {"open", "data"}, k = "open" => n = 1,
         \A i \in 1..n : w[i] = [kind |-> k, sid |-> s, part |-> i, of |-> n],
         peerOut' = peerOut \o w, UNCHANGED <<peerTsn, chan, delivered>>
  PROVE  Grouped' /\ OneOpen' /\ Assembling' /\ Assembled'
<1>0. Grouped /\ OneOpen /\ Assembling /\ Assembled /\ TypeOK
  BY DEF WholeInv
<1> DEFINE L == Len(peerOut)
<1>1. /\ L \in Nat /\ DOMAIN peerOut = 1..L /\ DOMAIN peerOut' = 1..(L + n)
      /\ \A t \in 1..L : peerOut'[t] = peerOut[t]
      /\ \A t \in (L + 1)..(L + n) : peerOut'[t] = w[t - L]
  <2>1. peerOut \in Seq(Chunk)
    BY <1>0 DEF TypeOK
  <2>. QED
    BY <2>1, ConcatProperties
<1>2. ASSUME NEW t \in (L + 1)..(L + n)
      PROVE  /\ t - L \in 1..n
             /\ peerOut'[t] = [kind |-> k, sid |-> s, part |-> t - L, of |-> n]
  BY <1>1
<1> HIDE DEF L
<1>3. Grouped'
  <2>1. ASSUME NEW t \in 1..L
        PROVE  LET c == peerOut'[t]
               IN  /\ c.part <= c.of /\ (c.kind = "open" => c.of = 1)
                   /\ c.part > 1 => /\ t > 1 /\ peerOut'[t - 1].sid = c.sid
                                    /\ peerOut'[t - 1].of = c.of
                                    /\ peerOut'[t - 1].part = c.part - 1
    <3>1. t > 1 => t - 1 \in 1..L
      BY <1>1
    <3>. QED
      BY <1>0, <1>1, <3>1, ZenonT(40) DEF Grouped
  <2>2. ASSUME NEW t \in (L + 1)..(L + n)
        PROVE  LET c == peerOut'[t]
               IN  /\ c.part <= c.of /\ (c.kind = "open" => c.of = 1)
                   /\ c.part > 1 => /\ t > 1 /\ peerOut'[t - 1].sid = c.sid
                                    /\ peerOut'[t - 1].of = c.of
                                    /\ peerOut'[t - 1].part = c.part - 1
    <3>1. t - L \in 1..n /\ peerOut'[t] = [kind |-> k, sid |-> s, part |-> t - L, of |-> n]
      BY <1>2
    <3>2. t - L > 1 => t > 1 /\ t - 1 \in (L + 1)..(L + n) /\ (t - 1) - L = t - L - 1
      BY <1>1
    <3>3. t - L > 1 => peerOut'[t - 1] = [kind |-> k, sid |-> s, part |-> t - L - 1, of |-> n]
      BY <1>2, <3>2
    <3>4. t - L >= 1 /\ t - L <= n /\ (k = "open" => n = 1)
      BY <3>1
    <3>. QED
      BY <1>1, <3>1, <3>2, <3>3, <3>4
  <2>3. \A t \in DOMAIN peerOut' : t \in 1..L \/ t \in (L + 1)..(L + n)
    BY <1>1
  <2>. QED
    BY <2>1, <2>2, <2>3, Zenon DEF Grouped
<1>4. Assembled'
  <2>1. \A t \in DOMAIN peerOut : t \in DOMAIN peerOut' /\ peerOut'[t] = peerOut[t]
    BY <1>1
  <2>. QED
    BY <1>0, <2>1, AssembledStays
<1>5. ASSUME NEW i \in Slots, chan[i].open, chan[i].rx # NoBuf PROVE Held(i)'
  <2>1. Held(i)
    BY <1>0, <1>5 DEF Assembling
  <2>2. PICK m \in Nat : Start(chan[i].rx, chan[i].sid, m)
    BY <2>1 DEF Held
  <2>3. Start(chan[i].rx, chan[i].sid, m)'
    <3>1. \A t \in DOMAIN peerOut : t \in DOMAIN peerOut' /\ peerOut'[t] = peerOut[t]
      BY <1>1
    <3>. QED
      BY <2>2, <3>1 DEF Start
  <2>4. ASSUME chan[i].rx[Len(chan[i].rx)] # peerTsn, peerTsn + 1 \in DOMAIN peerOut',
               peerOut'[peerTsn + 1].sid = chan[i].sid
        PROVE  peerOut'[peerTsn + 1].part = 1
    <3>1. peerTsn \in 0..L
      BY <1>0 DEF TypeOK, L
    <3>2. CASE peerTsn + 1 \in 1..L
      BY <1>1, <2>1, <2>4, <3>2 DEF Held
    <3>3. CASE peerTsn = L
      <4>0. L \in Nat /\ n \in Nat /\ n >= 1
        BY <1>1
      <4>1. PICK u \in (L + 1)..(L + n) : u = L + 1 /\ u - L = 1
        BY <4>0
      <4>2. peerOut'[u] = [kind |-> k, sid |-> s, part |-> u - L, of |-> n]
        BY <1>2
      <4>3. peerOut'[u].part = 1
        BY <4>1, <4>2
      <4>. QED
        BY <3>3, <4>1, <4>3
    <3>. QED
      BY <1>1, <3>1, <3>2, <3>3
  <2>. QED
    BY <2>3, <2>4 DEF Held
<1>. QED
  BY <1>0, <1>3, <1>4, <1>5 DEF OneOpen, Assembling

\* The cumulative point moves to where a message begins.
LEMMA SkippingWhole ==
  ASSUME WholeInv, UNCHANGED <<peerOut, chan, delivered>>, peerTsn' \in Nat,
         peerTsn' + 1 \in DOMAIN peerOut => peerOut[peerTsn' + 1].part = 1
  PROVE  Grouped' /\ OneOpen' /\ Assembling' /\ Assembled'
<1>0. Grouped /\ OneOpen /\ Assembling /\ Assembled
  BY DEF WholeInv
<1>1. Grouped'
  BY <1>0 DEF Grouped
<1>2. Assembled'
  BY <1>0, AssembledStays
<1>3. ASSUME NEW i \in Slots, chan[i].open, chan[i].rx # NoBuf PROVE Held(i)'
  <2>1. PICK n \in Nat : Start(chan[i].rx, chan[i].sid, n)
    BY <1>0, <1>3 DEF Assembling, Held
  <2>2. Start(chan[i].rx, chan[i].sid, n)'
    BY <2>1 DEF Start
  <2>. QED
    BY <2>2 DEF Held
<1>. QED
  BY <1>0, <1>1, <1>2, <1>3 DEF OneOpen, Assembling

LEMMA WholeInit == Init => WholeInv
<1> SUFFICES ASSUME Init PROVE WholeInv
  OBVIOUS
<1>1. TypeOK
  BY TypeInit
<1>2. peerOut = <<>> /\ delivered = <<>> /\ chan = NoChannels
  BY DEF Init
<1>3. \A i \in Slots : ~chan[i].open
  BY <1>2 DEF NoChannels, FreeSlot
<1>4. DOMAIN peerOut = {} /\ DOMAIN delivered = {}
  BY <1>2
<1>. QED
  BY <1>1, <1>3, <1>4 DEF WholeInv, Grouped, OneOpen, Assembling, Assembled

\* Every step keeps messages whole: one case per action.
LEMMA WholeStep ==
  ASSUME WholeInv, [Next]_vars
  PROVE  WholeInv'
<1>0. TypeOK /\ TypeOK' /\ Grouped /\ OneOpen /\ Assembling /\ Assembled
  BY TypeStep DEF WholeInv
<1> SUFFICES Grouped' /\ OneOpen' /\ Assembling' /\ Assembled'
  BY <1>0 DEF WholeInv
<1>1. CASE UNCHANGED <<peerOut, peerTsn, chan, delivered>>
  BY <1>1, ClosingWhole
<1>2. ASSUME NEW s \in Streams, PeerOpen(s)
      PROVE  Grouped' /\ OneOpen' /\ Assembling' /\ Assembled'
  <2>1. peerOut' = Append(peerOut, OpenChunk(s)) /\ UNCHANGED <<peerTsn, chan, delivered>>
    BY <1>2 DEF PeerOpen, assocVars, histVars
  <2>2. OpenChunk(s) \in Chunk
    BY DEF OpenChunk, Chunk
  <2>3. peerOut' = peerOut \o <<OpenChunk(s)>>
    BY <1>0, <2>1, <2>2, AppendIsConcat DEF TypeOK
  <2>4. /\ <<OpenChunk(s)>> \in Seq(Chunk) /\ Len(<<OpenChunk(s)>>) = 1
        /\ \A i \in 1..1 : <<OpenChunk(s)>>[i] = [kind |-> "open", sid |-> s, part |-> i, of |-> 1]
    BY <2>2 DEF OpenChunk
  <2>. QED
    <3>1. s \in Streams /\ 1 \in Nat \ {0} /\ "open" \in {"open", "data"}
      OBVIOUS
    <3>. QED
      BY <2>1, <2>3, <2>4, <3>1, GrowingWhole
<1>3. ASSUME NEW s \in Streams, NEW n \in 1..(MaxFrags + 1), PeerSend(s, n)
      PROVE  Grouped' /\ OneOpen' /\ Assembling' /\ Assembled'
  <2> DEFINE w == [i \in 1..n |-> DataChunk(s, i, n)]
  <2>1. peerOut' = peerOut \o w /\ UNCHANGED <<peerTsn, chan, delivered>>
    BY <1>3 DEF PeerSend, assocVars, histVars
  <2>2. n \in Nat \ {0}
    BY ReceiverAssumption
  <2>3. w \in Seq(Chunk) /\ Len(w) = n
    <3>1. \A i \in 1..n : DataChunk(s, i, n) \in Chunk
      BY <2>2 DEF DataChunk, Chunk
    <3>. QED
      BY <2>2, <3>1
  <2>4. \A i \in 1..n : w[i] = [kind |-> "data", sid |-> s, part |-> i, of |-> n]
    BY DEF DataChunk
  <2> HIDE DEF w
  <2>. QED
    BY <2>1, <2>2, <2>3, <2>4, GrowingWhole
<1>4. CASE RecvCookieEcho
  <2>1. peerTsn' = 0 /\ UNCHANGED <<peerOut, chan, delivered>>
    BY <1>4 DEF RecvCookieEcho, peerVars, histVars
  <2>2. 1 \in DOMAIN peerOut => peerOut[1].part = 1
    <3>1. ASSUME 1 \in DOMAIN peerOut PROVE peerOut[1].part = 1
      <4>1. peerOut[1].part \in Nat \ {0}
        <5>1. peerOut \in Seq(Chunk)
          BY <1>0 DEF TypeOK
        <5>2. peerOut[1] \in Chunk
          BY <3>1, <5>1
        <5>. QED
          BY <5>2 DEF Chunk
      <4>2. ~(peerOut[1].part > 1)
        BY <1>0, <3>1 DEF Grouped
      <4>. QED
        BY <4>1, <4>2
    <3>. QED
      BY <3>1
  <2>. QED
    BY <2>1, <2>2, SkippingWhole
<1>5. ASSUME NEW t \in DOMAIN peerOut, RecvNext(t)
      PROVE  Grouped' /\ OneOpen' /\ Assembling' /\ Assembled'
  <2>1. /\ t = peerTsn + 1 /\ DeliverChunk(t) /\ peerTsn' = t /\ UNCHANGED peerOut
    BY <1>5 DEF RecvNext, IsNext, peerVars
  <2>2. Grouped'
    BY <1>0, <2>1 DEF Grouped
  <2>. QED
    BY <2>1, <2>2, DeliverWhole
<1>6. CASE DrainOne
  <2>1. PICK t \in DOMAIN peerOut : t = peerTsn + 1
    BY <1>0, <1>6 DEF DrainOne, TypeOK
  <2>2. DeliverChunk(t) /\ peerTsn' = t /\ UNCHANGED peerOut
    BY <1>6, <2>1 DEF DrainOne, peerVars
  <2>3. Grouped'
    BY <1>0, <2>2 DEF Grouped
  <2>. QED
    BY <2>1, <2>2, <2>3, DeliverWhole
<1>7. ASSUME NEW n \in 1..peerFwd, RecvForwardTsn(n)
      PROVE  Grouped' /\ OneOpen' /\ Assembling' /\ Assembled'
  <2>1. /\ UNCHANGED <<peerOut, chan, delivered>> /\ peerOut[n].part = peerOut[n].of
        /\ peerTsn' = n \/ peerTsn' = peerTsn
    BY <1>7 DEF RecvForwardTsn, MessageEnd, peerVars, histVars
  <2>2. n \in DOMAIN peerOut /\ n \in Nat
    BY <1>0 DEF TypeOK
  <2>3. n + 1 \in DOMAIN peerOut => peerOut[n + 1].part = 1
    BY <1>0, <2>1, <2>2, NextBegins
  <2>. QED
    BY <1>1, <2>1, <2>2, <2>3, SkippingWhole
<1>8. ASSUME NEW s \in Streams, RecvReconfig(s) \/ StreamReset(s)
      PROVE  Grouped' /\ OneOpen' /\ Assembling' /\ Assembled'
  <2>1. UNCHANGED <<peerOut, peerTsn, delivered>>
    BY <1>8 DEF RecvReconfig, StreamReset, peerVars, histVars
  <2>2. \A i \in Slots : chan'[i].open => chan'[i] = chan[i]
    BY <1>0, <1>8, ZenonT(40) DEF RecvReconfig, StreamReset, TypeOK, Channel
  <2>. QED
    BY <2>1, <2>2, ClosingWhole
<1>9. CASE Shutdown
  <2>1. peerOut' = <<>> /\ delivered' = <<>> /\ chan' = NoChannels
    BY <1>9 DEF Shutdown
  <2>2. \A i \in Slots : ~chan'[i].open
    BY <2>1 DEF NoChannels, FreeSlot
  <2>3. DOMAIN peerOut' = {} /\ DOMAIN delivered' = {}
    BY <2>1
  <2>. QED
    BY <2>2, <2>3 DEF Grouped, OneOpen, Assembling, Assembled
<1>10. ASSUME \/ \E s \in Streams : PeerClose(s)
              \/ \E n \in 1..Len(peerOut) : PeerAbandon(n)
              \/ \E t \in 1..Len(peerOut) : RecvDuplicate(t) \/ RecvAhead(t)
              \/ DrainEnd \/ UNCHANGED vars
       PROVE  UNCHANGED <<peerOut, peerTsn, chan, delivered>>
  BY <1>10 DEF PeerClose, PeerAbandon, RecvDuplicate, RecvAhead, DrainEnd, vars,
     peerVars, assocVars, histVars
<1>11. DOMAIN peerOut = 1..Len(peerOut)
  BY <1>0 DEF TypeOK
<1>. QED
  BY <1>1, <1>2, <1>3, <1>4, <1>5, <1>6, <1>7, <1>8, <1>9, <1>10, <1>11
     DEF Next, PeerStep, Arrival

\* A message handed to onData is whole: from its first fragment to its last, of one
\* message and one stream.  A repeated COOKIE-ECHO does not change this: a rewound
\* point still waits for the first fragment of a message.
THEOREM OnlyWholeMessages == Spec => []MessagesWhole
<1>1. WholeInv => MessagesWhole
  <2> SUFFICES ASSUME WholeInv, NEW k \in DOMAIN delivered
               PROVE  LET m == delivered[k]
                          head == peerOut[m[1]]
                      IN  /\ head.kind = "data" /\ Len(m) = head.of
                          /\ \A i \in DOMAIN m : peerOut[m[i]] = DataChunk(head.sid, i, head.of)
                          /\ \A i \in DOMAIN m : m[i] = m[1] + i - 1
    BY DEF MessagesWhole
  <2>1. PICK s \in Streams, m \in Seq(Nat) :
          m = delivered[k] /\ m # <<>> /\ Start(m, s, Len(m))
    BY DEF WholeInv, TypeOK, Assembled, Whole
  <2>2. 1 \in DOMAIN m
    BY <2>1
  <2>3. peerOut[m[1]] = DataChunk(s, 1, Len(m))
    BY <2>1, <2>2 DEF Start
  <2>4. LET head == peerOut[m[1]] IN head.kind = "data" /\ head.sid = s /\ head.of = Len(m)
    BY <2>3 DEF DataChunk
  <2>. QED
    BY <2>1, <2>4 DEF Start
<1>. QED
  BY <1>1, WholeInit, WholeStep, PTL DEF Spec

=============================================================================
