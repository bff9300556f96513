------------------------- MODULE WebrtcRouterProofs -------------------------
(***************************************************************************)
(* Proofs about WebrtcRouter for every number of streams, slots, levels,   *)
(* connections and messages: the table pairs streams and connections in    *)
(* every order of opens, closes and teardowns, and inbound messages reach  *)
(* the connection of their channel.                                        *)
(***************************************************************************)
EXTENDS WebrtcRouter, SequenceTheorems, TLAPS

Item == Nat \X Nat
ChanRecord == [state : {"new", "open", "closed"}, conn : Nat]
SlotRecord == [handle : {NoHandle} \cup Handles, sid : {NoStream} \cup Streams,
               priority : {0} \cup Levels, stash : Seq(Item)]
HandleRecord == [state : {"free", "open", "closing"}, conn : Nat,
                 ref : Slots, queue : Seq(Item)]

\* What the argument needs of the variables' types.
Shape ==
  /\ active \in BOOLEAN /\ connected \in BOOLEAN /\ established \in BOOLEAN
  /\ chan \in [Streams -> ChanRecord]
  /\ dcMap \in [Slots -> SlotRecord]
  /\ its \in [Handles -> HandleRecord]
  /\ opened \in Seq(Levels) /\ Len(opened) <= MaxConns
  /\ sent \in [Conns -> Nat]
  /\ \A i \in Mapped : dcMap[i].sid \in Streams

\* A connection is made once, so a live handle is known by its connection.
ConnsDistinct ==
  /\ \A h \in Handles : its[h].state # "free" => its[h].conn \in 1..Len(opened)
  /\ \A g, h \in Handles :
       its[g].state # "free" /\ its[h].state # "free" /\ its[g].conn = its[h].conn => g = h

\* A session that waits for its handshake starts with a fresh association, and an
\* association that is not up has no channels: what LinkDown leaves behind cannot
\* come back to life.
SessionOrder ==
  /\ connected => active
  /\ active /\ ~connected => ~established
  /\ ~established => OpenChannels = {}

\* The inductive invariant.
IInv == Shape /\ ConnsDistinct /\ SessionOrder /\ Paired /\ RightTarget

-----------------------------------------------------------------------------
(* The table. *)

LEMMA Distinct == NoHandle \notin Handles /\ 0 \in Slots /\ 0 \in Nat /\ 0 <= MaxConns
BY RouterAssumption DEF NoHandle, Handles, Slots

LEMMA EmptyTyped ==
  /\ EmptySlot \in SlotRecord /\ EmptySlot.handle = NoHandle
  /\ FreeHandle \in HandleRecord /\ FreeHandle.state = "free"
  /\ NewChannels \in [Streams -> ChanRecord]
  /\ \A s \in Streams : NewChannels[s].state = "new"
<1>1. <<>> \in Seq(Item)
  BY EmptySeq
<1>. QED
  BY <1>1, Distinct DEF EmptySlot, FreeHandle, NewChannels, SlotRecord, HandleRecord,
     ChanRecord, NoHandle, NoStream, NoConn

\* A mapped slot's parts, and that streams and handles have at most one slot.
LEMMA MappedParts ==
  ASSUME Shape, NEW i \in Mapped, SlotsPair
  PROVE  /\ i \in Slots /\ dcMap[i].handle \in Handles
         /\ its[dcMap[i].handle].state # "free" /\ its[dcMap[i].handle].ref = i
         /\ chan[dcMap[i].sid].state = "open"
         /\ chan[dcMap[i].sid].conn = its[dcMap[i].handle].conn
BY DEF Shape, Mapped, SlotsPair, SlotRecord

LEMMA OneSlotEach ==
  ASSUME Shape, ConnsDistinct, SlotsPair, NEW i \in Mapped, NEW j \in Mapped
  PROVE  /\ dcMap[i].handle = dcMap[j].handle => i = j
         /\ dcMap[i].sid = dcMap[j].sid => i = j
<1>1. dcMap[i].handle = dcMap[j].handle => i = j
  BY MappedParts
<1>2. dcMap[i].sid = dcMap[j].sid => dcMap[i].handle = dcMap[j].handle
  BY MappedParts DEF ConnsDistinct
<1>. QED
  BY <1>1, <1>2

\* The slot of a live handle is the one its disconnect notice names.
LEMMA LiveHandle ==
  ASSUME Shape, SlotsPair, NoConnectionLeaked,
         NEW h \in Handles, its[h].state # "free"
  PROVE  its[h].ref \in Mapped /\ dcMap[its[h].ref].handle = h
BY MappedParts DEF NoConnectionLeaked

\* While a slot is used, the whole path to it is up.
LEMMA MappedLinked ==
  ASSUME Paired, NEW i \in Mapped
  PROVE  Linked /\ connected /\ established
BY DEF Paired, OpenChannelsServed, Linked

-----------------------------------------------------------------------------
(* The groups of steps that do the same to the table.                      *)

\* A step that leaves handles, streams and channels as they are keeps the invariant.
LEMMA PairingKept ==
  ASSUME IInv, Shape', UNCHANGED <<session, chan, opened, strayed>>,
         \A i \in Slots : /\ dcMap'[i].handle = dcMap[i].handle
                          /\ dcMap'[i].sid = dcMap[i].sid,
         \A h \in Handles : /\ its'[h].state = "free" <=> its[h].state = "free"
                            /\ its'[h].conn = its[h].conn
                            /\ its'[h].ref = its[h].ref
  PROVE  IInv'
<1>1. Mapped' = Mapped /\ \A i \in Mapped : i \in Slots /\ dcMap[i].handle \in Handles
  BY DEF Mapped, IInv, Shape, SlotRecord
<1>2. SlotsPair'
  BY <1>1 DEF IInv, Paired, SlotsPair
<1>3. NoConnectionLeaked'
  BY <1>1 DEF IInv, Paired, NoConnectionLeaked
<1>4. OpenChannels' = OpenChannels /\ Linked' = Linked
  BY DEF OpenChannels, Linked, session
<1>5. \A s \in Streams : SlotsOn(s)' = SlotsOn(s)
  BY <1>1 DEF SlotsOn
<1>6. OpenChannelsServed'
  BY <1>1, <1>4, <1>5 DEF IInv, Paired, OpenChannelsServed, OpenChannels
<1>7. ConnsDistinct'
  BY DEF IInv, ConnsDistinct
<1>8. SessionOrder' /\ RightTarget'
  BY <1>4 DEF IInv, SessionOrder, RightTarget, session
<1>. QED
  BY <1>2, <1>3, <1>6, <1>7, <1>8 DEF IInv, Paired

\* dcMapClearAll leaves no slot and no connection.
LEMMA AllCleared ==
  ASSUME IInv, ClearAll
  PROVE  /\ dcMap' \in [Slots -> SlotRecord] /\ its' \in [Handles -> HandleRecord]
         /\ Mapped' = {}
         /\ \A h \in Handles : its'[h].state = "free"
<1>1. dcMap' \in [Slots -> SlotRecord]
  BY EmptyTyped DEF ClearAll
<1>2. Mapped' = {}
  BY EmptyTyped DEF ClearAll, Mapped
<1>3. its' \in [Handles -> HandleRecord]
  BY EmptyTyped DEF ClearAll, Freed, IInv, Shape
<1>4. ASSUME NEW h \in Handles PROVE its'[h].state = "free"
  <2>1. CASE its[h].state = "free"
    BY <2>1, EmptyTyped DEF ClearAll, Freed
  <2>2. CASE its[h].state # "free"
    <3>1. h \in {dcMap[i].handle : i \in Mapped}
      BY <2>2 DEF IInv, Paired, NoConnectionLeaked
    <3>. QED
      BY <3>1, EmptyTyped DEF ClearAll, Freed
  <2>. QED
    BY <2>1, <2>2
<1>. QED
  BY <1>1, <1>2, <1>3, <1>4

\* A teardown keeps the invariant when no channel is left open on a linked session.
LEMMA TornDown ==
  ASSUME IInv, ClearAll, UNCHANGED <<opened, sent, strayed>>,
         active' \in BOOLEAN, connected' \in BOOLEAN, established' \in BOOLEAN,
         chan' \in [Streams -> ChanRecord],
         SessionOrder', Linked' => OpenChannels' = {}
  PROVE  IInv'
<1>1. /\ dcMap' \in [Slots -> SlotRecord] /\ its' \in [Handles -> HandleRecord]
      /\ Mapped' = {} /\ \A h \in Handles : its'[h].state = "free"
  BY AllCleared
<1>2. Shape'
  BY <1>1 DEF Shape, IInv
<1>3. ConnsDistinct' /\ SlotsPair' /\ NoConnectionLeaked' /\ OpenChannelsServed'
  BY <1>1 DEF ConnsDistinct, SlotsPair, NoConnectionLeaked, OpenChannelsServed
<1>. QED
  BY <1>2, <1>3 DEF IInv, Paired, RightTarget

\* The same for the teardowns that start a new association.
LEMMA TornDownAndReset ==
  ASSUME IInv, ClearAll, ResetAssociation, UNCHANGED <<opened, sent, strayed>>,
         active' \in BOOLEAN, connected' \in BOOLEAN, connected' => active'
  PROVE  IInv'
<1>1. established' = FALSE /\ chan' \in [Streams -> ChanRecord] /\ OpenChannels' = {}
  BY EmptyTyped DEF ResetAssociation, OpenChannels
<1>2. SessionOrder'
  BY <1>1 DEF SessionOrder
<1>. QED
  BY <1>1, <1>2, TornDown

\* One slot and its connection given up, with the channel closed.
LEMMA SlotGivenUp ==
  ASSUME IInv, NEW i \in Mapped,
         dcMap' = Cleared(i), its' = Freed({dcMap[i].handle}),
         chan' = [chan EXCEPT ![dcMap[i].sid] = [state |-> "closed", conn |-> NoConn]],
         UNCHANGED <<session, opened, sent, strayed>>
  PROVE  IInv'
<1>. DEFINE h == dcMap[i].handle
            s == dcMap[i].sid
<1>1. i \in Slots /\ h \in Handles /\ s \in Streams
  BY MappedParts DEF IInv, Paired, Shape
<1>2. \A j \in Mapped : j # i => dcMap[j].handle # h /\ dcMap[j].sid # s
  BY OneSlotEach DEF IInv, Paired
<1>3. \A j \in Slots : dcMap'[j] = IF j = i THEN EmptySlot ELSE dcMap[j]
  BY DEF Cleared, IInv, Shape
<1>4. \A g \in Handles : its'[g] = IF g = h THEN FreeHandle ELSE its[g]
  BY DEF Freed
<1>5. \A r \in Streams : chan'[r] = IF r = s THEN [state |-> "closed", conn |-> NoConn]
                                             ELSE chan[r]
  BY <1>1 DEF IInv, Shape
<1>6. Mapped' = Mapped \ {i}
  BY <1>1, <1>3, EmptyTyped DEF Mapped
<1>7. Shape'
  <2>1. dcMap' \in [Slots -> SlotRecord]
    BY <1>1, EmptyTyped DEF Cleared, IInv, Shape
  <2>2. its' \in [Handles -> HandleRecord]
    BY EmptyTyped DEF Freed, IInv, Shape
  <2>3. chan' \in [Streams -> ChanRecord]
    BY <1>1 DEF ChanRecord, NoConn, IInv, Shape
  <2>4. \A j \in Mapped' : dcMap'[j].sid \in Streams
    BY <1>3, <1>6 DEF IInv, Shape, Mapped
  <2>. QED
    BY <2>1, <2>2, <2>3, <2>4 DEF IInv, Shape, session
<1>8. \A j \in Mapped' : /\ j \in Mapped /\ dcMap'[j] = dcMap[j]
                         /\ dcMap[j].handle \in Handles /\ dcMap[j].sid \in Streams
                         /\ its'[dcMap[j].handle] = its[dcMap[j].handle]
                         /\ chan'[dcMap[j].sid] = chan[dcMap[j].sid]
  <2>. SUFFICES ASSUME NEW j \in Mapped'
                PROVE  /\ j \in Mapped /\ dcMap'[j] = dcMap[j]
                       /\ dcMap[j].handle \in Handles /\ dcMap[j].sid \in Streams
                       /\ its'[dcMap[j].handle] = its[dcMap[j].handle]
                       /\ chan'[dcMap[j].sid] = chan[dcMap[j].sid]
    OBVIOUS
  <2>1. j \in Mapped /\ j # i /\ j \in Slots
    BY <1>6 DEF Mapped
  <2>2. dcMap[j].handle \in Handles /\ dcMap[j].sid \in Streams
    BY <2>1, MappedParts DEF IInv, Paired, Shape
  <2>. HIDE DEF h, s
  <2>. QED
    BY <2>1, <2>2, <1>2, <1>3, <1>4, <1>5
<1>9. SlotsPair'
  <2>1. ASSUME NEW j \in Mapped'
        PROVE  /\ its'[dcMap'[j].handle].state # "free" /\ its'[dcMap'[j].handle].ref = j
               /\ chan'[dcMap'[j].sid].state = "open"
               /\ chan'[dcMap'[j].sid].conn = its'[dcMap'[j].handle].conn
    <3>1. j \in Mapped
      BY <1>8
    <3>2. /\ its[dcMap[j].handle].state # "free" /\ its[dcMap[j].handle].ref = j
          /\ chan[dcMap[j].sid].state = "open"
          /\ chan[dcMap[j].sid].conn = its[dcMap[j].handle].conn
      BY <3>1, MappedParts DEF IInv, Paired
    <3>. HIDE DEF h, s
    <3>. QED
      BY <1>8, <3>2
  <2>. QED
    BY <2>1 DEF SlotsPair
<1>10. \A g \in Handles : its'[g].state # "free" => g # h /\ its'[g] = its[g]
  BY <1>4, EmptyTyped
<1>11. NoConnectionLeaked'
  <2>. SUFFICES ASSUME NEW g \in Handles, its'[g].state # "free"
                PROVE  \E j \in Mapped' : dcMap'[j].handle = g
    BY DEF NoConnectionLeaked
  <2>1. g # h /\ its[g].state # "free"
    BY <1>10
  <2>2. PICK j \in Mapped : dcMap[j].handle = g
    BY <2>1 DEF IInv, Paired, NoConnectionLeaked
  <2>3. j # i
    BY <2>1, <2>2
  <2>. QED
    BY <2>2, <2>3, <1>6, <1>8
<1>12. ConnsDistinct'
  <2>. HIDE DEF h, s
  <2>1. ConnsDistinct /\ opened' = opened
    BY DEF IInv
  <2>2. ASSUME NEW g \in Handles, its'[g].state # "free"
        PROVE  its[g].state # "free" /\ its'[g].conn = its[g].conn
    BY <1>10, <2>2
  <2>3. \A g \in Handles : its'[g].state # "free" => its'[g].conn \in 1..Len(opened')
    BY <2>1, <2>2 DEF ConnsDistinct
  <2>4. \A g, f \in Handles :
          its'[g].state # "free" /\ its'[f].state # "free" /\ its'[g].conn = its'[f].conn
            => g = f
    BY <2>1, <2>2 DEF ConnsDistinct
  <2>. QED
    BY <2>3, <2>4 DEF ConnsDistinct
<1>13. OpenChannels' = OpenChannels \ {s} /\ Linked' = Linked
  BY <1>5 DEF OpenChannels, Linked, session
<1>14. OpenChannelsServed'
  <2>1. Mapped' # {} => Linked'
    BY <1>6, <1>13 DEF IInv, Paired, OpenChannelsServed
  <2>2. ASSUME Linked', NEW r \in OpenChannels' PROVE SlotsOn(r)' # {}
    <3>1. r \in OpenChannels /\ r # s /\ Linked
      BY <1>13, <2>2
    <3>2. PICK j \in Mapped : dcMap[j].sid = r
      BY <3>1 DEF IInv, Paired, OpenChannelsServed, SlotsOn
    <3>3. j \in Mapped' /\ dcMap'[j].sid = r
      BY <3>1, <3>2, <1>6, <1>8
    <3>. QED
      BY <3>3 DEF SlotsOn
  <2>. QED
    BY <2>1, <2>2 DEF OpenChannelsServed
<1>15. SessionOrder' /\ RightTarget'
  BY <1>13 DEF IInv, SessionOrder, RightTarget, session
<1>. QED
  BY <1>7, <1>9, <1>11, <1>12, <1>14, <1>15 DEF IInv, Paired

-----------------------------------------------------------------------------
(* One lemma per group of actions.                                         *)

LEMMA DcOpenKeeps ==
  ASSUME IInv, NEW s \in Streams, NEW h \in Handles, NEW p \in Levels,
         NEW a \in AllocOutcomes, DcOpen(s, h, p, a)
  PROVE  IInv'
<1>. DEFINE c == Len(opened) + 1
<1>1. PICK i \in Slots :
        /\ First(i, FreeSlots)
        /\ chan' = [chan EXCEPT ![s] = [state |-> "open", conn |-> c]]
        /\ dcMap' = [dcMap EXCEPT ![i].handle = h, ![i].sid = s, ![i].priority = p]
        /\ its' = [its EXCEPT ![h] = [state |-> "open", conn |-> c, ref |-> i, queue |-> <<>>]]
  BY DEF DcOpen
<1>2. /\ Linked /\ chan[s].state = "new" /\ its[h].state = "free" /\ i \notin Mapped
      /\ opened' = Append(opened, p) /\ Len(opened) < MaxConns
      /\ UNCHANGED <<session, sent, strayed>>
  BY <1>1 DEF DcOpen, Opening, First, FreeSlots
<1>3. opened \in Seq(Levels) /\ Len(opened) \in Nat /\ c \in Nat
  BY DEF IInv, Shape
<1>4. opened' \in Seq(Levels) /\ Len(opened') = c /\ c <= MaxConns
  BY <1>2, <1>3, RouterAssumption
<1>. HIDE DEF c
<1>5. /\ dcMap'[i].handle = h /\ dcMap'[i].sid = s
      /\ its'[h] = [state |-> "open", conn |-> c, ref |-> i, queue |-> <<>>]
      /\ chan'[s] = [state |-> "open", conn |-> c]
  BY <1>1 DEF IInv, Shape, SlotRecord
<1>6. /\ \A j \in Slots : j # i => dcMap'[j] = dcMap[j]
      /\ \A g \in Handles : g # h => its'[g] = its[g]
      /\ \A r \in Streams : r # s => chan'[r] = chan[r]
  BY <1>1 DEF IInv, Shape
<1>7. Mapped' = Mapped \cup {i}
  <2>1. h # NoHandle
    BY Distinct
  <2>. QED
    BY <1>5, <1>6, <2>1 DEF Mapped
<1>8. Shape'
  <2>1. dcMap' \in [Slots -> SlotRecord]
    <3>1. dcMap \in [Slots -> SlotRecord]
      BY DEF IInv, Shape
    <3>. QED
      BY <1>1, <3>1 DEF SlotRecord
  <2>2. its' \in [Handles -> HandleRecord]
    <3>1. its \in [Handles -> HandleRecord] /\ <<>> \in Seq(Item)
      BY EmptySeq DEF IInv, Shape
    <3>2. [state |-> "open", conn |-> c, ref |-> i, queue |-> <<>>] \in HandleRecord
      BY <1>3, <3>1 DEF HandleRecord
    <3>. QED
      BY <1>1, <3>1, <3>2
  <2>3. chan' \in [Streams -> ChanRecord]
    <3>1. chan \in [Streams -> ChanRecord]
      BY DEF IInv, Shape
    <3>2. [state |-> "open", conn |-> c] \in ChanRecord
      BY <1>3 DEF ChanRecord
    <3>. QED
      BY <1>1, <3>1, <3>2
  <2>4. \A j \in Mapped' : dcMap'[j].sid \in Streams
    BY <1>5, <1>6, <1>7 DEF IInv, Shape, Mapped
  <2>. QED
    BY <1>2, <1>4, <2>1, <2>2, <2>3, <2>4 DEF IInv, Shape, session
<1>9. \A j \in Mapped : /\ dcMap'[j] = dcMap[j]
                        /\ its'[dcMap[j].handle] = its[dcMap[j].handle]
                        /\ chan'[dcMap[j].sid] = chan[dcMap[j].sid]
                        /\ its[dcMap[j].handle].state # "free"
                        /\ its[dcMap[j].handle].ref = j
                        /\ chan[dcMap[j].sid].state = "open"
                        /\ chan[dcMap[j].sid].conn = its[dcMap[j].handle].conn
  <2>1. \A j \in Mapped :
          /\ j \in Slots /\ dcMap[j].handle \in Handles /\ dcMap[j].sid \in Streams
          /\ its[dcMap[j].handle].state # "free" /\ its[dcMap[j].handle].ref = j
          /\ chan[dcMap[j].sid].state = "open"
          /\ chan[dcMap[j].sid].conn = its[dcMap[j].handle].conn
    BY MappedParts DEF IInv, Paired, Shape
  <2>2. \A j \in Mapped : j # i /\ dcMap[j].handle # h /\ dcMap[j].sid # s
    BY <1>2, <2>1
  <2>. QED
    BY <2>1, <2>2, <1>6
<1>10. SlotsPair'
  <2>1. ASSUME NEW j \in Mapped'
        PROVE  /\ its'[dcMap'[j].handle].state # "free" /\ its'[dcMap'[j].handle].ref = j
               /\ chan'[dcMap'[j].sid].state = "open"
               /\ chan'[dcMap'[j].sid].conn = its'[dcMap'[j].handle].conn
    <3>1. CASE j = i
      BY <3>1, <1>5
    <3>2. CASE j \in Mapped
      BY <3>2, <1>9
    <3>. QED
      BY <3>1, <3>2, <1>7
  <2>. QED
    BY <2>1 DEF SlotsPair
<1>11. NoConnectionLeaked'
  <2>. SUFFICES ASSUME NEW g \in Handles, its'[g].state # "free"
                PROVE  \E j \in Mapped' : dcMap'[j].handle = g
    BY DEF NoConnectionLeaked
  <2>1. CASE g = h
    BY <2>1, <1>5, <1>7
  <2>2. CASE g # h
    <3>1. PICK j \in Mapped : dcMap[j].handle = g
      BY <2>2, <1>6 DEF IInv, Paired, NoConnectionLeaked
    <3>. QED
      BY <3>1, <1>7, <1>9
  <2>. QED
    BY <2>1, <2>2
<1>12. ConnsDistinct'
  <2>1. ConnsDistinct
    BY DEF IInv
  <2>2. ASSUME NEW g \in Handles, g # h, its'[g].state # "free"
        PROVE  /\ its[g].state # "free" /\ its'[g].conn = its[g].conn
               /\ its'[g].conn \in 1..Len(opened) /\ its'[g].conn # c
    BY <2>1, <2>2, <1>3, <1>6 DEF ConnsDistinct, c
  <2>3. c = Len(opened) + 1
    BY DEF c
  <2>4. \A g \in Handles : its'[g].state # "free" => its'[g].conn \in 1..Len(opened')
    <3>1. its'[h].conn = c /\ c \in 1..c /\ 1..Len(opened) \subseteq 1..c
      BY <1>3, <1>5, <2>3
    <3>. QED
      BY <3>1, <2>2, <1>4
  <2>5. ASSUME NEW g \in Handles, NEW f \in Handles, its'[g].state # "free",
               its'[f].state # "free", its'[g].conn = its'[f].conn
        PROVE  g = f
    BY <2>1, <2>2, <2>5, <1>5 DEF ConnsDistinct
  <2>. QED
    BY <2>4, <2>5 DEF ConnsDistinct
<1>13. OpenChannels' = OpenChannels \cup {s} /\ Linked' /\ established'
  BY <1>2, <1>5, <1>6 DEF OpenChannels, Linked, session
<1>14. OpenChannelsServed'
  <2>1. ASSUME NEW r \in OpenChannels' PROVE SlotsOn(r)' # {}
    <3>1. CASE r = s
      BY <3>1, <1>5, <1>7 DEF SlotsOn
    <3>2. CASE r \in OpenChannels
      <4>1. PICK j \in Mapped : dcMap[j].sid = r
        BY <3>2, <1>2 DEF IInv, Paired, OpenChannelsServed, SlotsOn
      <4>2. j \in Mapped' /\ dcMap'[j].sid = r
        BY <4>1, <1>7, <1>9
      <4>. QED
        BY <4>2 DEF SlotsOn
    <3>. QED
      BY <3>1, <3>2, <1>13
  <2>. QED
    BY <2>1, <1>13 DEF OpenChannelsServed
<1>15. SessionOrder' /\ RightTarget'
  BY <1>2, <1>13 DEF IInv, SessionOrder, RightTarget, session
<1>. QED
  BY <1>8, <1>10, <1>11, <1>12, <1>14, <1>15 DEF IInv, Paired

LEMMA DcRefuseKeeps ==
  ASSUME IInv, NEW s \in Streams, DcRefuse(s)
  PROVE  IInv'
<1>1. /\ chan[s].state = "new" /\ Linked
      /\ chan' = [chan EXCEPT ![s] = [state |-> "closed", conn |-> NoConn]]
      /\ UNCHANGED <<session, dcMap, its, opened, sent, strayed>>
  BY DEF DcRefuse, Opening, history
<1>2. \A r \in Streams : chan'[r].state = "open" <=> chan[r].state = "open"
  BY <1>1 DEF IInv, Shape
<1>3. OpenChannels' = OpenChannels /\ Mapped' = Mapped /\ Linked' = Linked
  BY <1>1, <1>2 DEF OpenChannels, Mapped, Linked, session
<1>4. Shape'
  <2>1. chan' \in [Streams -> ChanRecord]
    BY <1>1 DEF IInv, Shape, ChanRecord, NoConn
  <2>. QED
    BY <1>1, <1>3, <2>1 DEF IInv, Shape, session
<1>5. SlotsPair'
  <2>1. ASSUME NEW j \in Mapped
        PROVE  /\ its[dcMap[j].handle].state # "free" /\ its[dcMap[j].handle].ref = j
               /\ chan'[dcMap[j].sid].state = "open"
               /\ chan'[dcMap[j].sid].conn = its[dcMap[j].handle].conn
    <3>1. dcMap[j].sid \in Streams /\ chan[dcMap[j].sid].state = "open"
      BY MappedParts DEF IInv, Paired, Shape
    <3>2. chan'[dcMap[j].sid] = chan[dcMap[j].sid]
      BY <1>1, <3>1 DEF IInv, Shape
    <3>. QED
      BY <3>2, MappedParts DEF IInv, Paired
  <2>. QED
    BY <1>1, <1>3, <2>1 DEF SlotsPair
<1>6. NoConnectionLeaked' /\ ConnsDistinct'
  BY <1>1, <1>3 DEF IInv, Paired, NoConnectionLeaked, ConnsDistinct
<1>7. \A r \in Streams : SlotsOn(r)' = SlotsOn(r)
  BY <1>1, <1>3 DEF SlotsOn
<1>8. OpenChannelsServed'
  BY <1>3, <1>7 DEF IInv, Paired, OpenChannelsServed, OpenChannels
<1>9. SessionOrder' /\ RightTarget'
  BY <1>1, <1>3 DEF IInv, SessionOrder, RightTarget, session
<1>. QED
  BY <1>4, <1>5, <1>6, <1>8, <1>9 DEF IInv, Paired

\* The browser's close finds a slot, and gives up that one.
LEMMA DcResetKeeps ==
  ASSUME IInv, NEW s \in Streams, DcReset(s)
  PROVE  IInv'
<1>1. SlotsOn(s) # {}
  BY DEF DcReset, IInv, Paired, OpenChannelsServed, OpenChannels
<1>2. PICK i \in Slots : /\ First(i, SlotsOn(s)) /\ dcMap' = Cleared(i)
                         /\ its' = Freed({dcMap[i].handle})
  BY <1>1 DEF DcReset
<1>3. i \in Mapped /\ dcMap[i].sid = s
  BY <1>2 DEF First, SlotsOn
<1>. QED
  BY <1>2, <1>3, SlotGivenUp DEF DcReset, history

\* The target's close names the slot the connection has, and closes its channel.
LEMMA OnItsDisconnectKeeps ==
  ASSUME IInv, NEW h \in Handles, OnItsDisconnect(h)
  PROVE  IInv'
<1>. DEFINE i == its[h].ref
<1>1. its[h].state # "free"
  BY DEF OnItsDisconnect
<1>2. i \in Mapped /\ dcMap[i].handle = h
  BY <1>1, LiveHandle DEF IInv, Paired
<1>3. Linked /\ chan[dcMap[i].sid].state = "open" /\ dcMap[i].sid \in Streams
  BY <1>2, MappedLinked, MappedParts DEF IInv, Paired, Shape
<1>4. chan' = [chan EXCEPT ![dcMap[i].sid] = [state |-> "closed", conn |-> NoConn]]
  BY <1>3 DEF OnItsDisconnect, IInv, Shape
<1>5. dcMap' = Cleared(i) /\ its' = Freed({dcMap[i].handle})
      /\ UNCHANGED <<session, opened, sent, strayed>>
  BY <1>2 DEF OnItsDisconnect, history
<1>. HIDE DEF i
<1>. QED
  BY <1>2, <1>4, <1>5, SlotGivenUp

\* An inbound message goes to the connection paired with its channel.
LEMMA DcDataKeeps ==
  ASSUME IInv, NEW s \in Streams, DcData(s)
  PROVE  IInv'
<1>1. PICK i \in Slots :
        /\ First(i, SlotsOn(s))
        /\ strayed' = IF its[dcMap[i].handle].conn = chan[s].conn THEN strayed
                      ELSE strayed \cup {<<s, its[dcMap[i].handle].conn>>}
  BY DEF DcData
<1>2. i \in Mapped /\ dcMap[i].sid = s
  BY <1>1 DEF First, SlotsOn
<1>3. strayed' = strayed
  BY <1>1, <1>2, MappedParts DEF IInv, Paired
<1>4. UNCHANGED <<session, chan, dcMap, its, opened, sent, strayed>>
  BY <1>3 DEF DcData
<1>5. Shape'
  BY <1>4 DEF IInv, Shape, session, Mapped
<1>. QED
  BY <1>4, <1>5, PairingKept

\* A step on the queues and stashes alone keeps the shape of the table.
LEMMA QueuesShaped ==
  ASSUME IInv, UNCHANGED <<session, chan, opened>>,
         dcMap' \in [Slots -> SlotRecord], its' \in [Handles -> HandleRecord],
         sent' \in [Conns -> Nat],
         \A i \in Slots : /\ dcMap'[i].handle = dcMap[i].handle
                          /\ dcMap'[i].sid = dcMap[i].sid
  PROVE  Shape'
<1>1. \A i \in Mapped' : dcMap'[i].sid \in Streams
  BY DEF Mapped, IInv, Shape
<1>. QED
  BY <1>1 DEF IInv, Shape, session

LEMMA TargetSendKeeps ==
  ASSUME IInv, NEW h \in Handles, TargetSend(h)
  PROVE  IInv'
<1>. DEFINE c == its[h].conn
            q == Append(its[h].queue, <<c, sent[c] + 1>>)
<1>1. /\ its[h].state = "open"
      /\ sent' = [sent EXCEPT ![c] = @ + 1]
      /\ its' = [its EXCEPT ![h].queue = Append(@, <<c, sent[c] + 1>>)]
      /\ UNCHANGED <<session, chan, dcMap, opened, strayed>>
  BY DEF TargetSend
<1>2. its \in [Handles -> HandleRecord] /\ sent \in [Conns -> Nat]
      /\ dcMap \in [Slots -> SlotRecord]
  BY DEF IInv, Shape
<1>3. c \in Conns
  <2>1. c \in 1..Len(opened) /\ Len(opened) <= MaxConns /\ Len(opened) \in Nat
    BY <1>1 DEF IInv, Shape, ConnsDistinct
  <2>. QED
    BY <2>1, RouterAssumption DEF Conns
<1>4. sent[c] \in Nat /\ c \in Nat /\ its[h].queue \in Seq(Item)
  BY <1>2, <1>3 DEF HandleRecord
<1>5. q \in Seq(Item)
  BY <1>4 DEF Item
<1>6. sent' \in [Conns -> Nat]
  BY <1>1, <1>2, <1>3, <1>4
<1>7. its' = [its EXCEPT ![h] = [its[h] EXCEPT !.queue = q]]
  BY <1>1, <1>2
<1>. HIDE DEF c, q
<1>8. its' \in [Handles -> HandleRecord]
      /\ \A g \in Handles : /\ its'[g].state = its[g].state /\ its'[g].conn = its[g].conn
                            /\ its'[g].ref = its[g].ref
  BY <1>2, <1>5, <1>7 DEF HandleRecord
<1>9. Shape'
  BY <1>1, <1>2, <1>6, <1>8, QueuesShaped
<1>. QED
  BY <1>1, <1>8, <1>9, PairingKept

LEMMA TargetCloseKeeps ==
  ASSUME IInv, NEW h \in Handles, TargetClose(h)
  PROVE  IInv'
<1>1. /\ its[h].state = "open" /\ its' = [its EXCEPT ![h].state = "closing"]
      /\ UNCHANGED <<session, chan, dcMap, opened, sent, strayed>>
  BY DEF TargetClose, history
<1>2. its \in [Handles -> HandleRecord] /\ dcMap \in [Slots -> SlotRecord]
      /\ sent \in [Conns -> Nat]
  BY DEF IInv, Shape
<1>3. its' \in [Handles -> HandleRecord]
      /\ \A g \in Handles : /\ its'[g].state = "free" <=> its[g].state = "free"
                            /\ its'[g].conn = its[g].conn /\ its'[g].ref = its[g].ref
  BY <1>1, <1>2 DEF HandleRecord
<1>4. Shape'
  BY <1>1, <1>2, <1>3, QueuesShaped
<1>. QED
  BY <1>1, <1>3, <1>4, PairingKept

LEMMA StashReplaced ==
  ASSUME dcMap \in [Slots -> SlotRecord], NEW i \in Slots, NEW q \in Seq(Item)
  PROVE  /\ [dcMap EXCEPT ![i].stash = q] \in [Slots -> SlotRecord]
         /\ \A j \in Slots : /\ [dcMap EXCEPT ![i].stash = q][j].handle = dcMap[j].handle
                             /\ [dcMap EXCEPT ![i].stash = q][j].sid = dcMap[j].sid
BY DEF SlotRecord

LEMMA ServeStashKeeps ==
  ASSUME IInv, NEW i \in Slots, NEW r, ServeStash(i, r)
  PROVE  IInv'
<1>1. /\ dcMap' = [dcMap EXCEPT ![i].stash = <<>>] \/ dcMap' = dcMap
      /\ UNCHANGED <<session, chan, its, opened, sent, strayed>>
  BY DEF ServeStash
<1>2. its \in [Handles -> HandleRecord] /\ dcMap \in [Slots -> SlotRecord]
      /\ sent \in [Conns -> Nat] /\ <<>> \in Seq(Item)
  BY EmptySeq DEF IInv, Shape
<1>3. dcMap' \in [Slots -> SlotRecord]
      /\ \A j \in Slots : /\ dcMap'[j].handle = dcMap[j].handle
                          /\ dcMap'[j].sid = dcMap[j].sid
  <2>1. CASE dcMap' = [dcMap EXCEPT ![i].stash = <<>>]
    BY <2>1, <1>2, StashReplaced
  <2>2. CASE dcMap' = dcMap
    BY <2>2, <1>2
  <2>. QED
    BY <2>1, <2>2, <1>1
<1>4. Shape'
  BY <1>1, <1>2, <1>3, QueuesShaped
<1>. QED
  BY <1>1, <1>3, <1>4, PairingKept

LEMMA ServeFreshKeeps ==
  ASSUME IInv, NEW i \in Slots, NEW r, NEW a, ServeFresh(i, r, a)
  PROVE  IInv'
<1>. DEFINE h == dcMap[i].handle
            m == Head(its[h].queue)
<1>1. /\ Picked(i) /\ dcMap[i].stash = <<>>
      /\ its' = [its EXCEPT ![h].queue = Tail(@)]
      /\ dcMap' = [dcMap EXCEPT ![i].stash = <<m>>] \/ dcMap' = dcMap
      /\ UNCHANGED <<session, chan, opened, sent, strayed>>
  BY DEF ServeFresh, Stashed
<1>2. its \in [Handles -> HandleRecord] /\ dcMap \in [Slots -> SlotRecord]
      /\ sent \in [Conns -> Nat]
  BY DEF IInv, Shape
<1>3. i \in Mapped /\ its[h].queue # <<>>
  BY <1>1 DEF Picked, TopLevel, Workers, HasWork
<1>4. h \in Handles /\ its[h].queue \in Seq(Item)
  BY <1>2, <1>3, MappedParts DEF IInv, Paired, HandleRecord
<1>5. m \in Item /\ Tail(its[h].queue) \in Seq(Item)
  BY <1>3, <1>4
<1>6. <<m>> \in Seq(Item)
  BY <1>5
<1>7. its' = [its EXCEPT ![h] = [its[h] EXCEPT !.queue = Tail(its[h].queue)]]
  BY <1>1, <1>2
<1>. HIDE DEF h, m
<1>8. its' \in [Handles -> HandleRecord]
      /\ \A g \in Handles : /\ its'[g].state = its[g].state /\ its'[g].conn = its[g].conn
                            /\ its'[g].ref = its[g].ref
  BY <1>2, <1>5, <1>7 DEF HandleRecord
<1>9. dcMap' \in [Slots -> SlotRecord]
      /\ \A j \in Slots : /\ dcMap'[j].handle = dcMap[j].handle
                          /\ dcMap'[j].sid = dcMap[j].sid
  <2>1. CASE dcMap' = [dcMap EXCEPT ![i].stash = <<m>>]
    BY <2>1, <1>2, <1>6, StashReplaced, ZenonT(40)
  <2>2. CASE dcMap' = dcMap
    BY <2>2, <1>2
  <2>. QED
    BY <2>1, <2>2, <1>1
<1>10. Shape'
  BY <1>1, <1>2, <1>8, <1>9, QueuesShaped
<1>. QED
  BY <1>1, <1>8, <1>9, <1>10, PairingKept

LEMMA EndPassKeeps ==
  ASSUME IInv, EndPass \/ \E i \in Slots : ServeNothing(i)
  PROVE  IInv'
<1>1. UNCHANGED <<session, chan, dcMap, its, opened, sent, strayed>>
  BY DEF EndPass, ServeNothing, history
<1>2. Shape'
  BY <1>1 DEF IInv, Shape, session, Mapped
<1>. QED
  BY <1>1, <1>2, PairingKept

\* A session that comes up, or an association on it, finds no slot and no open channel.
LEMMA ComingUpKeeps ==
  ASSUME IInv, Handshake \/ Associate
  PROVE  IInv'
<1>1. /\ UNCHANGED <<active, chan, dcMap, its, opened, sent, strayed>>
      /\ connected' \in BOOLEAN /\ established' \in BOOLEAN
      /\ active \/ connected
      /\ ~(connected /\ established)
      /\ connected' /\ (established' = established \/ connected)
      /\ established => established'
  BY DEF Handshake, Associate, history, IInv, Shape
<1>2. ~Linked /\ Mapped = {} /\ Mapped' = Mapped
  BY <1>1 DEF Linked, IInv, Paired, OpenChannelsServed, Mapped
<1>3. OpenChannels = {} /\ OpenChannels' = OpenChannels
  BY <1>1 DEF IInv, SessionOrder, OpenChannels
<1>4. Shape'
  BY <1>1, <1>2 DEF IInv, Shape
<1>5. ConnsDistinct' /\ RightTarget'
  BY <1>1 DEF IInv, ConnsDistinct, RightTarget
<1>6. SlotsPair' /\ NoConnectionLeaked'
  BY <1>1, <1>2 DEF IInv, Paired, SlotsPair, NoConnectionLeaked
<1>7. OpenChannelsServed'
  BY <1>2, <1>3 DEF OpenChannelsServed
<1>8. SessionOrder'
  BY <1>1, <1>3 DEF IInv, SessionOrder
<1>. QED
  BY <1>4, <1>5, <1>6, <1>7, <1>8 DEF IInv, Paired

LEMMA TeardownKeeps ==
  ASSUME IInv, Offer \/ SessionTeardown \/ LinkDown \/ Abort \/ Restart
  PROVE  IInv'
<1>1. CASE Offer \/ SessionTeardown \/ Restart
  <2>1. /\ ClearAll /\ ResetAssociation /\ UNCHANGED <<opened, sent, strayed>>
        /\ active' \in BOOLEAN /\ connected' = FALSE
    BY <1>1 DEF Offer, SessionTeardown, Restart, history
  <2>. QED
    BY <2>1, TornDownAndReset
<1>2. CASE Abort
  <2>1. /\ ClearAll /\ ResetAssociation /\ UNCHANGED <<opened, sent, strayed>>
        /\ active' = active /\ connected' = connected
    BY <1>2 DEF Abort, history
  <2>. QED
    BY <2>1, TornDownAndReset DEF IInv, Shape, SessionOrder
<1>3. CASE LinkDown
  <2>1. /\ ClearAll /\ UNCHANGED <<established, chan, opened, sent, strayed>>
        /\ \/ connected /\ active' = FALSE /\ connected' = FALSE
           \/ ~connected /\ active' = active /\ connected' = connected
    BY <1>3 DEF LinkDown, history
  <2>2. OpenChannels' = OpenChannels /\ ~Linked'
    BY <2>1 DEF OpenChannels, Linked
  <2>3. SessionOrder'
    BY <2>1, <2>2 DEF IInv, SessionOrder
  <2>4. /\ active' \in BOOLEAN /\ connected' \in BOOLEAN /\ established' \in BOOLEAN
        /\ chan' \in [Streams -> ChanRecord]
    BY <2>1 DEF IInv, Shape
  <2>. QED
    BY <2>1, <2>2, <2>3, <2>4, TornDown
<1>. QED
  BY <1>1, <1>2, <1>3

-----------------------------------------------------------------------------
(* The invariant, and the theorems. *)

LEMMA InvInit == Init => IInv
<1>. SUFFICES ASSUME Init PROVE IInv
  OBVIOUS
<1>1. Mapped = {} /\ OpenChannels = {}
  BY EmptyTyped DEF Init, Mapped, OpenChannels
<1>2. \A h \in Handles : its[h].state = "free"
  BY EmptyTyped DEF Init
<1>3. opened \in Seq(Levels) /\ Len(opened) <= MaxConns
  <2>1. <<>> \in Seq(Levels) /\ Len(<<>>) = 0
    BY EmptySeq
  <2>. QED
    BY <2>1, Distinct DEF Init
<1>4. Shape
  BY <1>1, <1>3, EmptyTyped DEF Init, Shape
<1>5. ConnsDistinct /\ NoConnectionLeaked
  BY <1>2 DEF ConnsDistinct, NoConnectionLeaked
<1>6. SlotsPair /\ OpenChannelsServed /\ SessionOrder /\ RightTarget
  BY <1>1 DEF SlotsPair, OpenChannelsServed, SessionOrder, RightTarget, Init
<1>. QED
  BY <1>4, <1>5, <1>6 DEF IInv, Paired

LEMMA InvNext == IInv /\ [Next]_vars => IInv'
<1>. SUFFICES ASSUME IInv, [Next]_vars PROVE IInv'
  OBVIOUS
<1>1. CASE \E s \in Streams, h \in Handles, p \in Levels, a \in AllocOutcomes :
             DcOpen(s, h, p, a)
  BY <1>1, DcOpenKeeps
<1>2. CASE \E s \in Streams : DcRefuse(s) \/ DcReset(s) \/ DcData(s)
  BY <1>2, DcRefuseKeeps, DcResetKeeps, DcDataKeeps
<1>3. CASE \E h \in Handles : TargetSend(h) \/ TargetClose(h) \/ OnItsDisconnect(h)
  BY <1>3, TargetSendKeeps, TargetCloseKeeps, OnItsDisconnectKeeps
<1>4. CASE Sent \/ NotSent
  BY <1>4, ServeStashKeeps, ServeFreshKeeps DEF Sent, NotSent
<1>5. CASE EndPass \/ \E i \in Slots : ServeNothing(i)
  BY <1>5, EndPassKeeps
<1>6. CASE Handshake \/ Associate
  BY <1>6, ComingUpKeeps
<1>7. CASE Offer \/ SessionTeardown \/ LinkDown \/ Abort \/ Restart
  BY <1>7, TeardownKeeps
<1>8. CASE UNCHANGED vars
  <2>1. UNCHANGED <<session, chan, dcMap, its, opened, sent, strayed>>
    BY <1>8 DEF vars, history
  <2>2. Shape'
    BY <2>1 DEF IInv, Shape, session, Mapped
  <2>. QED
    BY <2>1, <2>2, PairingKept
<1>. QED
  BY <1>1, <1>2, <1>3, <1>4, <1>5, <1>6, <1>7, <1>8 DEF Next

\* webrtc_task.cpp: through every order of opens, closes by the browser or by the
\* target, and teardowns, whatever slots and handles are reused, the table of the
\* router pairs each open channel with the one connection made for it, and no
\* connection is left behind.
THEOREM RouterPairs == Spec => []Paired
<1>1. IInv => Paired
  BY DEF IInv
<1>. QED
  BY <1>1, InvInit, InvNext, PTL DEF Spec

\* webrtcDcData: what the browser sends on a channel reaches no other channel's
\* connection.
THEOREM RouterReachesRightTarget == Spec => []RightTarget
<1>1. IInv => RightTarget
  BY DEF IInv
<1>. QED
  BY <1>1, InvInit, InvNext, PTL DEF Spec

=============================================================================
