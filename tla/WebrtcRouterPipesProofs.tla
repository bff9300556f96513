---------------------- MODULE WebrtcRouterPipesProofs ----------------------
(***************************************************************************)
(* Types, the sharing of a level and the refinement of MessagePipes, for   *)
(* the DataChannel router.                                                 *)
(*                                                                         *)
(* The table is used as WebrtcRouterProofs left it: IInv pairs every used  *)
(* slot with a connection of its own.  With the types and with Blank it    *)
(* makes TableInv.  Every step is then one of five kinds (StepKinds): a    *)
(* channel opens, a set of slots is dropped, a target sends or closes, a   *)
(* message is offered to the association, or a pass ends; what a kind does *)
(* to slots and connections is stated once (OpenFacts, DropFacts ...) and  *)
(* is all the proofs below use.                                            *)
(*                                                                         *)
(* Round robin.  While j waits and only its level is served, the cursor    *)
(* moves along the arc of slots that ends at j: it started at the slot i   *)
(* that was served when the wait began, and a slot picked no farther from  *)
(* the cursor than j lies on that arc and is not i (RoundGoesOn).  So i is *)
(* not served again before j.  Turns says this of every wait in out, and   *)
(* BurstsShare follows when the next entry is written.                     *)
(*                                                                         *)
(* Refinement.  The pipes can be read off the used slots (Filled), and     *)
(* each kind of step is one step of MessagePipes or none.                  *)
(***************************************************************************)
EXTENDS WebrtcRouterProofs

-----------------------------------------------------------------------------
(* The invariants. *)

\* The connection of a used slot.
ConnOf(i) == its[dcMap[i].handle].conn

\* A slot or handle that is not used holds nothing of its last connection.
Blank ==
  /\ \A i \in FreeSlots : dcMap[i] = EmptySlot
  /\ \A h \in Handles : its[h].state = "free" => its[h] = FreeHandle

\* The scheduler goes by the priority the connection was opened with.
Ranked == \A i \in Mapped : dcMap[i].priority = opened[ConnOf(i)]

\* The history speaks of connections that were made.
Recorded == \A n \in DOMAIN out :
  /\ out[n].conn \in 1..Len(opened)
  /\ \A c \in out[n].ready : c \in 1..Len(opened)

\* Since the m-th entry, which served d, connection c has waited, and only its level
\* was served.
Waits(c, d, m) ==
  /\ out[m].ok /\ out[m].conn = d /\ c # d /\ SameLevel(c, d)
  /\ \A k \in m..Len(out) :
       c \in out[k].ready /\ out[k].conn # c /\ SameLevel(c, out[k].conn)

\* On the way round from slot i the cursor is before slot j.
Before(i, j) == (cursor - i) % MaxChannels < (j - i) % MaxChannels

\* The cursor has not come round to a connection that waits.
Turns == \A i, j \in Mapped : \A m \in DOMAIN out :
  Waits(ConnOf(j), ConnOf(i), m) => Before(i, j)

-----------------------------------------------------------------------------
(* Types, and what a used slot is known by. *)

ChanType == [state : {"new", "open", "closed"}, conn : {NoConn} \cup Conns]
SlotType == [handle : {NoHandle} \cup Handles, sid : {NoStream} \cup Streams,
             priority : {0} \cup Levels, stash : Seq(Message)]
HandleType == [state : {"free", "open", "closing"}, conn : {NoConn} \cup Conns,
               ref : Slots, queue : Seq(Message)]
EntryType == [conn : {NoConn} \cup Conns, msg : Message, ok : BOOLEAN,
              ready : SUBSET ({NoConn} \cup Conns)]

LEMMA Typed ==
  TypeOK <=>
  /\ active \in BOOLEAN /\ connected \in BOOLEAN /\ established \in BOOLEAN
  /\ chan \in [Streams -> ChanType] /\ dcMap \in [Slots -> SlotType]
  /\ \A i \in Slots : Len(dcMap[i].stash) <= 1
  /\ its \in [Handles -> HandleType]
  /\ sized \in BOOLEAN /\ cursor \in Slots \cup {-1} /\ iter \in 0..(PassLimit - 1)
  /\ opened \in Seq(Levels) /\ sent \in [Conns -> Nat]
  /\ out \in Seq(EntryType)
  /\ passed \in [Conns -> Seq(Message)] /\ dropped \in [Conns -> Seq(Message)]
  /\ strayed \subseteq Streams \X ({NoConn} \cup Conns)
BY Zenon DEF TypeOK, ChanType, SlotType, HandleType, EntryType

LEMMA BlankTyped ==
  /\ EmptySlot \in SlotType /\ EmptySlot.handle = NoHandle /\ Len(EmptySlot.stash) = 0
  /\ FreeHandle \in HandleType /\ FreeHandle.state = "free"
  /\ [state |-> "closed", conn |-> NoConn] \in ChanType
<1>1. <<>> \in Seq(Message) /\ Len(<<>>) = 0
  BY EmptySeq
<1>. QED
  BY <1>1, Distinct DEF EmptySlot, FreeHandle, SlotType, HandleType, ChanType, NoStream

\* A used slot has a connection of its own, made once, and its channel leads there.
LEMMA Used ==
  ASSUME IInv, NEW i \in Mapped
  PROVE  /\ i \in Slots /\ dcMap[i].handle \in Handles /\ dcMap[i].sid \in Streams
         /\ its[dcMap[i].handle].state # "free" /\ its[dcMap[i].handle].ref = i
         /\ chan[dcMap[i].sid].conn = ConnOf(i)
         /\ ConnOf(i) \in 1..Len(opened) /\ ConnOf(i) \in Conns
         /\ \A j \in Mapped : ConnOf(i) = ConnOf(j) => i = j
<1>1. /\ i \in Slots /\ dcMap[i].handle \in Handles /\ dcMap[i].sid \in Streams
      /\ its[dcMap[i].handle].state # "free" /\ its[dcMap[i].handle].ref = i
      /\ chan[dcMap[i].sid].conn = ConnOf(i)
  BY MappedParts DEF IInv, Paired, Shape, ConnOf
<1>2. ConnOf(i) \in 1..Len(opened)
  BY <1>1 DEF IInv, ConnsDistinct, ConnOf
<1>3. ConnOf(i) \in Conns
  BY <1>2, RouterAssumption DEF IInv, Shape, Conns
<1>4. ASSUME NEW j \in Mapped, ConnOf(i) = ConnOf(j) PROVE i = j
  <2>1. /\ dcMap[j].handle \in Handles /\ its[dcMap[j].handle].state # "free"
        /\ its[dcMap[j].handle].ref = j
    BY MappedParts DEF IInv, Paired, Shape
  <2>2. dcMap[i].handle = dcMap[j].handle
    BY <1>1, <1>4, <2>1 DEF IInv, ConnsDistinct, ConnOf
  <2>. QED
    BY <1>1, <2>1, <2>2
<1>. QED
  BY <1>1, <1>2, <1>3, <1>4

\* A connection is live exactly when it has a slot, and what waits is there.
LEMMA LiveUsed ==
  IInv => Live = {ConnOf(i) : i \in Mapped}
<1> SUFFICES ASSUME IInv PROVE Live = {ConnOf(i) : i \in Mapped}
  OBVIOUS
<1>1. ASSUME NEW h \in Handles, its[h].state # "free"
      PROVE  \E i \in Mapped : ConnOf(i) = its[h].conn
  BY <1>1, LiveHandle DEF IInv, Paired, ConnOf
<1>2. ASSUME NEW i \in Mapped
      PROVE  dcMap[i].handle \in Handles /\ its[dcMap[i].handle].state # "free"
  BY Used
<1>. QED
  BY <1>1, <1>2 DEF Live, ConnOf

LEMMA WaitingUsed ==
  IInv /\ Blank =>
    \A i \in Mapped : Waiting(ConnOf(i)) = dcMap[i].stash \o its[dcMap[i].handle].queue
<1> SUFFICES ASSUME IInv, Blank, NEW i \in Mapped
             PROVE  Waiting(ConnOf(i)) = dcMap[i].stash \o its[dcMap[i].handle].queue
  OBVIOUS
<1> DEFINE c == ConnOf(i)
           g == CHOOSE f \in Handles : its[f].conn = c
<1>1. /\ dcMap[i].handle \in Handles /\ its[dcMap[i].handle].state # "free"
      /\ its[dcMap[i].handle].ref = i /\ its[dcMap[i].handle].conn = c
      /\ c \in Live /\ c # NoConn
  <2>1. c \in Live
    BY LiveUsed
  <2>2. c # NoConn
    BY Used DEF Conns, NoConn
  <2>. QED
    BY <2>1, <2>2, Used DEF ConnOf
<1>2. g \in Handles /\ its[g].conn = c
  BY <1>1
<1>3. its[g].state # "free"
  BY <1>1, <1>2 DEF Blank, FreeHandle
<1>4. g = dcMap[i].handle
  BY <1>1, <1>2, <1>3 DEF IInv, ConnsDistinct
<1>. QED
  BY <1>1, <1>4 DEF Waiting

-----------------------------------------------------------------------------
(* The steps of the router, by what they do to slots and connections. *)

\* The slots in G and their connections are given up; the session may change.
Drop(G) ==
  /\ dcMap' = [i \in Slots |-> IF i \in G THEN EmptySlot ELSE dcMap[i]]
  /\ its' = Freed({dcMap[i].handle : i \in G})
  /\ active' \in BOOLEAN /\ connected' \in BOOLEAN /\ established' \in BOOLEAN
  /\ chan' \in [Streams -> ChanType]
  /\ UNCHANGED <<sched, history>>

\* All that waits in slot i.
Pending(i) == dcMap[i].stash \o its[dcMap[i].handle].queue

\* One message of slot i is offered to the association: it is taken, or stays at the
\* head of what waits, or is dropped.
Serve(i, m, r) ==
  /\ Picked(i) /\ i \in Mapped
  /\ r \in {"sent", "refused", "kept"} /\ SctpSend(i, m, r)
  /\ Pending(i) # <<>> /\ m = Head(Pending(i))
  /\ \/ r = "sent" /\ Pending(i)' = Tail(Pending(i)) /\ dropped' = dropped
     \/ r # "sent" /\ Pending(i)' = Pending(i) /\ dropped' = dropped
     \/ /\ r # "sent" /\ Pending(i)' = Tail(Pending(i))
        /\ dropped' = [dropped EXCEPT ![ConnOf(i)] = Append(dropped[ConnOf(i)], m)]
  /\ dcMap' = [dcMap EXCEPT ![i].stash = dcMap'[i].stash]
  /\ dcMap'[i].stash \in Seq(Message) /\ Len(dcMap'[i].stash) <= 1
  /\ \E q \in Seq(Message) : its' = [its EXCEPT ![dcMap[i].handle].queue = q]
  /\ cursor' = (IF r = "sent" THEN i ELSE cursor)
  /\ iter' \in {0, NextIter}
  /\ UNCHANGED <<session, chan, sized, opened, sent, strayed>>

\* An iteration finds nothing to read, or a pass nothing to send.
Pauses ==
  /\ iter' \in {0, NextIter}
  /\ UNCHANGED <<session, chan, dcMap, its, sized, cursor, history>>

LEMMA Unmoved ==
  ASSUME IInv, TypeOK, UNCHANGED <<dcMap, its, sched, history>>,
         active' \in BOOLEAN, connected' \in BOOLEAN, established' \in BOOLEAN,
         chan' \in [Streams -> ChanType]
  PROVE  Drop({})
<1>1. dcMap \in [Slots -> SlotType] /\ its \in [Handles -> HandleType]
  BY Typed
<1>2. its = Freed({dcMap[i].handle : i \in {}})
  BY <1>1 DEF Freed
<1>3. dcMap = [i \in Slots |-> IF i \in {} THEN EmptySlot ELSE dcMap[i]]
  BY <1>1
<1>. QED
  BY <1>2, <1>3 DEF Drop

LEMMA OneDropped ==
  ASSUME IInv, TypeOK, NEW i \in Mapped, dcMap' = Cleared(i), its' = Freed({dcMap[i].handle}),
         active' \in BOOLEAN, connected' \in BOOLEAN, established' \in BOOLEAN,
         chan' \in [Streams -> ChanType], UNCHANGED <<sched, history>>
  PROVE  Drop({i})
<1>1. dcMap \in [Slots -> SlotType] /\ i \in Slots
  BY Typed, Used
<1>2. dcMap' = [j \in Slots |-> IF j \in {i} THEN EmptySlot ELSE dcMap[j]]
  BY <1>1 DEF Cleared
<1>3. {dcMap[j].handle : j \in {i}} = {dcMap[i].handle}
  OBVIOUS
<1>. QED
  BY <1>2, <1>3 DEF Drop

LEMMA AllDropped ==
  ASSUME IInv, TypeOK, Blank, ClearAll,
         active' \in BOOLEAN, connected' \in BOOLEAN, established' \in BOOLEAN,
         chan' \in [Streams -> ChanType], UNCHANGED <<sched, history>>
  PROVE  Drop(Mapped)
<1>1. \A i \in Slots : EmptySlot = IF i \in Mapped THEN EmptySlot ELSE dcMap[i]
  BY DEF Blank, FreeSlots
<1>2. dcMap' = [i \in Slots |-> IF i \in Mapped THEN EmptySlot ELSE dcMap[i]]
  BY <1>1 DEF ClearAll
<1>. QED
  BY <1>2 DEF ClearAll, Drop

LEMMA TearsDown ==
  ASSUME IInv, TypeOK, Blank, Offer \/ SessionTeardown \/ LinkDown \/ Abort \/ Restart
  PROVE  Drop(Mapped)
<1>1. NewChannels \in [Streams -> ChanType]
  BY DEF NewChannels, ChanType
<1>2. /\ chan \in [Streams -> ChanType] /\ active \in BOOLEAN /\ connected \in BOOLEAN
      /\ established \in BOOLEAN
  BY Typed
<1>3. /\ ClearAll /\ UNCHANGED <<sched, history>>
      /\ active' \in BOOLEAN /\ connected' \in BOOLEAN
      /\ ResetAssociation \/ UNCHANGED <<established, chan>>
  BY <1>2 DEF Offer, SessionTeardown, LinkDown, Abort, Restart
<1>4. chan' \in [Streams -> ChanType] /\ established' \in BOOLEAN
  BY <1>1, <1>2, <1>3 DEF ResetAssociation
<1>. QED
  BY <1>3, <1>4, AllDropped

LEMMA ComesUp ==
  ASSUME IInv, TypeOK, Handshake \/ Associate \/ UNCHANGED vars
  PROVE  Drop({})
<1>1. /\ chan \in [Streams -> ChanType] /\ active \in BOOLEAN /\ connected \in BOOLEAN
      /\ established \in BOOLEAN
  BY Typed
<1>2. /\ UNCHANGED <<dcMap, its, sched, history, chan>>
      /\ active' \in BOOLEAN /\ connected' \in BOOLEAN /\ established' \in BOOLEAN
  BY <1>1 DEF Handshake, Associate, vars, session
<1>. QED
  BY <1>1, <1>2, Unmoved

LEMMA Refuses ==
  ASSUME IInv, TypeOK, NEW s \in Streams, DcRefuse(s) \/ DcData(s)
  PROVE  Drop({})
<1>1. /\ chan \in [Streams -> ChanType] /\ active \in BOOLEAN /\ connected \in BOOLEAN
      /\ established \in BOOLEAN
  BY Typed
<1>2. CASE DcRefuse(s)
  <2>1. chan' = [chan EXCEPT ![s] = [state |-> "closed", conn |-> NoConn]]
        /\ UNCHANGED <<session, dcMap, its, sched, history>>
    BY <1>2 DEF DcRefuse
  <2>2. chan' \in [Streams -> ChanType]
    BY <1>1, <2>1, BlankTyped
  <2>. QED
    BY <1>1, <2>1, <2>2, Unmoved DEF session
<1>3. CASE DcData(s)
  <2>1. strayed' = {} /\ strayed = {}
    BY <1>3, DcDataKeeps DEF IInv, RightTarget
  <2>2. UNCHANGED <<session, chan, dcMap, its, sched, history>>
    BY <1>3, <2>1 DEF DcData, history
  <2>. QED
    BY <1>1, <2>2, Unmoved DEF session
<1>. QED
  BY <1>2, <1>3

LEMMA GivesUp ==
  ASSUME IInv, TypeOK,
         \/ \E s \in Streams : DcReset(s)
         \/ \E h \in Handles : OnItsDisconnect(h)
  PROVE  \E i \in Mapped : Drop({i})
<1>1. /\ chan \in [Streams -> ChanType] /\ active \in BOOLEAN /\ connected \in BOOLEAN
      /\ established \in BOOLEAN
  BY Typed
<1>2. ASSUME NEW s \in Streams, DcReset(s) PROVE \E i \in Mapped : Drop({i})
  <2>1. SlotsOn(s) # {}
    BY <1>2 DEF DcReset, IInv, Paired, OpenChannelsServed, OpenChannels
  <2>2. PICK i \in Slots : /\ First(i, SlotsOn(s)) /\ dcMap' = Cleared(i)
                           /\ its' = Freed({dcMap[i].handle})
    BY <1>2, <2>1 DEF DcReset
  <2>3. i \in Mapped
    BY <2>2 DEF First, SlotsOn
  <2>4. /\ chan' = [chan EXCEPT ![s] = [state |-> "closed", conn |-> NoConn]]
        /\ UNCHANGED <<session, sched, history>>
    BY <1>2 DEF DcReset
  <2>5. chan' \in [Streams -> ChanType]
    BY <1>1, <2>4, BlankTyped
  <2>. QED
    BY <1>1, <2>2, <2>3, <2>4, <2>5, OneDropped DEF session
<1>3. ASSUME NEW h \in Handles, OnItsDisconnect(h) PROVE \E i \in Mapped : Drop({i})
  <2> DEFINE i == its[h].ref
  <2>1. i \in Mapped /\ dcMap[i].handle = h
    BY <1>3, LiveHandle DEF OnItsDisconnect, IInv, Paired
  <2>2. dcMap' = Cleared(i) /\ its' = Freed({dcMap[i].handle})
        /\ UNCHANGED <<session, sched, history>>
    BY <1>3, <2>1 DEF OnItsDisconnect
  <2>3. chan' = [s \in Streams |->
                  IF Linked /\ s = dcMap[i].sid /\ chan[s].state = "open"
                  THEN [state |-> "closed", conn |-> NoConn] ELSE chan[s]]
    BY <1>3 DEF OnItsDisconnect
  <2>4. chan' \in [Streams -> ChanType]
    BY <1>1, <2>3, BlankTyped
  <2> HIDE DEF i
  <2>. QED
    BY <1>1, <2>1, <2>2, <2>4, OneDropped DEF session
<1>. QED
  BY <1>2, <1>3

LEMMA Single ==
  ASSUME NEW S, NEW w \in Seq(S), w # <<>>, Len(w) <= 1
  PROVE  Len(w) = 1 /\ Head(w) \in S /\ w = <<Head(w)>>
<1>1. Len(w) = 1
  BY EmptySeq
<1>. QED
  BY <1>1

LEMMA StashServed ==
  ASSUME IInv, TypeOK, NEW i \in Slots, NEW r \in {"sent", "refused", "kept"}, ServeStash(i, r)
  PROVE  \E m \in Message : Serve(i, m, r)
<1> DEFINE h == dcMap[i].handle
           st == dcMap[i].stash
           q == its[h].queue
           m == Head(st)
<1>1. /\ Picked(i) /\ st # <<>> /\ SctpSend(i, m, r)
      /\ cursor' = (IF r = "sent" THEN i ELSE cursor)
      /\ iter' \in {0, NextIter}
      /\ IF r = "sent" THEN dcMap' = [dcMap EXCEPT ![i].stash = <<>>] ELSE dcMap' = dcMap
      /\ dropped' = dropped
      /\ UNCHANGED <<session, chan, its, sized, opened, sent, strayed>>
  BY DEF ServeStash
<1>2. i \in Mapped
  BY <1>1 DEF Picked, TopLevel, Workers, HasWork
<1>3. /\ dcMap \in [Slots -> SlotType] /\ its \in [Handles -> HandleType] /\ h \in Handles
      /\ st \in Seq(Message) /\ Len(st) <= 1 /\ q \in Seq(Message)
  <2>1. dcMap \in [Slots -> SlotType] /\ its \in [Handles -> HandleType] /\ Len(st) <= 1
    BY Typed
  <2>2. h \in Handles
    BY <1>2, Used
  <2>. QED
    BY <2>1, <2>2 DEF SlotType, HandleType
<1>4. Len(st) = 1 /\ m \in Message /\ st = <<m>>
  <2>1. st # <<>>
    BY <1>1
  <2> HIDE DEF st
  <2>. QED
    BY <1>3, <2>1, Single
<1> HIDE DEF st, q, h, m
<1>5. st \o q # <<>> /\ m = Head(st \o q) /\ q = Tail(st \o q)
  BY <1>3, <1>4
<1>6. Pending(i) = st \o q
  BY DEF Pending, st, q, h
<1>7. q = <<>> \o q
  BY <1>3
<1>8. /\ dcMap'[i].stash \in Seq(Message) /\ Len(dcMap'[i].stash) <= 1
      /\ dcMap' = [dcMap EXCEPT ![i].stash = dcMap'[i].stash]
      /\ dcMap'[i].handle = h
      /\ dcMap'[i].stash = IF r = "sent" THEN <<>> ELSE st
  <2>1. CASE r = "sent"
    <3>1. dcMap' = [dcMap EXCEPT ![i].stash = <<>>]
      BY <1>1, <2>1
    <3>2. dcMap'[i].stash = <<>> /\ dcMap'[i].handle = h
      BY <3>1, <1>3 DEF SlotType, h
    <3>3. <<>> \in Seq(Message) /\ Len(<<>>) <= 1
      BY EmptySeq
    <3>. QED
      BY <2>1, <3>1, <3>2, <3>3
  <2>2. CASE r # "sent"
    <3>1. dcMap' = dcMap
      BY <1>1, <2>2
    <3>2. dcMap = [dcMap EXCEPT ![i].stash = dcMap[i].stash]
      BY <1>3 DEF SlotType
    <3>. QED
      BY <2>2, <3>1, <3>2, <1>3 DEF st, h
  <2>. QED
    BY <2>1, <2>2
<1>9. /\ its' = its /\ its' = [its EXCEPT ![dcMap[i].handle].queue = q]
      /\ its'[h].queue = q
  <2>1. its = [its EXCEPT ![h].queue = its[h].queue]
    BY <1>3 DEF HandleType
  <2>. QED
    BY <1>1, <2>1 DEF q, h
<1>10. Pending(i)' = dcMap'[i].stash \o q
  BY <1>8, <1>9 DEF Pending
<1>11. \/ r # "sent" /\ Pending(i)' = Pending(i)
       \/ r = "sent" /\ Pending(i)' = Tail(Pending(i))
  BY <1>5, <1>6, <1>7, <1>8, <1>10
<1>12. Pending(i) # <<>> /\ m = Head(Pending(i))
  BY <1>5, <1>6
<1>13. \E x \in Seq(Message) : its' = [its EXCEPT ![dcMap[i].handle].queue = x]
  BY <1>3, <1>9
<1>14. Serve(i, m, r)
  BY <1>1, <1>2, <1>8, <1>11, <1>12, <1>13 DEF Serve
<1>. QED
  BY <1>4, <1>14

LEMMA FreshServed ==
  ASSUME IInv, TypeOK, NEW i \in Slots, NEW r \in {"sent", "refused", "kept"},
         NEW a, ServeFresh(i, r, a)
  PROVE  \E m \in Message : Serve(i, m, r)
<1> DEFINE h == dcMap[i].handle
           q == its[h].queue
           m == Head(q)
<1>1. /\ Picked(i) /\ dcMap[i].stash = <<>> /\ SctpSend(i, m, r)
      /\ its' = [its EXCEPT ![h].queue = Tail(q)]
      /\ cursor' = (IF r = "sent" THEN i ELSE cursor)
      /\ iter' \in {0, NextIter}
      /\ \/ r = "sent" /\ dcMap' = dcMap /\ dropped' = dropped
         \/ r # "sent" /\ dcMap' = [dcMap EXCEPT ![i].stash = <<m>>] /\ dropped' = dropped
         \/ /\ r # "sent" /\ dcMap' = dcMap
            /\ dropped' = [dropped EXCEPT ![ConnOf(i)] = Append(dropped[ConnOf(i)], m)]
      /\ UNCHANGED <<session, chan, sized, opened, sent, strayed>>
  <2>1. its' = [its EXCEPT ![h].queue = Tail(@)]
    BY DEF ServeFresh
  <2>2. its' = [its EXCEPT ![h].queue = Tail(q)]
    BY <2>1
  <2>3. /\ Picked(i) /\ dcMap[i].stash = <<>> /\ SctpSend(i, m, r)
        /\ IF r = "sent"
           THEN cursor' = i /\ iter' = NextIter /\ UNCHANGED <<dcMap, dropped>>
           ELSE /\ dcMap' = Stashed(i, m, a) /\ iter' = 0 /\ UNCHANGED cursor
                /\ dropped' = IF a THEN dropped
                              ELSE [dropped EXCEPT ![its[h].conn] = Append(@, m)]
        /\ UNCHANGED <<session, chan, sized, opened, sent, strayed>>
    BY DEF ServeFresh
  <2>4. Stashed(i, m, a) = IF a THEN [dcMap EXCEPT ![i].stash = <<m>>] ELSE dcMap
    BY DEF Stashed
  <2>5. [dropped EXCEPT ![its[h].conn] = Append(@, m)]
          = [dropped EXCEPT ![ConnOf(i)] = Append(dropped[ConnOf(i)], m)]
    BY DEF ConnOf
  <2>. QED
    BY <2>2, <2>3, <2>4, <2>5
<1>2. i \in Mapped /\ q # <<>>
  BY <1>1 DEF Picked, TopLevel, Workers, HasWork
<1>3. /\ dcMap \in [Slots -> SlotType] /\ its \in [Handles -> HandleType] /\ h \in Handles
      /\ q \in Seq(Message)
  <2>1. dcMap \in [Slots -> SlotType] /\ its \in [Handles -> HandleType]
    BY Typed
  <2>2. h \in Handles
    BY <1>2, Used
  <2>. QED
    BY <2>1, <2>2 DEF HandleType
<1>4. m \in Message /\ Tail(q) \in Seq(Message) /\ q = <<m>> \o Tail(q)
  BY <1>2, <1>3
<1> HIDE DEF q, h, m
<1>5. Pending(i) = q
  <2>1. Pending(i) = <<>> \o q
    BY <1>1 DEF Pending, q, h
  <2>. QED
    BY <2>1, <1>3
<1>6. its'[h].queue = Tail(q)
  BY <1>1, <1>3 DEF HandleType
<1>7. /\ dcMap'[i].stash \in Seq(Message) /\ Len(dcMap'[i].stash) <= 1
      /\ dcMap' = [dcMap EXCEPT ![i].stash = dcMap'[i].stash]
      /\ dcMap'[i].handle = h
  <2>1. CASE dcMap' = dcMap
    <3>1. dcMap = [dcMap EXCEPT ![i].stash = dcMap[i].stash]
      BY <1>3 DEF SlotType
    <3>2. <<>> \in Seq(Message) /\ Len(<<>>) <= 1
      BY EmptySeq
    <3>. QED
      BY <2>1, <3>1, <3>2, <1>1 DEF h
  <2>2. CASE r # "sent" /\ dcMap' = [dcMap EXCEPT ![i].stash = <<m>>]
    <3>1. dcMap'[i].stash = <<m>> /\ dcMap'[i].handle = h
      BY <2>2, <1>3 DEF SlotType, h
    <3>2. <<m>> \in Seq(Message) /\ Len(<<m>>) <= 1
      BY <1>4
    <3>3. dcMap' = [dcMap EXCEPT ![i].stash = dcMap'[i].stash]
      BY <2>2, <3>1
    <3>4. dcMap'[i].stash \in Seq(Message) /\ Len(dcMap'[i].stash) <= 1
      BY <3>1, <3>2
    <3>. QED
      BY <2>2, <3>1, <3>3, <3>4
  <2>. QED
    BY <1>1, <2>1, <2>2
<1>8. Pending(i)' = dcMap'[i].stash \o Tail(q)
  BY <1>6, <1>7 DEF Pending
<1>9. Tail(q) = <<>> \o Tail(q)
  BY <1>4
<1>10. \/ r = "sent" /\ Pending(i)' = Tail(Pending(i)) /\ dropped' = dropped
       \/ r # "sent" /\ Pending(i)' = Pending(i) /\ dropped' = dropped
       \/ /\ r # "sent" /\ Pending(i)' = Tail(Pending(i))
          /\ dropped' = [dropped EXCEPT ![ConnOf(i)] = Append(dropped[ConnOf(i)], m)]
  <2>1. dcMap' = dcMap => Pending(i)' = Tail(Pending(i))
    BY <1>1, <1>5, <1>8, <1>9
  <2>2. dcMap' = [dcMap EXCEPT ![i].stash = <<m>>] => Pending(i)' = Pending(i)
    <3>1. dcMap' = [dcMap EXCEPT ![i].stash = <<m>>] => dcMap'[i].stash = <<m>>
      BY <1>3 DEF SlotType
    <3>. QED
      BY <1>4, <1>5, <1>8, <3>1
  <2>. QED
    BY <1>1, <2>1, <2>2
<1>11. \E x \in Seq(Message) : its' = [its EXCEPT ![dcMap[i].handle].queue = x]
  BY <1>1, <1>4 DEF h
<1>12. Pending(i) # <<>> /\ m = Head(Pending(i))
  BY <1>2, <1>5 DEF m
<1>13. Serve(i, m, r)
  BY <1>1, <1>2, <1>7, <1>10, <1>11, <1>12 DEF Serve
<1>. QED
  BY <1>4, <1>13

\* Every step is one of these.
LEMMA StepKinds ==
  ASSUME IInv, TypeOK, Blank, [Next]_vars
  PROVE  \/ \E s \in Streams, h \in Handles, p \in Levels, a \in AllocOutcomes : DcOpen(s, h, p, a)
         \/ \E G \in SUBSET Mapped : Drop(G)
         \/ \E h \in Handles : TargetSend(h) \/ TargetClose(h)
         \/ \E i \in Slots, m \in Message, r \in {"sent", "refused", "kept"} : Serve(i, m, r)
         \/ Pauses
<1>1. ASSUME NEW i \in Mapped, Drop({i}) PROVE \E G \in SUBSET Mapped : Drop(G)
  <2>1. {i} \in SUBSET Mapped
    OBVIOUS
  <2>. QED
    BY <1>1, <2>1
<1>2. Drop({}) \/ Drop(Mapped) => \E G \in SUBSET Mapped : Drop(G)
  <2>1. {} \in SUBSET Mapped /\ Mapped \in SUBSET Mapped
    OBVIOUS
  <2>. QED
    BY <2>1
<1>3. CASE UNCHANGED vars
  BY <1>2, <1>3, ComesUp
<1>4. CASE Next
  <2>1. CASE \E s \in Streams : DcRefuse(s) \/ DcData(s)
    BY <1>2, <2>1, Refuses
  <2>2. CASE (\E s \in Streams : DcReset(s)) \/ (\E h \in Handles : OnItsDisconnect(h))
    BY <1>1, <2>2, GivesUp
  <2>3. CASE Sent \/ NotSent
    <3>1. \/ \E i \in Slots, r \in {"sent", "refused", "kept"} : ServeStash(i, r)
          \/ \E i \in Slots, r \in {"sent", "refused", "kept"}, a \in AllocOutcomes \cup {TRUE} :
               ServeFresh(i, r, a)
      BY <2>3 DEF Sent, NotSent
    <3>. QED
      BY <3>1, StashServed, FreshServed
  <2>4. CASE Handshake \/ Associate
    BY <1>2, <2>4, ComesUp
  <2>5. CASE Offer \/ SessionTeardown \/ LinkDown \/ Abort \/ Restart
    BY <1>2, <2>5, TearsDown
  <2>6. CASE EndPass \/ \E i \in Slots : ServeNothing(i)
    BY <2>6 DEF EndPass, ServeNothing, Pauses
  <2>. QED
    BY <1>4, <2>1, <2>2, <2>3, <2>4, <2>5, <2>6 DEF Next
<1>. QED
  BY <1>3, <1>4

-----------------------------------------------------------------------------
(* What each kind of step leaves alone. *)

LEMMA DropFacts ==
  ASSUME IInv, NEW G \in SUBSET Mapped, Drop(G)
  PROVE  /\ Mapped' = Mapped \ G
         /\ \A i \in Mapped' : /\ i \in Mapped /\ dcMap'[i] = dcMap[i]
                               /\ its'[dcMap[i].handle] = its[dcMap[i].handle]
                               /\ ConnOf(i)' = ConnOf(i)
<1>1. \A i \in Slots : dcMap'[i] = IF i \in G THEN EmptySlot ELSE dcMap[i]
  BY DEF Drop
<1>2. Mapped' = Mapped \ G
  BY <1>1, EmptyTyped DEF Mapped
<1>3. ASSUME NEW i \in Mapped'
      PROVE  /\ i \in Mapped /\ dcMap'[i] = dcMap[i]
             /\ its'[dcMap[i].handle] = its[dcMap[i].handle]
             /\ ConnOf(i)' = ConnOf(i)
  <2>1. i \in Mapped /\ i \notin G /\ i \in Slots /\ dcMap[i].handle \in Handles
    BY <1>2, Used
  <2>2. dcMap'[i] = dcMap[i]
    BY <1>1, <2>1
  <2>3. ASSUME NEW j \in G PROVE dcMap[j].handle # dcMap[i].handle
    BY <2>1, Used
  <2>4. its'[dcMap[i].handle] = its[dcMap[i].handle]
    BY <2>1, <2>3 DEF Drop, Freed
  <2>. QED
    BY <2>1, <2>2, <2>4 DEF ConnOf
<1>. QED
  BY <1>2, <1>3

LEMMA OpenFacts ==
  ASSUME IInv, TypeOK, Blank, NEW s \in Streams, NEW h \in Handles, NEW p \in Levels, NEW a,
         DcOpen(s, h, p, a), NEW c, c = Len(opened) + 1
  PROVE  /\ c \in Conns /\ opened' = Append(opened, p) /\ its[h].state = "free"
         /\ chan' = [chan EXCEPT ![s] = [state |-> "open", conn |-> c]]
         /\ its' = [its EXCEPT ![h] = its'[h]] /\ its'[h] \in HandleType
         /\ its'[h].state # "free" /\ its'[h].conn = c /\ its'[h].queue = <<>>
         /\ \E i \in FreeSlots :
              /\ i \in Slots /\ Mapped' = Mapped \cup {i}
              /\ dcMap' = [dcMap EXCEPT ![i] = dcMap'[i]] /\ dcMap'[i] \in SlotType
              /\ dcMap'[i].handle = h /\ dcMap'[i].priority = p /\ dcMap'[i].stash = <<>>
              /\ ConnOf(i)' = c
         /\ \A j \in Mapped : /\ dcMap'[j] = dcMap[j]
                              /\ its'[dcMap[j].handle] = its[dcMap[j].handle]
                              /\ ConnOf(j)' = ConnOf(j)
<1>1. PICK i \in Slots :
        /\ First(i, FreeSlots)
        /\ chan' = [chan EXCEPT ![s] = [state |-> "open", conn |-> c]]
        /\ dcMap' = [dcMap EXCEPT ![i].handle = h, ![i].sid = s, ![i].priority = p]
        /\ its' = [its EXCEPT ![h] = [state |-> "open", conn |-> c, ref |-> i, queue |-> <<>>]]
  BY DEF DcOpen
<1>2. opened' = Append(opened, p) /\ its[h].state = "free" /\ Len(opened) < MaxConns
  BY DEF DcOpen
<1>3. i \in FreeSlots
  BY <1>1 DEF First
<1>4. /\ dcMap \in [Slots -> SlotType] /\ its \in [Handles -> HandleType]
      /\ opened \in Seq(Levels)
  BY Typed
<1>5. c \in Conns
  <2>1. Len(opened) \in Nat
    BY <1>4
  <2>. QED
    BY <1>2, <2>1, RouterAssumption DEF Conns
<1>6. its'[h] = [state |-> "open", conn |-> c, ref |-> i, queue |-> <<>>]
  BY <1>1, <1>4
<1>7. its'[h] \in HandleType
  <2>1. <<>> \in Seq(Message)
    BY EmptySeq
  <2>. QED
    BY <1>5, <1>6, <2>1 DEF HandleType
<1>8. /\ dcMap'[i].handle = h /\ dcMap'[i].priority = p /\ dcMap'[i].stash = <<>>
      /\ dcMap'[i] \in SlotType
  <2>1. dcMap[i].stash = <<>>
    BY <1>3 DEF Blank, EmptySlot
  <2>2. dcMap'[i] = [dcMap[i] EXCEPT !.handle = h, !.sid = s, !.priority = p]
    BY <1>1, <1>4
  <2>3. dcMap[i] \in SlotType
    BY <1>4
  <2>4. dcMap'[i].handle = h /\ dcMap'[i].priority = p /\ dcMap'[i].stash = dcMap[i].stash
    BY <2>2, <2>3 DEF SlotType
  <2>5. dcMap'[i] \in SlotType
    BY <2>2, <2>3 DEF SlotType
  <2>. QED
    BY <2>1, <2>4, <2>5
<1>10. /\ \A j \in Slots : j # i => dcMap'[j] = dcMap[j]
       /\ \A g \in Handles : g # h => its'[g] = its[g]
       /\ dcMap' = [dcMap EXCEPT ![i] = dcMap'[i]] /\ its' = [its EXCEPT ![h] = its'[h]]
  BY <1>1, <1>4
<1>11. Mapped' = Mapped \cup {i}
  <2>1. dcMap'[i].handle # NoHandle
    BY <1>8, Distinct
  <2>. QED
    BY <1>10, <2>1 DEF Mapped
<1>12. ConnOf(i)' = c
  BY <1>6, <1>8 DEF ConnOf
<1>13. ASSUME NEW j \in Mapped
       PROVE  /\ dcMap'[j] = dcMap[j]
              /\ its'[dcMap[j].handle] = its[dcMap[j].handle]
              /\ ConnOf(j)' = ConnOf(j)
  <2>1. /\ j \in Slots /\ dcMap[j].handle \in Handles
        /\ its[dcMap[j].handle].state # "free"
    BY Used
  <2>2. j # i /\ dcMap[j].handle # h
    BY <1>2, <1>3, <2>1 DEF FreeSlots
  <2>. QED
    BY <1>10, <2>1, <2>2 DEF ConnOf
<1>14. its'[h].state # "free" /\ its'[h].conn = c /\ its'[h].queue = <<>>
  BY <1>6
<1>. QED
  BY <1>1, <1>2, <1>3, <1>5, <1>7, <1>8, <1>10, <1>11, <1>12, <1>13, <1>14

\* A step on one queue or one stash.
LEMMA TableKept ==
  ASSUME \A j \in Slots : dcMap'[j].handle = dcMap[j].handle,
         \A j \in Mapped : its'[dcMap[j].handle].conn = its[dcMap[j].handle].conn
  PROVE  /\ Mapped' = Mapped
         /\ \A j \in Mapped : ConnOf(j)' = ConnOf(j)
BY DEF Mapped, ConnOf

LEMMA ServeFacts ==
  ASSUME IInv, TypeOK, NEW i \in Slots, NEW m \in Message, NEW r, Serve(i, m, r)
  PROVE  /\ Mapped' = Mapped
         /\ \A j \in Mapped : ConnOf(j)' = ConnOf(j)
         /\ \A j \in Slots : /\ dcMap'[j].handle = dcMap[j].handle
                             /\ dcMap'[j].priority = dcMap[j].priority
                             /\ j # i => dcMap'[j] = dcMap[j]
         /\ \A h \in Handles : /\ its'[h].state = its[h].state
                               /\ its'[h].conn = its[h].conn
                               /\ h # dcMap[i].handle => its'[h] = its[h]
         /\ dcMap' \in [Slots -> SlotType] /\ its' \in [Handles -> HandleType]
         /\ \A j \in Slots : Len(dcMap'[j].stash) <= 1
<1>1. /\ dcMap \in [Slots -> SlotType] /\ its \in [Handles -> HandleType]
      /\ \A j \in Slots : Len(dcMap[j].stash) <= 1
  BY Typed
<1>2. PICK q \in Seq(Message) : its' = [its EXCEPT ![dcMap[i].handle].queue = q]
  BY DEF Serve
<1>3. PICK w \in Seq(Message) : w = dcMap'[i].stash /\ Len(w) <= 1
  BY DEF Serve
<1>4. dcMap' = [dcMap EXCEPT ![i].stash = w] /\ i \in Mapped
  BY <1>3 DEF Serve
<1>5. \A j \in Slots : /\ dcMap'[j].handle = dcMap[j].handle
                       /\ dcMap'[j].priority = dcMap[j].priority
                       /\ j # i => dcMap'[j] = dcMap[j]
  BY <1>1, <1>4 DEF SlotType
<1>6. dcMap[i].handle \in Handles
  BY <1>4, Used
<1>7. \A h \in Handles : /\ its'[h].state = its[h].state
                         /\ its'[h].conn = its[h].conn
                         /\ h # dcMap[i].handle => its'[h] = its[h]
  BY <1>1, <1>2, <1>6 DEF HandleType
<1>8. dcMap' \in [Slots -> SlotType]
  BY <1>1, <1>4 DEF SlotType
<1>9. its' \in [Handles -> HandleType]
  BY <1>1, <1>2, <1>6 DEF HandleType
<1>10. \A j \in Slots : Len(dcMap'[j].stash) <= 1
  BY <1>1, <1>3, <1>5
<1>11. \A j \in Mapped : dcMap[j].handle \in Handles
  BY Used
<1>. QED
  BY <1>5, <1>7, <1>8, <1>9, <1>10, <1>11, TableKept

\* A target sends, or asks for the end of its connection.
LEMMA TargetFacts ==
  ASSUME IInv, TypeOK, NEW h \in Handles, TargetSend(h) \/ TargetClose(h)
  PROVE  /\ Mapped' = Mapped /\ dcMap' = dcMap /\ its[h].state # "free"
         /\ \A j \in Mapped : ConnOf(j)' = ConnOf(j)
         /\ \A g \in Handles : /\ its'[g].state = "free" <=> its[g].state = "free"
                               /\ its'[g].conn = its[g].conn
                               /\ g # h => its'[g] = its[g]
         /\ its' \in [Handles -> HandleType]
         /\ its[h].conn \in Conns
<1>1. its \in [Handles -> HandleType] /\ sent \in [Conns -> Nat]
  BY Typed
<1>2. its[h].state = "open" /\ dcMap' = dcMap
  BY DEF TargetSend, TargetClose
<1>3. its[h].conn \in Conns
  <2>1. its[h].conn \in 1..Len(opened)
    BY <1>2 DEF IInv, ConnsDistinct
  <2>. QED
    BY <2>1, RouterAssumption DEF IInv, Shape, Conns
<1>4. \/ \E q \in Seq(Message) : its' = [its EXCEPT ![h].queue = q]
      \/ its' = [its EXCEPT ![h].state = "closing"]
  <2>1. CASE TargetSend(h)
    <3> DEFINE m == <<its[h].conn, sent[its[h].conn] + 1>>
    <3>1. its' = [its EXCEPT ![h].queue = Append(its[h].queue, m)]
      BY <2>1 DEF TargetSend
    <3>2. m \in Message
      BY <1>1, <1>3 DEF Message
    <3> HIDE DEF m
    <3>3. Append(its[h].queue, m) \in Seq(Message)
      BY <1>1, <3>2 DEF HandleType
    <3>. QED
      BY <3>1, <3>3
  <2>2. CASE TargetClose(h)
    BY <2>2 DEF TargetClose
  <2>. QED
    BY <2>1, <2>2
<1>5. its' \in [Handles -> HandleType]
  BY <1>1, <1>4, ZenonT(40) DEF HandleType
<1>6. \A g \in Handles : /\ its'[g].state = "free" <=> its[g].state = "free"
                         /\ its'[g].conn = its[g].conn
                         /\ g # h => its'[g] = its[g]
  BY <1>1, <1>2, <1>4 DEF HandleType
<1>7. \A j \in Mapped : dcMap[j].handle \in Handles
  BY Used
<1>. QED
  BY <1>2, <1>3, <1>5, <1>6, <1>7, TableKept

-----------------------------------------------------------------------------
(* Typing, and the parts of the invariant that follow from it. *)

LEMMA SendFacts ==
  ASSUME IInv, TypeOK, NEW i \in Slots, NEW m \in Message, NEW r, Serve(i, m, r)
  PROVE  \/ r = "refused" /\ out' = out
         \/ /\ r # "refused"
            /\ \E e \in EntryType :
                 /\ out' = Append(out, e)
                 /\ e.conn = ConnOf(i) /\ (e.ok <=> r = "sent")
                 /\ e.ready = {ConnOf(j) : j \in Workers}
<1>1. SctpSend(i, m, r) /\ i \in Mapped
  BY DEF Serve
<1>2. CASE r = "refused"
  BY <1>1, <1>2 DEF SctpSend
<1>3. CASE r # "refused"
  <2> DEFINE e == Entry(i, m, r)
  <2>1. chan[dcMap[i].sid].conn = ConnOf(i) /\ ConnOf(i) \in Conns
    BY <1>1, Used
  <2>2. /\ e.conn = ConnOf(i) /\ (e.ok <=> r = "sent")
        /\ e.ready = {ConnOf(j) : j \in Workers}
    BY <2>1 DEF Entry, ConnOf
  <2>3. ASSUME NEW j \in Workers PROVE ConnOf(j) \in Conns
    <3>1. j \in Mapped
      BY DEF Workers, HasWork
    <3>. QED
      BY <3>1, Used
  <2>4. e \in EntryType
    BY <2>1, <2>2, <2>3, ZenonT(40) DEF Entry, EntryType
  <2>5. out' = Append(out, e)
    BY <1>1, <1>3, <2>1 DEF SctpSend
  <2> HIDE DEF e
  <2>. QED
    BY <1>3, <2>2, <2>4, <2>5
<1>. QED
  BY <1>2, <1>3

\* A successful send is entered in the list of its connection, and only that.
LEMMA PassedFacts ==
  ASSUME IInv, TypeOK, NEW i \in Slots, NEW m \in Message, NEW r, Serve(i, m, r)
  PROVE  passed' = IF r = "sent"
                   THEN [passed EXCEPT ![ConnOf(i)] = Append(passed[ConnOf(i)], m)] ELSE passed
<1>1. SctpSend(i, m, r) /\ chan[dcMap[i].sid].conn = ConnOf(i)
  BY Used DEF Serve
<1>. QED
  BY <1>1 DEF SctpSend

\* A list of messages that grows at one connection keeps its type.
LEMMA ListGrows ==
  ASSUME NEW f \in [Conns -> Seq(Message)], NEW g, NEW c \in Conns, NEW m \in Message,
         g = f \/ g = [f EXCEPT ![c] = Append(f[c], m)]
  PROVE  g \in [Conns -> Seq(Message)]
<1>1. Append(f[c], m) \in Seq(Message)
  OBVIOUS
<1>. QED
  BY <1>1

LEMMA TypeDrop ==
  ASSUME IInv, TypeOK, NEW G \in SUBSET Mapped, Drop(G)
  PROVE  TypeOK'
<1>1. /\ dcMap \in [Slots -> SlotType] /\ its \in [Handles -> HandleType]
      /\ \A j \in Slots : Len(dcMap[j].stash) <= 1
  BY Typed
<1>2. dcMap' \in [Slots -> SlotType]
  BY <1>1, BlankTyped DEF Drop
<1>3. \A j \in Slots : Len(dcMap'[j].stash) <= 1
  <2>1. \A j \in Slots : dcMap'[j] = EmptySlot \/ dcMap'[j] = dcMap[j]
    BY DEF Drop
  <2>2. Len(EmptySlot.stash) <= 1
    BY BlankTyped
  <2>. QED
    BY <1>1, <2>1, <2>2
<1>4. its' \in [Handles -> HandleType]
  BY <1>1, BlankTyped DEF Drop, Freed
<1>5. UNCHANGED <<sched, history>> /\ active' \in BOOLEAN /\ connected' \in BOOLEAN
      /\ established' \in BOOLEAN /\ chan' \in [Streams -> ChanType]
  BY DEF Drop
<1>6. /\ sized' \in BOOLEAN /\ cursor' \in Slots \cup {-1} /\ iter' \in 0..(PassLimit - 1)
      /\ opened' \in Seq(Levels) /\ sent' \in [Conns -> Nat]
      /\ out' \in Seq(EntryType) /\ passed' \in [Conns -> Seq(Message)]
      /\ dropped' \in [Conns -> Seq(Message)]
      /\ strayed' \subseteq Streams \X ({NoConn} \cup Conns)
  BY <1>5, Typed DEF sched, history
<1>. QED
  BY <1>2, <1>3, <1>4, <1>5, <1>6, Zenon DEF TypeOK, ChanType, SlotType, HandleType, EntryType

LEMMA TypeOpen ==
  ASSUME IInv, TypeOK, Blank, NEW s \in Streams, NEW h \in Handles, NEW p \in Levels,
         NEW a \in AllocOutcomes, DcOpen(s, h, p, a)
  PROVE  TypeOK'
<1>1. PICK c : c = Len(opened) + 1
  OBVIOUS
<1>2. /\ c \in Conns /\ opened' = Append(opened, p)
      /\ chan' = [chan EXCEPT ![s] = [state |-> "open", conn |-> c]]
      /\ its' = [its EXCEPT ![h] = its'[h]] /\ its'[h] \in HandleType
  BY <1>1, OpenFacts
<1>3. PICK i \in Slots : /\ dcMap' = [dcMap EXCEPT ![i] = dcMap'[i]]
                         /\ dcMap'[i] \in SlotType /\ dcMap'[i].stash = <<>>
  BY <1>1, OpenFacts
<1>4. /\ dcMap \in [Slots -> SlotType] /\ its \in [Handles -> HandleType]
      /\ chan \in [Streams -> ChanType] /\ opened \in Seq(Levels)
      /\ \A j \in Slots : Len(dcMap[j].stash) <= 1
  BY Typed
<1>5. dcMap' \in [Slots -> SlotType] /\ its' \in [Handles -> HandleType]
  BY <1>2, <1>3, <1>4
<1>6. \A j \in Slots : Len(dcMap'[j].stash) <= 1
  <2>1. \A j \in Slots : j # i => dcMap'[j] = dcMap[j]
    BY <1>3, <1>4
  <2>2. Len(<<>>) <= 1
    BY EmptySeq
  <2>. QED
    BY <1>3, <1>4, <2>1, <2>2
<1>7. chan' \in [Streams -> ChanType]
  <2>1. [state |-> "open", conn |-> c] \in ChanType
    BY <1>2 DEF ChanType
  <2>. QED
    BY <1>2, <1>4, <2>1
<1>8. opened' \in Seq(Levels)
  BY <1>2, <1>4
<1>9. sized' = (sized \/ a) /\ UNCHANGED <<session, cursor, iter, sent, out, passed, dropped, strayed>>
  BY DEF DcOpen
<1>10. sized' \in BOOLEAN
  <2>1. a \in BOOLEAN
    BY RouterAssumption
  <2>. QED
    BY <1>9, <2>1
<1>11. /\ active' \in BOOLEAN /\ connected' \in BOOLEAN /\ established' \in BOOLEAN
       /\ cursor' \in Slots \cup {-1} /\ iter' \in 0..(PassLimit - 1)
       /\ sent' \in [Conns -> Nat]
       /\ out' \in Seq(EntryType) /\ passed' \in [Conns -> Seq(Message)]
       /\ dropped' \in [Conns -> Seq(Message)]
       /\ strayed' \subseteq Streams \X ({NoConn} \cup Conns)
  BY <1>9, Typed DEF session
<1>. QED
  BY <1>5, <1>6, <1>7, <1>8, <1>10, <1>11, Zenon DEF TypeOK, ChanType, SlotType, HandleType, EntryType

LEMMA IterRange == TypeOK => {0, NextIter} \subseteq 0..(PassLimit - 1)
<1> SUFFICES ASSUME TypeOK PROVE {0, NextIter} \subseteq 0..(PassLimit - 1)
  OBVIOUS
<1>1. iter + 1 \in Int /\ PassLimit \in Nat \ {0}
  BY Typed, RouterAssumption
<1>2. (iter + 1) % PassLimit \in 0..(PassLimit - 1) /\ 0 \in 0..(PassLimit - 1)
  BY <1>1
<1>. QED
  BY <1>2 DEF NextIter

LEMMA TypeServe ==
  ASSUME IInv, TypeOK, NEW i \in Slots, NEW m \in Message, NEW r, Serve(i, m, r)
  PROVE  TypeOK'
<1>1. /\ dcMap' \in [Slots -> SlotType] /\ its' \in [Handles -> HandleType]
      /\ \A j \in Slots : Len(dcMap'[j].stash) <= 1
  BY ServeFacts
<1>2. /\ out \in Seq(EntryType)
      /\ passed \in [Conns -> Seq(Message)] /\ dropped \in [Conns -> Seq(Message)]
      /\ cursor \in Slots \cup {-1} /\ iter \in 0..(PassLimit - 1)
  BY Typed
<1>3. PICK c \in Conns : c = ConnOf(i)
  BY Used DEF Serve
<1>4. /\ out' \in Seq(EntryType)
      /\ passed' \in [Conns -> Seq(Message)] /\ dropped' \in [Conns -> Seq(Message)]
  <2>1. out' \in Seq(EntryType)
    <3>1. CASE out' = out
      BY <1>2, <3>1
    <3>2. ASSUME NEW e \in EntryType, out' = Append(out, e) PROVE out' \in Seq(EntryType)
      BY <1>2, <3>2
    <3>. QED
      BY <3>1, <3>2, SendFacts
  <2>2. passed' \in [Conns -> Seq(Message)]
    <3>1. passed' = passed \/ passed' = [passed EXCEPT ![c] = Append(passed[c], m)]
      BY <1>3, PassedFacts
    <3>. QED
      BY <1>2, <3>1, ListGrows, ZenonT(30)
  <2>3. dropped' \in [Conns -> Seq(Message)]
    <3>1. \/ dropped' = dropped
          \/ dropped' = [dropped EXCEPT ![c] = Append(dropped[c], m)]
      BY <1>3 DEF Serve
    <3>. QED
      BY <1>2, <3>1, ListGrows, ZenonT(30)
  <2>. QED
    BY <2>1, <2>2, <2>3
<1>5. cursor' \in Slots \cup {-1}
  BY <1>2 DEF Serve
<1>6. iter' \in 0..(PassLimit - 1)
  BY IterRange DEF Serve
<1>7. UNCHANGED <<session, chan, sized, opened, sent, strayed>>
  BY DEF Serve
<1>8. /\ active' \in BOOLEAN /\ connected' \in BOOLEAN /\ established' \in BOOLEAN
      /\ chan' \in [Streams -> ChanType] /\ sized' \in BOOLEAN
      /\ opened' \in Seq(Levels) /\ sent' \in [Conns -> Nat]
      /\ strayed' \subseteq Streams \X ({NoConn} \cup Conns)
  BY <1>7, Typed DEF session
<1>. QED
  BY <1>1, <1>4, <1>5, <1>6, <1>8, Zenon DEF TypeOK, ChanType, SlotType, HandleType, EntryType

LEMMA TypeTarget ==
  ASSUME IInv, TypeOK, NEW h \in Handles, TargetSend(h) \/ TargetClose(h)
  PROVE  TypeOK'
<1>1. its' \in [Handles -> HandleType] /\ dcMap' = dcMap /\ its[h].conn \in Conns
  BY TargetFacts
<1>2. sent' \in [Conns -> Nat]
  <2>1. sent \in [Conns -> Nat]
    BY Typed
  <2>2. sent' = sent \/ sent' = [sent EXCEPT ![its[h].conn] = sent[its[h].conn] + 1]
    BY DEF TargetSend, TargetClose, history
  <2>. QED
    BY <1>1, <2>1, <2>2
<1>3. UNCHANGED <<session, chan, sched, opened, out, passed, dropped, strayed>>
  BY DEF TargetSend, TargetClose, history
<1>4. /\ active' \in BOOLEAN /\ connected' \in BOOLEAN /\ established' \in BOOLEAN
      /\ chan' \in [Streams -> ChanType] /\ dcMap' \in [Slots -> SlotType]
      /\ \A j \in Slots : Len(dcMap'[j].stash) <= 1
      /\ sized' \in BOOLEAN /\ cursor' \in Slots \cup {-1} /\ iter' \in 0..(PassLimit - 1)
      /\ opened' \in Seq(Levels)
      /\ out' \in Seq(EntryType) /\ passed' \in [Conns -> Seq(Message)]
      /\ dropped' \in [Conns -> Seq(Message)]
      /\ strayed' \subseteq Streams \X ({NoConn} \cup Conns)
  BY <1>1, <1>3, Typed DEF session, sched
<1>. QED
  BY <1>1, <1>2, <1>4, Zenon DEF TypeOK, ChanType, SlotType, HandleType, EntryType

LEMMA TypeEnd ==
  ASSUME TypeOK, Pauses
  PROVE  TypeOK'
<1>1. UNCHANGED <<session, chan, dcMap, its, sized, cursor, history>>
  BY DEF Pauses
<1>2. iter' \in 0..(PassLimit - 1)
  BY IterRange DEF Pauses
<1>. QED
  BY <1>1, <1>2 DEF TypeOK, session, history

LEMMA BlankKeeps ==
  ASSUME IInv, TypeOK, Blank, [Next]_vars
  PROVE  Blank'
<1>1. ASSUME NEW s \in Streams, NEW h \in Handles, NEW p \in Levels, NEW a \in AllocOutcomes,
             DcOpen(s, h, p, a)
      PROVE  Blank'
  <2>1. PICK c : c = Len(opened) + 1
    OBVIOUS
  <2>2. PICK i \in FreeSlots : /\ Mapped' = Mapped \cup {i}
                               /\ dcMap' = [dcMap EXCEPT ![i] = dcMap'[i]]
    BY <1>1, <2>1, OpenFacts
  <2>3. its' = [its EXCEPT ![h] = its'[h]] /\ its'[h].state # "free"
    BY <1>1, <2>1, OpenFacts
  <2>4. dcMap \in [Slots -> SlotType] /\ its \in [Handles -> HandleType]
    BY Typed
  <2>5. \A j \in FreeSlots' : j \in FreeSlots /\ dcMap'[j] = dcMap[j]
    BY <2>2, <2>4 DEF FreeSlots
  <2>6. \A g \in Handles : its'[g].state = "free" => its'[g] = its[g]
    BY <2>3, <2>4
  <2>. QED
    BY <2>5, <2>6 DEF Blank
<1>2. ASSUME NEW G \in SUBSET Mapped, Drop(G) PROVE Blank'
  <2>1. Mapped' = Mapped \ G
    BY <1>2, DropFacts
  <2>2. \A j \in FreeSlots' : dcMap'[j] = EmptySlot
    <3>1. \A j \in Slots : dcMap'[j] = IF j \in G THEN EmptySlot ELSE dcMap[j]
      BY <1>2 DEF Drop
    <3>. QED
      BY <2>1, <3>1 DEF FreeSlots, Blank
  <2>3. \A g \in Handles : its'[g].state = "free" => its'[g] = FreeHandle
    <3>1. \A g \in Handles : its'[g] = FreeHandle \/ its'[g] = its[g]
      BY <1>2 DEF Drop, Freed
    <3>. QED
      BY <3>1 DEF Blank
  <2>. QED
    BY <2>2, <2>3 DEF Blank
<1>3. ASSUME NEW h \in Handles, TargetSend(h) \/ TargetClose(h) PROVE Blank'
  <2>1. Mapped' = Mapped /\ dcMap' = dcMap
    BY <1>3, TargetFacts
  <2>2. \A g \in Handles : its'[g].state = "free" => its[g].state = "free" /\ its'[g] = its[g]
    BY <1>3, TargetFacts
  <2>. QED
    BY <2>1, <2>2 DEF Blank, FreeSlots
<1>4. ASSUME NEW i \in Slots, NEW m \in Message, NEW r, Serve(i, m, r) PROVE Blank'
  <2>1. Mapped' = Mapped /\ \A j \in Slots : j # i => dcMap'[j] = dcMap[j]
    BY <1>4, ServeFacts
  <2>2. i \in Mapped /\ its[dcMap[i].handle].state # "free"
    BY <1>4, Used DEF Serve
  <2>3. \A g \in Handles : /\ its'[g].state = its[g].state
                           /\ g # dcMap[i].handle => its'[g] = its[g]
    BY <1>4, ServeFacts
  <2>4. \A j \in FreeSlots' : j \in FreeSlots /\ dcMap'[j] = dcMap[j]
    BY <2>1, <2>2 DEF FreeSlots
  <2>5. \A g \in Handles : its'[g].state = "free" => its[g].state = "free" /\ its'[g] = its[g]
    BY <2>2, <2>3
  <2>. QED
    BY <2>4, <2>5 DEF Blank
<1>5. CASE Pauses
  BY <1>5 DEF Pauses, Blank, FreeSlots, Mapped
<1>. QED
  BY <1>1, <1>2, <1>3, <1>4, <1>5, StepKinds

LEMMA TypeKeeps ==
  ASSUME IInv, TypeOK, Blank, [Next]_vars
  PROVE  TypeOK'
BY StepKinds, TypeOpen, TypeDrop, TypeTarget, TypeServe, TypeEnd

LEMMA RankedKeeps ==
  ASSUME IInv, TypeOK, Blank, Ranked, [Next]_vars
  PROVE  Ranked'
<1>1. ASSUME NEW s \in Streams, NEW h \in Handles, NEW p \in Levels, NEW a \in AllocOutcomes,
             DcOpen(s, h, p, a)
      PROVE  Ranked'
  <2>1. PICK c : c = Len(opened) + 1
    OBVIOUS
  <2>2. opened' = Append(opened, p) /\ opened \in Seq(Levels)
    BY <1>1, <2>1, OpenFacts, Typed
  <2>3. opened'[c] = p /\ \A d \in 1..Len(opened) : opened'[d] = opened[d]
    BY <2>1, <2>2
  <2>4. PICK i \in FreeSlots : /\ Mapped' = Mapped \cup {i}
                               /\ dcMap'[i].priority = p /\ ConnOf(i)' = c
    BY <1>1, <2>1, OpenFacts
  <2>5. ASSUME NEW j \in Mapped PROVE dcMap'[j].priority = opened'[ConnOf(j)']
    <3>1. dcMap'[j] = dcMap[j] /\ ConnOf(j)' = ConnOf(j)
      BY <1>1, <2>1, OpenFacts
    <3>2. ConnOf(j) \in 1..Len(opened)
      BY Used
    <3>. QED
      BY <2>3, <3>1, <3>2 DEF Ranked
  <2>. QED
    BY <2>3, <2>4, <2>5 DEF Ranked
<1>2. ASSUME NEW G \in SUBSET Mapped, Drop(G) PROVE Ranked'
  <2>1. \A i \in Mapped' : i \in Mapped /\ dcMap'[i] = dcMap[i] /\ ConnOf(i)' = ConnOf(i)
    BY <1>2, DropFacts
  <2>. QED
    BY <1>2, <2>1 DEF Ranked, Drop, history
<1>3. ASSUME NEW h \in Handles, TargetSend(h) \/ TargetClose(h) PROVE Ranked'
  <2>1. opened' = opened
    BY <1>3 DEF TargetSend, TargetClose, history
  <2>2. Mapped' = Mapped /\ dcMap' = dcMap /\ \A j \in Mapped : ConnOf(j)' = ConnOf(j)
    BY <1>3, TargetFacts
  <2>. QED
    BY <2>1, <2>2 DEF Ranked
<1>4. ASSUME NEW i \in Slots, NEW m \in Message, NEW r, Serve(i, m, r) PROVE Ranked'
  <2>1. opened' = opened
    BY <1>4 DEF Serve
  <2>2. /\ Mapped' = Mapped /\ \A j \in Mapped : ConnOf(j)' = ConnOf(j)
        /\ \A j \in Slots : dcMap'[j].priority = dcMap[j].priority
    BY <1>4, ServeFacts
  <2>. QED
    BY <2>1, <2>2 DEF Ranked, Mapped
<1>5. CASE Pauses
  BY <1>5 DEF Pauses, Ranked, Mapped, ConnOf, history
<1>. QED
  BY <1>1, <1>2, <1>3, <1>4, <1>5, StepKinds

\* The history grows by what was sent, and never changes.
LEMMA HistoryGrows ==
  ASSUME IInv, TypeOK, Blank, [Next]_vars
  PROVE  /\ opened' = opened \/ \E p \in Levels : opened' = Append(opened, p)
         /\ \/ out' = out
            \/ opened' = opened /\ \E i \in Slots, m \in Message : \E r : Serve(i, m, r) /\ r # "refused"
<1>1. ASSUME NEW s \in Streams, NEW h \in Handles, NEW p \in Levels, NEW a \in AllocOutcomes,
             DcOpen(s, h, p, a)
      PROVE  opened' = Append(opened, p) /\ out' = out
  BY <1>1 DEF DcOpen
<1>2. ASSUME NEW G \in SUBSET Mapped, Drop(G) PROVE opened' = opened /\ out' = out
  BY <1>2 DEF Drop, history
<1>3. ASSUME NEW h \in Handles, TargetSend(h) \/ TargetClose(h)
      PROVE  opened' = opened /\ out' = out
  BY <1>3 DEF TargetSend, TargetClose, history
<1>4. ASSUME NEW i \in Slots, NEW m \in Message, NEW r, Serve(i, m, r)
      PROVE  opened' = opened /\ (out' = out \/ r # "refused")
  BY <1>4, SendFacts DEF Serve
<1>5. Pauses => opened' = opened /\ out' = out
  BY DEF Pauses, history
<1>. QED
  BY <1>1, <1>2, <1>3, <1>4, <1>5, StepKinds

LEMMA RecordedKeeps ==
  ASSUME IInv, TypeOK, Blank, Recorded, [Next]_vars
  PROVE  Recorded'
<1>1. opened \in Seq(Levels) /\ out \in Seq(EntryType)
  BY Typed
<1>2. Len(opened) \in Nat /\ Len(opened') \in Nat /\ Len(opened) <= Len(opened')
  <2>1. ASSUME NEW p \in Levels, opened' = Append(opened, p)
        PROVE  Len(opened') = Len(opened) + 1
    BY <1>1, <2>1
  <2>. QED
    BY <1>1, <2>1, HistoryGrows
<1>3. 1..Len(opened) \subseteq 1..Len(opened')
  BY <1>2
<1>4. CASE out' = out
  BY <1>3, <1>4 DEF Recorded
<1>5. ASSUME NEW i \in Slots, NEW m \in Message, NEW r, Serve(i, m, r), r # "refused"
      PROVE  Recorded'
  <2>1. PICK e \in EntryType : /\ out' = Append(out, e) /\ e.conn = ConnOf(i)
                               /\ e.ready = {ConnOf(j) : j \in Workers}
    BY <1>5, SendFacts
  <2>2. ASSUME NEW j \in Workers PROVE ConnOf(j) \in 1..Len(opened)
    <3>1. j \in Mapped
      BY DEF Workers, HasWork
    <3>. QED
      BY <3>1, Used
  <2>3. i \in Mapped
    BY <1>5 DEF Serve
  <2>4. e.conn \in 1..Len(opened)
    BY <2>1, <2>3, Used
  <2>5. ASSUME NEW n \in DOMAIN out'
        PROVE  /\ out'[n].conn \in 1..Len(opened)
               /\ \A c \in out'[n].ready : c \in 1..Len(opened)
    <3>1. (n \in DOMAIN out /\ out'[n] = out[n]) \/ out'[n] = e
      BY <1>1, <2>1
    <3>2. CASE n \in DOMAIN out /\ out'[n] = out[n]
      BY <3>2 DEF Recorded
    <3>3. CASE out'[n] = e
      BY <2>1, <2>2, <2>4, <3>3
    <3>. QED
      BY <3>1, <3>2, <3>3
  <2>. QED
    BY <1>3, <2>5 DEF Recorded
<1>. QED
  BY <1>4, <1>5, HistoryGrows

-----------------------------------------------------------------------------
(* The round robin. *)

LEMMA ModIs ==
  ASSUME NEW N \in Nat \ {0}, NEW a \in -N..(N - 1)
  PROVE  a % N = IF a >= 0 THEN a ELSE IF a = -N THEN 0 ELSE a + N
OBVIOUS

\* A pick that is no farther from the cursor than j keeps to the arc from i to j, on
\* which the cursor was, and does not reach i.
LEMMA RoundGoesOn ==
  ASSUME NEW N \in Nat \ {0}, NEW cur \in -1..(N - 1),
         NEW i \in 0..(N - 1), NEW j \in 0..(N - 1), NEW e \in 0..(N - 1), i # j,
         (cur - i) % N < (j - i) % N, (e - cur - 1) % N <= (j - cur - 1) % N
  PROVE  e # i /\ (e # j => (e - i) % N < (j - i) % N)
<1>1. /\ (cur - i) % N = IF cur - i >= 0 THEN cur - i ELSE IF cur - i = -N THEN 0 ELSE cur - i + N
      /\ (j - i) % N = IF j - i >= 0 THEN j - i ELSE j - i + N
      /\ (e - i) % N = IF e - i >= 0 THEN e - i ELSE e - i + N
  <2>1. cur - i \in -N..(N - 1) /\ j - i \in -N..(N - 1) /\ e - i \in -N..(N - 1)
        /\ j - i # -N /\ e - i # -N
    OBVIOUS
  <2>. QED
    BY <2>1, ModIs
<1>2. /\ (e - cur - 1) % N = IF e - cur - 1 >= 0 THEN e - cur - 1
                             ELSE IF e - cur - 1 = -N THEN 0 ELSE e - cur - 1 + N
      /\ (j - cur - 1) % N = IF j - cur - 1 >= 0 THEN j - cur - 1
                             ELSE IF j - cur - 1 = -N THEN 0 ELSE j - cur - 1 + N
  <2>1. e - cur - 1 \in -N..(N - 1) /\ j - cur - 1 \in -N..(N - 1)
    OBVIOUS
  <2>. QED
    BY <2>1, ModIs
<1> DEFINE u == (cur - i) % N
           v == (j - i) % N
           w == (e - i) % N
           x == (e - cur - 1) % N
           y == (j - cur - 1) % N
<1>3. u < v /\ x <= y
  OBVIOUS
<1> HIDE DEF u, v, w, x, y
<1>4. /\ u = IF cur - i >= 0 THEN cur - i ELSE IF cur - i = -N THEN 0 ELSE cur - i + N
      /\ v = IF j - i >= 0 THEN j - i ELSE j - i + N
      /\ w = IF e - i >= 0 THEN e - i ELSE e - i + N
      /\ x = IF e - cur - 1 >= 0 THEN e - cur - 1
                             ELSE IF e - cur - 1 = -N THEN 0 ELSE e - cur - 1 + N
      /\ y = IF j - cur - 1 >= 0 THEN j - cur - 1
                             ELSE IF j - cur - 1 = -N THEN 0 ELSE j - cur - 1 + N
  BY <1>1, <1>2 DEF u, v, w, x, y
<1>5. e # i
  BY <1>3, <1>4
<1>6. e # j => w < v
  BY <1>3, <1>4
<1>. QED
  BY <1>5, <1>6 DEF w, v

LEMMA RoundStarts ==
  ASSUME NEW N \in Nat \ {0}, NEW i \in 0..(N - 1), NEW j \in 0..(N - 1), i # j
  PROVE  (i - i) % N < (j - i) % N
<1>1. j - i \in -N..(N - 1) /\ j - i # -N /\ 0 \in -N..(N - 1)
  OBVIOUS
<1>2. 0 % N = 0
  BY <1>1, ModIs
<1>3. (j - i) % N = IF j - i >= 0 THEN j - i ELSE j - i + N
  BY <1>1, ModIs
<1>4. i - i = 0
  OBVIOUS
<1>5. (j - i) % N > 0
  BY <1>3
<1>. QED
  BY <1>2, <1>4, <1>5

\* A connection that is ready, and of the level that is served, is no nearer the
\* cursor than the one picked.
LEMMA PickedFirst ==
  ASSUME IInv, Ranked, NEW i \in Mapped, NEW b \in Workers, Picked(i),
         SameLevel(ConnOf(b), ConnOf(i))
  PROVE  Distance(i) <= Distance(b)
<1>1. b \in Mapped /\ b \in Slots
  BY DEF Workers, HasWork
<1>2. dcMap[b].priority = dcMap[i].priority
  BY <1>1 DEF Ranked, SameLevel
<1>3. \A j \in Workers : dcMap[j].priority <= dcMap[b].priority
  BY <1>2 DEF Picked, TopLevel
<1>4. b \in TopLevel
  BY <1>3 DEF TopLevel
<1>. QED
  BY <1>4 DEF Picked

LEMMA SlotRange ==
  ASSUME TypeOK, NEW i \in Slots
  PROVE  MaxChannels \in Nat \ {0} /\ cursor \in -1..(MaxChannels - 1) /\ i \in 0..(MaxChannels - 1)
BY RouterAssumption DEF TypeOK, Slots

\* What the served slot does to the turn of one that waits.
LEMMA TurnTaken ==
  ASSUME IInv, TypeOK, Ranked, NEW i \in Mapped, Picked(i),
         NEW a \in Mapped, NEW b \in Mapped, a # b, Before(a, b),
         b \in Workers, SameLevel(ConnOf(b), ConnOf(i))
  PROVE  i # a /\ (i # b => (i - a) % MaxChannels < (b - a) % MaxChannels)
<1>1. Distance(i) <= Distance(b)
  BY PickedFirst
<1>2. i \in Slots /\ a \in Slots /\ b \in Slots
  BY Used
<1>3. /\ MaxChannels \in Nat \ {0} /\ cursor \in -1..(MaxChannels - 1)
      /\ i \in 0..(MaxChannels - 1) /\ a \in 0..(MaxChannels - 1) /\ b \in 0..(MaxChannels - 1)
  BY <1>2, SlotRange
<1>4. /\ (cursor - a) % MaxChannels < (b - a) % MaxChannels
      /\ (i - cursor - 1) % MaxChannels <= (b - cursor - 1) % MaxChannels
  BY <1>1 DEF Before, Distance
<1>. QED
  BY <1>3, <1>4, RoundGoesOn

\* A send added to the history.
LEMMA EntryAdded ==
  ASSUME IInv, TypeOK, NEW i \in Slots, NEW m \in Message, NEW r, Serve(i, m, r), r # "refused"
  PROVE  \E e : /\ out' = Append(out, e) /\ Len(out') = Len(out) + 1 /\ Len(out) \in Nat
                /\ DOMAIN out = 1..Len(out) /\ DOMAIN out' = 1..(Len(out) + 1)
                /\ out'[Len(out) + 1] = e /\ \A k \in 1..Len(out) : out'[k] = out[k]
                /\ e.conn = ConnOf(i) /\ (e.ok <=> r = "sent")
                /\ e.ready = {ConnOf(j) : j \in Workers}
<1>1. out \in Seq(EntryType)
  BY Typed
<1>2. PICK e \in EntryType : /\ out' = Append(out, e) /\ e.conn = ConnOf(i)
                             /\ (e.ok <=> r = "sent") /\ e.ready = {ConnOf(j) : j \in Workers}
  BY SendFacts
<1>3. /\ Len(out') = Len(out) + 1 /\ Len(out) \in Nat
      /\ DOMAIN out = 1..Len(out) /\ DOMAIN out' = 1..(Len(out) + 1)
      /\ out'[Len(out) + 1] = e /\ \A k \in 1..Len(out) : out'[k] = out[k]
  BY <1>1, <1>2
<1>. QED
  BY <1>2, <1>3

LEMMA TurnsServe ==
  ASSUME IInv, TypeOK, Ranked, Turns,
         NEW i \in Slots, NEW m \in Message, NEW r, Serve(i, m, r), r # "refused"
  PROVE  Turns'
<1> DEFINE n == Len(out) + 1
<1>1. PICK e : /\ out' = Append(out, e) /\ Len(out') = n /\ Len(out) \in Nat
               /\ DOMAIN out = 1..Len(out) /\ DOMAIN out' = 1..n
               /\ out'[n] = e /\ \A k \in 1..Len(out) : out'[k] = out[k]
               /\ e.conn = ConnOf(i) /\ (e.ok <=> r = "sent")
               /\ e.ready = {ConnOf(j) : j \in Workers}
  BY EntryAdded
<1>2. /\ Picked(i) /\ i \in Mapped /\ opened' = opened
      /\ cursor' = (IF r = "sent" THEN i ELSE cursor)
  BY DEF Serve
<1>3. Mapped' = Mapped /\ \A j \in Mapped : ConnOf(j)' = ConnOf(j)
  BY ServeFacts
<1> HIDE DEF n
<1>4. ASSUME NEW a \in Mapped, NEW b \in Mapped, NEW k \in DOMAIN out',
             Waits(ConnOf(b), ConnOf(a), k)'
      PROVE  Before(a, b)'
  <2> DEFINE c == ConnOf(b)
             d == ConnOf(a)
  <2>1. /\ out'[k].ok /\ out'[k].conn = d /\ c # d /\ opened[c] = opened[d]
        /\ \A l \in k..n : c \in out'[l].ready /\ out'[l].conn # c /\ opened[c] = opened[out'[l].conn]
    BY <1>1, <1>2, <1>3, <1>4 DEF Waits, SameLevel
  <2>2. a # b /\ a \in Slots /\ b \in Slots
    BY <2>1, Used
  <2> HIDE DEF c, d
  <2>3. n \in k..n /\ n = Len(out) + 1
    BY <1>1 DEF n
  <2>4. c \in e.ready /\ e.conn # c /\ opened[c] = opened[e.conn]
    BY <1>1, <2>1, <2>3
  <2>5. b \in Workers /\ i # b /\ SameLevel(ConnOf(b), ConnOf(i))
    <3>1. PICK j \in Workers : ConnOf(j) = c
      BY <1>1, <2>4
    <3>2. j \in Mapped
      BY DEF Workers, HasWork
    <3>3. j = b
      BY <3>1, <3>2, Used DEF c
    <3>. QED
      BY <1>1, <2>4, <3>3 DEF SameLevel, c
  <2>6. CASE k = n
    <3>1. e.ok /\ ConnOf(i) = d
      BY <1>1, <2>1, <2>6
    <3>2. i = a /\ cursor' = a
      BY <1>1, <1>2, <3>1, Used DEF d
    <3>3. MaxChannels \in Nat \ {0} /\ a \in 0..(MaxChannels - 1) /\ b \in 0..(MaxChannels - 1)
      BY <2>2, SlotRange
    <3>4. (a - a) % MaxChannels < (b - a) % MaxChannels
      BY <2>2, <3>3, RoundStarts
    <3>. QED
      BY <3>2, <3>4 DEF Before
  <2>7. CASE k # n
    <3>1. k \in DOMAIN out /\ k..Len(out) \subseteq 1..Len(out) /\ k..Len(out) \subseteq k..n
      BY <1>1, <2>3, <2>7
    <3>2. \A l \in k..Len(out) : out'[l] = out[l]
      BY <1>1, <3>1
    <3>3. out'[k] = out[k]
      BY <1>1, <3>1
    <3>4. Waits(c, d, k)
      BY <2>1, <3>1, <3>2, <3>3 DEF Waits, SameLevel
    <3>5. Before(a, b)
      BY <3>1, <3>4 DEF Turns, c, d
    <3>6. CASE r = "sent"
      <4>1. (i - a) % MaxChannels < (b - a) % MaxChannels
        BY <1>2, <2>2, <2>5, <3>5, TurnTaken
      <4>. QED
        BY <1>2, <3>6, <4>1 DEF Before
    <3>7. CASE r # "sent"
      BY <1>2, <3>5, <3>7 DEF Before
    <3>. QED
      BY <3>6, <3>7
  <2>. QED
    BY <2>6, <2>7
<1>. QED
  BY <1>3, <1>4 DEF Turns

LEMMA BurstsServe ==
  ASSUME IInv, TypeOK, Ranked, Turns, BurstsShare,
         NEW i \in Slots, NEW m \in Message, NEW r, Serve(i, m, r), r # "refused"
  PROVE  BurstsShare'
<1> DEFINE n == Len(out) + 1
<1>1. PICK e : /\ out' = Append(out, e) /\ Len(out') = n /\ Len(out) \in Nat
               /\ DOMAIN out = 1..Len(out) /\ DOMAIN out' = 1..n
               /\ out'[n] = e /\ \A k \in 1..Len(out) : out'[k] = out[k]
               /\ e.conn = ConnOf(i) /\ (e.ok <=> r = "sent")
               /\ e.ready = {ConnOf(j) : j \in Workers}
  BY EntryAdded
<1>2. Picked(i) /\ i \in Mapped /\ opened' = opened
  BY DEF Serve
<1> HIDE DEF n
<1>3. n = Len(out) + 1
  BY DEF n
<1>4. ASSUME NEW k \in DOMAIN out', NEW l \in DOMAIN out', NEW c \in out'[l].ready,
             PassedOver(c, out[l].conn, k, l)',
             \A j \in k..l : opened[c] = opened[out'[j].conn]
      PROVE  FALSE
  <2> DEFINE d == out'[l].conn
  <2>1. /\ k < l /\ c # d /\ opened[c] = opened[d]
        /\ out'[k].ok /\ out'[l].ok /\ out'[k].conn = d
        /\ \A j \in k..l : c \in out'[j].ready
        /\ \A j \in k..l : out'[j].conn # c
    BY <1>2, <1>4 DEF PassedOver, ReadyThroughout, SameLevel
  <2>2. k \in 1..n /\ l \in 1..n /\ k \in DOMAIN out /\ out'[k] = out[k]
    BY <1>1, <1>3, <2>1
  <2>3. CASE l # n
    <3>1. l \in DOMAIN out /\ out'[l] = out[l] /\ \A j \in k..l : out'[j] = out[j]
      BY <1>1, <1>3, <2>2, <2>3
    <3>2. PassedOver(c, out[l].conn, k, l)
      BY <2>1, <2>2, <3>1 DEF PassedOver, ReadyThroughout, SameLevel
    <3>3. \A j \in k..l : SameLevel(c, out[j].conn)
      BY <1>4, <3>1 DEF SameLevel
    <3>. QED
      BY <2>2, <3>1, <3>2, <3>3 DEF BurstsShare
  <2>4. CASE l = n
    <3>1. d = ConnOf(i) /\ l \in k..l /\ out'[l] = e
      BY <1>1, <2>1, <2>2, <2>4
    <3>2. PICK b \in Workers : ConnOf(b) = c
      BY <1>1, <2>1, <3>1
    <3>3. b \in Mapped /\ i # b
      BY <2>1, <3>1, <3>2 DEF Workers, HasWork
    <3>4. k..Len(out) \subseteq k..l /\ \A j \in k..Len(out) : out'[j] = out[j]
      BY <1>1, <1>3, <2>2, <2>4
    <3>5. Waits(ConnOf(b), ConnOf(i), k)
      <4>1. out[k].ok /\ out[k].conn = ConnOf(i) /\ c # ConnOf(i) /\ SameLevel(c, ConnOf(i))
        BY <2>1, <2>2, <3>1 DEF SameLevel
      <4>2. ASSUME NEW j \in k..Len(out)
            PROVE  c \in out[j].ready /\ out[j].conn # c /\ SameLevel(c, out[j].conn)
        BY <1>4, <2>1, <3>4 DEF SameLevel
      <4>. QED
        BY <3>2, <4>1, <4>2 DEF Waits
    <3>6. Before(i, b)
      BY <1>2, <2>2, <3>3, <3>5 DEF Turns
    <3>7. SameLevel(ConnOf(b), ConnOf(i))
      BY <2>1, <3>1, <3>2 DEF SameLevel
    <3>8. i # i
      BY <1>2, <3>3, <3>6, <3>7, TurnTaken
    <3>. QED
      BY <3>8
  <2>. QED
    BY <2>3, <2>4
<1>5. ASSUME NEW k \in DOMAIN out', NEW l \in DOMAIN out', NEW c \in out'[l].ready,
             PassedOver(c, out[l].conn, k, l)'
      PROVE  \E j \in k..l : opened'[c] # opened'[out'[j].conn]
  BY <1>2, <1>4, <1>5
<1>. QED
  BY <1>5 DEF BurstsShare, SameLevel

\* Without an entry the turns stay, also when a connection is made or given up.
LEMMA TurnsStay ==
  ASSUME IInv, TypeOK, Recorded, Turns, out' = out, cursor' = cursor,
         opened' = opened \/ \E p \in Levels : opened' = Append(opened, p),
         \A j \in Mapped' : \/ j \in Mapped /\ ConnOf(j)' = ConnOf(j)
                            \/ ConnOf(j)' = Len(opened) + 1
  PROVE  Turns'
<1>1. opened \in Seq(Levels) /\ out \in Seq(EntryType)
  BY Typed
<1>2. \A c \in 1..Len(opened) : opened'[c] = opened[c]
  BY <1>1
<1>3. Len(opened) + 1 \notin 1..Len(opened)
  BY <1>1
<1>4. ASSUME NEW a \in Mapped', NEW b \in Mapped', NEW k \in DOMAIN out,
             Waits(ConnOf(b), ConnOf(a), k)'
      PROVE  Before(a, b)'
  <2>1. /\ out[k].ok /\ out[k].conn = ConnOf(a)' /\ ConnOf(b)' # ConnOf(a)'
        /\ opened'[ConnOf(b)'] = opened'[ConnOf(a)']
        /\ \A l \in k..Len(out) : /\ ConnOf(b)' \in out[l].ready /\ out[l].conn # ConnOf(b)'
                                  /\ opened'[ConnOf(b)'] = opened'[out[l].conn]
    BY <1>4 DEF Waits, SameLevel
  <2>2. k \in k..Len(out) /\ k \in 1..Len(out) /\ Len(out) \in Nat /\ DOMAIN out = 1..Len(out)
    BY <1>1
  <2>3. ConnOf(a)' \in 1..Len(opened) /\ ConnOf(b)' \in 1..Len(opened)
    BY <2>1, <2>2 DEF Recorded
  <2>4. /\ a \in Mapped /\ b \in Mapped
        /\ ConnOf(a)' = ConnOf(a) /\ ConnOf(b)' = ConnOf(b)
    BY <1>3, <2>3
  <2>5. \A l \in k..Len(out) : out[l].conn \in 1..Len(opened)
    BY <2>2 DEF Recorded
  <2>6. Waits(ConnOf(b), ConnOf(a), k)
    BY <1>2, <2>1, <2>3, <2>4, <2>5 DEF Waits, SameLevel
  <2>. QED
    BY <2>4, <2>6 DEF Turns, Before
<1>. QED
  BY <1>4 DEF Turns

LEMMA BurstsStay ==
  ASSUME TypeOK, Recorded, BurstsShare, out' = out,
         opened' = opened \/ \E p \in Levels : opened' = Append(opened, p)
  PROVE  BurstsShare'
<1>1. opened \in Seq(Levels) /\ out \in Seq(EntryType)
  BY Typed
<1>2. \A c \in 1..Len(opened) : opened'[c] = opened[c]
  BY <1>1
<1>3. ASSUME NEW k \in DOMAIN out, NEW l \in DOMAIN out, NEW c \in out[l].ready,
             PassedOver(c, out[l].conn, k, l)'
      PROVE  \E j \in k..l : opened'[c] # opened'[out[j].conn]
  <2>1. c \in 1..Len(opened)
    BY DEF Recorded
  <2>2. k \in 1..Len(out) /\ l \in 1..Len(out) /\ k..l \subseteq DOMAIN out
    BY <1>1
  <2>3. \A j \in k..l : out[j].conn \in 1..Len(opened)
    BY <2>2 DEF Recorded
  <2>4. out[l].conn \in 1..Len(opened)
    BY DEF Recorded
  <2>5. PassedOver(c, out[l].conn, k, l)
    BY <1>2, <1>3, <2>1, <2>4 DEF PassedOver, ReadyThroughout, SameLevel
  <2>6. PICK j \in k..l : opened[c] # opened[out[j].conn]
    BY <2>5 DEF BurstsShare, SameLevel
  <2>. QED
    BY <1>2, <2>1, <2>3, <2>6
<1>. QED
  BY <1>3 DEF BurstsShare, SameLevel

LEMMA TurnsKeep ==
  ASSUME IInv, TypeOK, Blank, Ranked, Recorded, Turns, BurstsShare, [Next]_vars
  PROVE  Turns' /\ BurstsShare'
<1>1. opened' = opened \/ \E p \in Levels : opened' = Append(opened, p)
  BY HistoryGrows
<1>2. ASSUME NEW s \in Streams, NEW h \in Handles, NEW p \in Levels, NEW a \in AllocOutcomes,
             DcOpen(s, h, p, a)
      PROVE  Turns' /\ BurstsShare'
  <2>1. PICK c : c = Len(opened) + 1
    OBVIOUS
  <2>2. PICK i \in FreeSlots : Mapped' = Mapped \cup {i} /\ ConnOf(i)' = c
    BY <1>2, <2>1, OpenFacts
  <2>3. \A j \in Mapped : ConnOf(j)' = ConnOf(j)
    BY <1>2, <2>1, OpenFacts
  <2>4. out' = out /\ cursor' = cursor
    BY <1>2 DEF DcOpen
  <2>5. \A j \in Mapped' : \/ j \in Mapped /\ ConnOf(j)' = ConnOf(j)
                           \/ ConnOf(j)' = Len(opened) + 1
    BY <2>1, <2>2, <2>3
  <2>. QED
    BY <1>1, <2>4, <2>5, TurnsStay, BurstsStay
<1>3. ASSUME NEW G \in SUBSET Mapped, Drop(G) PROVE Turns' /\ BurstsShare'
  <2>1. \A j \in Mapped' : j \in Mapped /\ ConnOf(j)' = ConnOf(j)
    BY <1>3, DropFacts
  <2>2. out' = out /\ cursor' = cursor
    BY <1>3 DEF Drop, sched, history
  <2>. QED
    BY <1>1, <2>1, <2>2, TurnsStay, BurstsStay
<1>4. ASSUME NEW h \in Handles, TargetSend(h) \/ TargetClose(h) PROVE Turns' /\ BurstsShare'
  <2>1. \A j \in Mapped' : j \in Mapped /\ ConnOf(j)' = ConnOf(j)
    BY <1>4, TargetFacts
  <2>2. out' = out /\ cursor' = cursor
    BY <1>4 DEF TargetSend, TargetClose, sched, history
  <2>. QED
    BY <1>1, <2>1, <2>2, TurnsStay, BurstsStay
<1>5. ASSUME NEW i \in Slots, NEW m \in Message, NEW r, Serve(i, m, r)
      PROVE  Turns' /\ BurstsShare'
  <2>1. CASE r = "refused"
    <3>1. \A j \in Mapped' : j \in Mapped /\ ConnOf(j)' = ConnOf(j)
      BY <1>5, ServeFacts
    <3>2. out' = out
      BY <1>5, <2>1, SendFacts
    <3>3. cursor' = cursor
      BY <1>5, <2>1 DEF Serve
    <3>. QED
      BY <1>1, <3>1, <3>2, <3>3, TurnsStay, BurstsStay
  <2>2. CASE r # "refused"
    BY <1>5, <2>2, TurnsServe, BurstsServe
  <2>. QED
    BY <2>1, <2>2
<1>6. CASE Pauses
  <2>1. \A j \in Mapped' : j \in Mapped /\ ConnOf(j)' = ConnOf(j)
    BY <1>6 DEF Pauses, Mapped, ConnOf
  <2>2. out' = out /\ cursor' = cursor
    BY <1>6 DEF Pauses, history
  <2>. QED
    BY <1>1, <2>1, <2>2, TurnsStay, BurstsStay
<1>. QED
  BY <1>2, <1>3, <1>4, <1>5, <1>6, StepKinds

\* The inductive invariants.
TableInv == IInv /\ TypeOK /\ Blank
TurnInv  == TableInv /\ Ranked /\ Recorded /\ Turns /\ BurstsShare

LEMMA TableInit == Init => TableInv
<1> SUFFICES ASSUME Init PROVE TableInv
  OBVIOUS
<1>1. IInv
  BY InvInit
<1>2. /\ dcMap = [i \in Slots |-> EmptySlot] /\ its = [h \in Handles |-> FreeHandle]
      /\ chan = NewChannels /\ opened = <<>> /\ out = <<>> /\ strayed = {}
      /\ sent = [c \in Conns |-> 0] /\ passed = [c \in Conns |-> <<>>]
      /\ dropped = [c \in Conns |-> <<>>]
      /\ active = FALSE /\ connected = FALSE /\ established = FALSE
      /\ sized = FALSE /\ cursor = -1 /\ iter = 0
  BY DEF Init
<1>3. dcMap \in [Slots -> SlotType] /\ its \in [Handles -> HandleType]
  BY <1>2, BlankTyped
<1>4. \A i \in Slots : Len(dcMap[i].stash) <= 1
  BY <1>2, BlankTyped
<1>5. chan \in [Streams -> ChanType]
  BY <1>2 DEF NewChannels, ChanType
<1>6. opened \in Seq(Levels) /\ out \in Seq(EntryType)
  BY <1>2
<1>7. passed \in [Conns -> Seq(Message)] /\ dropped \in [Conns -> Seq(Message)] /\ sent \in [Conns -> Nat]
  <2>1. <<>> \in Seq(Message)
    OBVIOUS
  <2>. QED
    BY <1>2, <2>1
<1>8. iter \in 0..(PassLimit - 1)
  BY <1>2, RouterAssumption
<1>9. /\ active \in BOOLEAN /\ connected \in BOOLEAN /\ established \in BOOLEAN
      /\ sized \in BOOLEAN /\ cursor \in Slots \cup {-1}
      /\ strayed \subseteq Streams \X ({NoConn} \cup Conns)
  BY <1>2
<1>10. TypeOK
  BY <1>3, <1>4, <1>5, <1>6, <1>7, <1>8, <1>9, Typed
<1>11. Blank
  BY <1>2 DEF Blank, FreeSlots
<1>. QED
  BY <1>1, <1>10, <1>11 DEF TableInv

LEMMA TableNext == TableInv /\ [Next]_vars => TableInv'
BY InvNext, TypeKeeps, BlankKeeps DEF TableInv

LEMMA TurnInit == Init => TurnInv
<1> SUFFICES ASSUME Init PROVE TurnInv
  OBVIOUS
<1>1. TableInv
  BY TableInit
<1>2. Mapped = {} /\ DOMAIN out = {}
  BY EmptyTyped DEF Init, Mapped
<1>. QED
  BY <1>1, <1>2 DEF TurnInv, Ranked, Recorded, Turns, BurstsShare

LEMMA TurnNext == TurnInv /\ [Next]_vars => TurnInv'
BY TableNext, RankedKeeps, RecordedKeeps, TurnsKeep DEF TurnInv, TableInv

-----------------------------------------------------------------------------
(* Refinement of MessagePipes. *)

\* What of the pipes can be read off the used slots.
Filled ==
  /\ Live = {ConnOf(i) : i \in Mapped}
  /\ \A i \in Mapped : Waiting(ConnOf(i)) = Pending(i)
  /\ \A c \in Conns : c \notin Live => Waiting(c) = <<>>

LEMMA PipesFilled == TableInv => Filled
BY LiveUsed, WaitingUsed DEF TableInv, Pending, Waiting, Filled

LEMMA PipesNow ==
  TableInv => /\ Live = {ConnOf(i) : i \in Mapped}
              /\ \A i \in Mapped : Waiting(ConnOf(i)) = Pending(i)
              /\ \A c \in Conns : c \notin Live => Waiting(c) = <<>>
BY PipesFilled DEF Filled

LEMMA PipesThen ==
  TableInv' => /\ Live' = {ConnOf(i)' : i \in Mapped'}
               /\ \A i \in Mapped' : Waiting(ConnOf(i))' = Pending(i)'
               /\ \A c \in Conns : c \notin Live' => Waiting(c)' = <<>>
<1>1. TableInv' => Filled'
  BY PipesFilled, PTL
<1>. QED
  BY <1>1 DEF Filled

\* A used slot's pipe, before and after a step that leaves it its connection.
LEMMA PipeOf ==
  ASSUME TableInv, TableInv', NEW i \in Mapped, i \in Mapped', NEW c, c = ConnOf(i), ConnOf(i)' = c
  PROVE  Waiting(c) = Pending(i) /\ Waiting(c)' = Pending(i)' /\ c \in Live /\ c \in Live'
<1>1. Waiting(ConnOf(i))' = Pending(i)'
  BY PipesThen
<1>2. Waiting(ConnOf(i))' = Waiting(c)'
  BY DEF Waiting
<1>3. c \in Live' /\ c \in Live /\ Waiting(c) = Pending(i)
  BY PipesNow, PipesThen
<1>. QED
  BY <1>1, <1>2, <1>3

LEMMA PipesDrop ==
  ASSUME TableInv, TableInv', NEW G \in SUBSET Mapped, Drop(G)
  PROVE  Pipes!Next
<1> DEFINE C == {ConnOf(i) : i \in G}
<1>0. IInv /\ TypeOK
  BY DEF TableInv
<1>1. /\ Mapped' = Mapped \ G
      /\ \A i \in Mapped' : /\ i \in Mapped /\ dcMap'[i] = dcMap[i]
                            /\ its'[dcMap[i].handle] = its[dcMap[i].handle]
                            /\ ConnOf(i)' = ConnOf(i)
  BY <1>0, DropFacts
<1>2. \A i \in Mapped' : Pending(i)' = Pending(i)
  BY <1>1 DEF Pending
<1>3. UNCHANGED <<opened, sent, passed, dropped>>
  BY DEF Drop, history
<1>4. C \in SUBSET Conns
  BY <1>0, Used
<1>5. Live' = Live \ C
  <2>1. Live = {ConnOf(i) : i \in Mapped} /\ Live' = {ConnOf(i)' : i \in Mapped'}
    BY PipesNow, PipesThen
  <2>2. Live' = {ConnOf(i) : i \in Mapped \ G}
    BY <1>1, <2>1
  <2>3. \A i \in Mapped, j \in G : ConnOf(i) = ConnOf(j) => i = j
    BY <1>0, Used
  <2>. QED
    BY <2>1, <2>2, <2>3
<1>6. ASSUME NEW c \in Conns
      PROVE  /\ Stage(c)' = IF c \in C THEN "closed" ELSE Stage(c)
             /\ Waiting(c)' = IF c \in C THEN <<>> ELSE Waiting(c)
             /\ c \in C => Stage(c) = "open"
  <2>1. CASE c \in C
    <3>1. PICK i \in G : c = ConnOf(i)
      BY <2>1
    <3>2. c \in 1..Len(opened) /\ c \in Live
      BY <1>0, <3>1, Used, PipesNow
    <3>3. ~(c > Len(opened))
      <4>1. Len(opened) \in Nat
        BY <1>0, Typed
      <4>. QED
        BY <3>2, <4>1
    <3>4. c \notin Live' /\ Waiting(c)' = <<>>
      BY <1>5, <2>1, PipesThen
    <3>. QED
      BY <1>3, <2>1, <3>2, <3>3, <3>4 DEF Stage
  <2>2. CASE c \notin C /\ c \in Live
    <3>1. PICK i \in Mapped' : ConnOf(i)' = c
      BY <1>5, <2>2, PipesThen
    <3>2. Waiting(c)' = Waiting(c)
      BY <1>1, <1>2, <3>1, PipeOf
    <3>. QED
      BY <1>3, <1>5, <2>2, <3>2 DEF Stage
  <2>3. CASE c \notin C /\ c \notin Live
    <3>1. Waiting(c) = <<>> /\ Waiting(c)' = <<>> /\ c \notin Live'
      BY <1>5, <2>3, PipesNow, PipesThen
    <3>. QED
      BY <1>3, <2>3, <3>1 DEF Stage
  <2>. QED
    BY <2>1, <2>2, <2>3
<1> HIDE DEF C
<1>7. Pipes!Close(C)
  BY <1>3, <1>4, <1>6 DEF Pipes!Close
<1>. QED
  BY <1>4, <1>7 DEF Pipes!Next

LEMMA PipesOpen ==
  ASSUME TableInv, TableInv', NEW s \in Streams, NEW h \in Handles, NEW p \in Levels,
         NEW a \in AllocOutcomes, DcOpen(s, h, p, a)
  PROVE  Pipes!Next
<1>0. IInv /\ TypeOK /\ Blank
  BY DEF TableInv
<1>1. PICK c : c = Len(opened) + 1
  OBVIOUS
<1>2. /\ c \in Conns /\ opened' = Append(opened, p) /\ its'[h].queue = <<>>
      /\ \A j \in Mapped : /\ dcMap'[j] = dcMap[j]
                           /\ its'[dcMap[j].handle] = its[dcMap[j].handle]
                           /\ ConnOf(j)' = ConnOf(j)
  BY <1>0, <1>1, OpenFacts
<1>3. PICK i \in FreeSlots : /\ Mapped' = Mapped \cup {i} /\ ConnOf(i)' = c
                             /\ dcMap'[i].handle = h /\ dcMap'[i].stash = <<>>
  BY <1>0, <1>1, OpenFacts
<1>4. UNCHANGED <<sent, passed, dropped>>
  BY DEF DcOpen
<1>5. Len(opened) \in Nat /\ Len(opened') = c
  <2>1. opened \in Seq(Levels)
    BY <1>0, Typed
  <2>. QED
    BY <1>1, <1>2, <2>1
<1>6. Live' = Live \cup {c}
  BY <1>2, <1>3, PipesNow, PipesThen
<1>7. c \notin Live
  <2>1. \A j \in Mapped : ConnOf(j) \in 1..Len(opened)
    BY <1>0, Used
  <2>2. c \notin 1..Len(opened)
    BY <1>1, <1>5
  <2>. QED
    BY <2>1, <2>2, PipesNow
<1>8. Pending(i)' = <<>>
  <2>1. Pending(i)' = <<>> \o <<>>
    BY <1>2, <1>3 DEF Pending
  <2>. QED
    BY <2>1
<1>9. Waiting(c) = <<>> /\ Waiting(c)' = <<>>
  <2>1. Waiting(ConnOf(i))' = Pending(i)'
    BY <1>3, PipesThen
  <2>2. Waiting(ConnOf(i))' = Waiting(c)'
    BY <1>3 DEF Waiting
  <2>. QED
    BY <1>2, <1>7, <1>8, <2>1, <2>2, PipesNow
<1>10. ASSUME NEW d \in Conns, d # c
       PROVE  Stage(d)' = Stage(d) /\ Waiting(d)' = Waiting(d)
  <2>1. d > Len(opened) <=> d > Len(opened')
    BY <1>1, <1>5, <1>10, RouterAssumption DEF Conns
  <2>2. d \in Live <=> d \in Live'
    BY <1>6, <1>10
  <2>3. CASE d \in Live
    <3>1. PICK j \in Mapped : ConnOf(j) = d
      BY <2>3, PipesNow
    <3>2. Pending(j)' = Pending(j) /\ ConnOf(j)' = d /\ j \in Mapped'
      BY <1>2, <1>3, <3>1 DEF Pending
    <3>3. Waiting(d)' = Waiting(d)
      BY <3>1, <3>2, PipeOf
    <3>. QED
      BY <2>1, <2>2, <3>3 DEF Stage
  <2>4. CASE d \notin Live
    BY <2>1, <2>2, <2>4, PipesNow, PipesThen DEF Stage
  <2>. QED
    BY <2>3, <2>4
<1>11. Stage(c) = "new" /\ Stage(c)' = "open"
  <2>1. c > Len(opened) /\ ~(c > Len(opened')) /\ c \in Live'
    BY <1>1, <1>5, <1>6
  <2>. QED
    BY <2>1 DEF Stage
<1>12. Pipes!Open(c)
  <2>1. [d \in Conns |-> Stage(d)'] = [[d \in Conns |-> Stage(d)] EXCEPT ![c] = "open"]
    BY <1>2, <1>10, <1>11
  <2>2. [d \in Conns |-> Waiting(d)'] = [d \in Conns |-> Waiting(d)]
    BY <1>9, <1>10
  <2>. QED
    BY <1>2, <1>4, <1>11, <2>1, <2>2 DEF Pipes!Open
<1>. QED
  BY <1>2, <1>12 DEF Pipes!Next


\* A step that leaves the table alone and what waits in every slot but one.
LEMMA OnePipe ==
  ASSUME TableInv, TableInv', Mapped' = Mapped, opened' = opened,
         \A j \in Mapped : ConnOf(j)' = ConnOf(j), NEW i \in Mapped,
         \A j \in Mapped : j # i => Pending(j)' = Pending(j)
  PROVE  /\ ConnOf(i) \in Conns
         /\ Stage(ConnOf(i)) = "open" /\ Waiting(ConnOf(i)) = Pending(i)
         /\ \A c \in Conns : Stage(c)' = Stage(c)
         /\ \A c \in Conns : Waiting(c)' = IF c = ConnOf(i) THEN Pending(i)' ELSE Waiting(c)
<1>0. IInv /\ TypeOK
  BY DEF TableInv
<1>1. ConnOf(i) \in Conns /\ ConnOf(i) \in 1..Len(opened) /\ ConnOf(i) \in Live
  BY <1>0, Used, PipesNow
<1>2. Live' = Live
  BY PipesNow, PipesThen
<1>3. ~(ConnOf(i) > Len(opened))
  <2>1. Len(opened) \in Nat
    BY <1>0, Typed
  <2>. QED
    BY <1>1, <2>1
<1>4. ASSUME NEW c \in Conns PROVE Stage(c)' = Stage(c)
  BY <1>2 DEF Stage
<1>5. Waiting(ConnOf(i)) = Pending(i)
  BY PipesNow
<1>6. ASSUME NEW c \in Conns
      PROVE  Waiting(c)' = IF c = ConnOf(i) THEN Pending(i)' ELSE Waiting(c)
  <2>1. CASE c \in Live
    <3>1. PICK j \in Mapped : ConnOf(j) = c
      BY <2>1, PipesNow
    <3>2. Waiting(c) = Pending(j) /\ Waiting(c)' = Pending(j)'
      BY <3>1, PipeOf
    <3>3. c = ConnOf(i) <=> j = i
      BY <1>0, <3>1, Used
    <3>. QED
      BY <3>2, <3>3
  <2>2. CASE c \notin Live
    <3>1. Waiting(c) = <<>> /\ Waiting(c)' = <<>>
      BY <1>2, <2>2, PipesNow, PipesThen
    <3>. QED
      BY <1>1, <2>2, <3>1
  <2>. QED
    BY <2>1, <2>2
<1>. QED
  BY <1>1, <1>3, <1>4, <1>5, <1>6 DEF Stage

LEMMA PutLast ==
  ASSUME NEW S, NEW a \in Seq(S), NEW b \in Seq(S), NEW x \in S
  PROVE  a \o Append(b, x) = Append(a \o b, x)
<1>1. Append(b, x) = b \o <<x>> /\ Append(a \o b, x) = (a \o b) \o <<x>>
  BY AppendIsConcat, ConcatProperties
<1>. QED
  BY <1>1, ConcatAssociative

LEMMA PipesSend ==
  ASSUME TableInv, TableInv', NEW h \in Handles, TargetSend(h)
  PROVE  Pipes!Next
<1>0. IInv /\ TypeOK
  BY DEF TableInv
<1>1. /\ Mapped' = Mapped /\ dcMap' = dcMap /\ its[h].state # "free"
      /\ \A j \in Mapped : ConnOf(j)' = ConnOf(j)
      /\ \A g \in Handles : g # h => its'[g] = its[g]
  BY <1>0, TargetFacts
<1>2. PICK i \in Mapped : dcMap[i].handle = h
  BY <1>0, <1>1, LiveHandle DEF IInv, Paired
<1>3. PICK c \in Conns : c = ConnOf(i) /\ c = its[h].conn
  BY <1>0, <1>2, Used DEF ConnOf
<1>4. PICK x : x = <<c, sent[c] + 1>>
  OBVIOUS
<1>5. /\ sent' = [sent EXCEPT ![c] = sent[c] + 1]
      /\ its'[h].queue = Append(its[h].queue, x)
      /\ UNCHANGED <<opened, passed, dropped>>
  <2>1. its \in [Handles -> HandleType]
    BY <1>0, Typed
  <2>2. its' = [its EXCEPT ![h].queue = Append(@, x)] /\ sent' = [sent EXCEPT ![c] = @ + 1]
        /\ UNCHANGED <<opened, passed, dropped>>
    BY <1>3, <1>4 DEF TargetSend
  <2>. QED
    BY <2>1, <2>2 DEF HandleType
<1>6. Pending(i)' = Append(Pending(i), x)
  <2>1. dcMap[i].stash \in Seq(Message) /\ its[h].queue \in Seq(Message)
    <3>1. dcMap \in [Slots -> SlotType] /\ its \in [Handles -> HandleType] /\ i \in Slots
      BY <1>0, Typed, Used
    <3>. QED
      BY <3>1 DEF SlotType, HandleType
  <2>2. x \in Message
    <3>1. sent[c] \in Nat
      BY <1>0, Typed
    <3>. QED
      BY <1>4, <3>1 DEF Message
  <2>3. Pending(i)' = dcMap[i].stash \o Append(its[h].queue, x)
    BY <1>1, <1>2, <1>5 DEF Pending
  <2>4. Pending(i) = dcMap[i].stash \o its[h].queue
    BY <1>2 DEF Pending
  <2>5. dcMap[i].stash \o Append(its[h].queue, x) = Append(dcMap[i].stash \o its[h].queue, x)
    <3>1. \A a, b \in Seq(Message) : a \o Append(b, x) = Append(a \o b, x)
      BY <2>2, PutLast
    <3>. QED
      BY <2>1, <3>1, Zenon
  <2>. QED
    BY <2>3, <2>4, <2>5, Zenon
<1>7. \A j \in Mapped : j # i => Pending(j)' = Pending(j)
  <2>1. ASSUME NEW j \in Mapped, j # i PROVE dcMap[j].handle \in Handles /\ dcMap[j].handle # h
    BY <1>0, <1>2, <2>1, Used
  <2>. QED
    BY <1>1, <2>1 DEF Pending
<1>8. /\ Stage(c) = "open" /\ Waiting(c) = Pending(i)
      /\ \A d \in Conns : Stage(d)' = Stage(d)
      /\ \A d \in Conns : Waiting(d)' = IF d = c THEN Pending(i)' ELSE Waiting(d)
  BY <1>1, <1>3, <1>5, <1>7, OnePipe
<1>9. Pipes!Put(c)
  <2>1. [d \in Conns |-> Waiting(d)'] = [[d \in Conns |-> Waiting(d)]
                                           EXCEPT ![c] = Append(@, <<c, sent[c] + 1>>)]
    BY <1>3, <1>4, <1>6, <1>8
  <2>2. [d \in Conns |-> Stage(d)'] = [d \in Conns |-> Stage(d)]
    BY <1>8
  <2>. QED
    BY <1>3, <1>5, <1>8, <2>1, <2>2 DEF Pipes!Put
<1>. QED
  BY <1>3, <1>9 DEF Pipes!Next

\* A message is taken out, or dropped, or offered without effect.
LEMMA PipesServe ==
  ASSUME TableInv, TableInv', NEW i \in Slots, NEW m \in Message,
         NEW r \in {"sent", "refused", "kept"}, Serve(i, m, r)
  PROVE  [Pipes!Next]_(Pipes!vars)
<1>0. IInv /\ TypeOK
  BY DEF TableInv
<1>1. /\ i \in Mapped /\ Pending(i) # <<>> /\ m = Head(Pending(i))
      /\ UNCHANGED <<opened, sent>>
  BY DEF Serve
<1>2. /\ Mapped' = Mapped
      /\ \A j \in Mapped : ConnOf(j)' = ConnOf(j)
      /\ \A j \in Slots : j # i => dcMap'[j] = dcMap[j]
      /\ \A h \in Handles : h # dcMap[i].handle => its'[h] = its[h]
  BY <1>0, ServeFacts
<1>3. \A j \in Mapped : j # i => Pending(j)' = Pending(j)
  <2>1. ASSUME NEW j \in Mapped, j # i
        PROVE  /\ j \in Slots /\ dcMap[j].handle \in Handles
               /\ dcMap[j].handle # dcMap[i].handle
    BY <1>0, <1>1, <2>1, Used
  <2>. QED
    BY <1>2, <2>1 DEF Pending
<1>4. PICK c \in Conns : c = ConnOf(i)
  BY <1>0, <1>1, Used
<1>5. /\ Stage(c) = "open" /\ Waiting(c) = Pending(i)
      /\ \A d \in Conns : Stage(d)' = Stage(d)
      /\ \A d \in Conns : Waiting(d)' = IF d = c THEN Pending(i)' ELSE Waiting(d)
  BY <1>1, <1>2, <1>3, <1>4, OnePipe
<1>6. [d \in Conns |-> Stage(d)'] = [d \in Conns |-> Stage(d)]
  BY <1>5
<1>7. passed' = IF r = "sent" THEN [passed EXCEPT ![c] = Append(@, m)] ELSE passed
  BY <1>0, <1>4, PassedFacts
<1>8. m = Head(Waiting(c)) /\ Waiting(c) # <<>>
  BY <1>1, <1>5
<1>9. ASSUME Pending(i)' = Tail(Pending(i)) PROVE Pipes!Remove(c)
  <2>1. [d \in Conns |-> Waiting(d)'] = [[d \in Conns |-> Waiting(d)] EXCEPT ![c] = Tail(@)]
    BY <1>4, <1>5, <1>9
  <2>. QED
    BY <1>1, <1>4, <1>6, <1>8, <2>1 DEF Pipes!Remove
<1>10. CASE r = "sent" /\ Pending(i)' = Tail(Pending(i)) /\ dropped' = dropped
  <2>1. Pipes!Take(c)
    BY <1>4, <1>7, <1>8, <1>9, <1>10 DEF Pipes!Take
  <2>. QED
    BY <1>4, <2>1 DEF Pipes!Next
<1>11. CASE r # "sent" /\ Pending(i)' = Pending(i) /\ dropped' = dropped
  <2>1. [d \in Conns |-> Waiting(d)'] = [d \in Conns |-> Waiting(d)]
    BY <1>5, <1>11
  <2>. QED
    BY <1>1, <1>6, <1>7, <1>11, <2>1 DEF Pipes!vars
<1>12. CASE /\ r # "sent" /\ Pending(i)' = Tail(Pending(i))
            /\ dropped' = [dropped EXCEPT ![ConnOf(i)] = Append(dropped[ConnOf(i)], m)]
  <2>1. Pipes!Drop(c)
    BY <1>4, <1>7, <1>8, <1>9, <1>12 DEF Pipes!Drop
  <2>. QED
    BY <1>4, <2>1 DEF Pipes!Next
<1>. QED
  BY <1>10, <1>11, <1>12 DEF Serve

LEMMA PipesRest ==
  ASSUME TableInv, TableInv', Pauses \/ \E h \in Handles : TargetClose(h)
  PROVE  UNCHANGED Pipes!vars
<1>0. IInv /\ TypeOK
  BY DEF TableInv
<1>1. UNCHANGED <<dcMap, opened, sent, passed, dropped>>
  BY DEF Pauses, TargetClose, history
<1>2. /\ \A h \in Handles : its'[h].queue = its[h].queue
      /\ \A h \in Handles : its'[h].conn = its[h].conn
  <2>1. its \in [Handles -> HandleType]
    BY <1>0, Typed
  <2>2. CASE Pauses
    BY <2>2 DEF Pauses
  <2>3. CASE \E h \in Handles : TargetClose(h)
    <3>1. PICK g \in Handles : its' = [its EXCEPT ![g].state = "closing"]
      BY <2>3 DEF TargetClose
    <3>. QED
      BY <2>1, <3>1 DEF HandleType
  <2>. QED
    BY <2>2, <2>3
<1>3. \A i \in Mapped : dcMap[i].handle \in Handles
  BY <1>0, Used
<1>4. /\ Mapped' = Mapped
      /\ \A i \in Mapped : ConnOf(i)' = ConnOf(i) /\ Pending(i)' = Pending(i)
  BY <1>1, <1>2, <1>3 DEF Mapped, ConnOf, Pending
<1>5. Live' = Live
  BY <1>4, PipesNow, PipesThen
<1>6. ASSUME NEW c \in Conns PROVE Stage(c)' = Stage(c) /\ Waiting(c)' = Waiting(c)
  <2>1. CASE c \in Live
    <3>1. PICK i \in Mapped : ConnOf(i) = c
      BY <2>1, PipesNow
    <3>. QED
      BY <1>1, <1>4, <1>5, <3>1, PipeOf DEF Stage
  <2>2. CASE c \notin Live
    BY <1>1, <1>5, <2>2, PipesNow, PipesThen DEF Stage
  <2>. QED
    BY <2>1, <2>2
<1>. QED
  BY <1>1, <1>6 DEF Pipes!vars

LEMMA PipesStep == TableInv /\ TableInv' /\ [Next]_vars => [Pipes!Next]_(Pipes!vars)
<1> SUFFICES ASSUME TableInv, TableInv', [Next]_vars PROVE [Pipes!Next]_(Pipes!vars)
  OBVIOUS
<1>1. IInv /\ TypeOK /\ Blank
  BY DEF TableInv
<1>. QED
  BY <1>1, StepKinds, PipesOpen, PipesDrop, PipesSend, PipesServe, PipesRest

LEMMA PipesInit == Init => Pipes!Init
<1> SUFFICES ASSUME Init PROVE Pipes!Init
  OBVIOUS
<1>1. /\ opened = <<>> /\ sent = [c \in Conns |-> 0]
      /\ passed = [c \in Conns |-> <<>>] /\ dropped = [c \in Conns |-> <<>>]
  BY DEF Init
<1>2. Mapped = {}
  BY DEF Init, Mapped, EmptySlot
<1>3. TableInv
  BY TableInit
<1>4. Live = {}
  BY <1>2, <1>3, PipesNow
<1>5. \A c \in Conns : Stage(c) = "new" /\ Waiting(c) = <<>>
  <2>1. \A c \in Conns : c > Len(opened)
    BY <1>1, EmptySeq DEF Conns
  <2>. QED
    BY <1>3, <1>4, <2>1, PipesNow DEF Stage
<1>. QED
  BY <1>1, <1>5 DEF Pipes!Init

-----------------------------------------------------------------------------
(* The theorems. *)

\* Every variable of the router keeps its shape: whatever order the browser, the
\* targets, the scheduler and the teardowns come in, slots and handles hold messages
\* and connections that were made, and a slot stashes at most one message.
THEOREM TypeCorrect == Spec => []TypeOK
<1>1. TableInv => TypeOK
  BY DEF TableInv
<1>. QED
  BY <1>1, TableInit, TableNext, PTL DEF Spec

\* schedulerPass shares a level among its channels: one that has something to send is
\* not passed over twice for the same sibling while only their level is served.
THEOREM SiblingsShare == Spec => []BurstsShare
<1>1. TurnInv => BurstsShare
  BY DEF TurnInv
<1>. QED
  BY <1>1, TurnInit, TurnNext, PTL DEF Spec

\* Seen from outside every connection is a pipe of its own (MessagePipes): its
\* messages leave in the order its target sent them, each once and only through its own
\* channel, save those a failed allocation drops; a close empties it.
THEOREM ImplementsPipes == Spec => PipesKept
<1>. QED
  BY PipesInit, TableInit, TableNext, PipesStep, PTL DEF Spec, PipesKept, Pipes!Spec

=============================================================================
