--------------------------- MODULE WebSlotsProofs ---------------------------
(***************************************************************************)
(* Proofs about WebSlots for every number of connections, slots, requests  *)
(* and jobs, with or without pipelining.                                   *)
(*                                                                         *)
(* The inductive invariant says where connections are (Layout: a slot and  *)
(* the connection in it name one another, up to the disconnects that are   *)
(* still to be reported) and, for the worker, that no two of its jobs are  *)
(* for one slot (OneJob).  Most steps change one slot that is not sending, *)
(* so they are Quiet; what is left are the steps of the worker.            *)
(***************************************************************************)
EXTENDS WebSlots, FiniteSetTheorems, SequenceTheorems, TLAPS

\* A slot that receives a body expects some more of it.
GoodSlot == {x \in Slot : x.state = "recv_body" => x.putRemain > 0}

Typed ==
  /\ net \in [Conns -> {"new", "open", "closed", "forwarded"}]
  /\ ref \in [Conns -> {0} \cup Slots]
  /\ gone \subseteq Conns
  /\ ring \in [Conns -> Seq(Token)]
  /\ asked \in [Conns -> Seq(Kinds)]
  /\ owed \in [Conns -> 0 .. BodyLen]
  /\ \A c \in Conns : Len(asked[c]) <= MaxReq /\ (owed[c] > 0 => Len(asked[c]) > 0)
  /\ slots \in [Slots -> GoodSlot]
  /\ inbox \in Seq(Job) /\ Len(inbox) <= InboxDepth
  /\ worker \in {Idle} \cup [phase : {"head", "body", "done"}, job : Job]

Placed  == \A s \in Slots : slots[s].conn # NoConn => ref[slots[s].conn] = s
Opened  == \A c \in Conns : net[c] = "open" => ref[c] \in Slots /\ slots[ref[c]].conn = c
Fresh   == \A c \in Conns : net[c] = "new" => c \notin gone /\ \A s \in Slots : slots[s].conn # c
Leaving == \A c \in gone : /\ net[c] = "closed" /\ ref[c] \in Slots
                           /\ slots[ref[c]].conn \in {c, NoConn}

Layout == Placed /\ Opened /\ Fresh /\ Leaving
Inv    == Typed /\ Layout

-----------------------------------------------------------------------------
(* Sequences of tokens, slots. *)

LEMMA MinOfTwo ==
  ASSUME NEW a \in Nat, NEW b \in Nat
  PROVE  Min({a, b}) \in Nat /\ Min({a, b}) <= a /\ Min({a, b}) <= b
<1>1. \E x \in {a, b} : \A y \in {a, b} : x =< y
  <2>1. CASE a <= b
    BY <2>1
  <2>2. CASE b <= a
    BY <2>2
  <2>. QED
    BY <2>1, <2>2
<1>2. Min({a, b}) \in {a, b} /\ \A y \in {a, b} : Min({a, b}) =< y
  BY <1>1 DEF Min
<1>. QED
  BY <1>2

LEMMA MinOfInts ==
  ASSUME NEW a \in Int, NEW b \in Int
  PROVE  Min({a, b}) \in Int /\ Min({a, b}) <= a
<1>1. \E x \in {a, b} : \A y \in {a, b} : x =< y
  <2>1. CASE a <= b
    BY <2>1
  <2>2. CASE b <= a
    BY <2>2
  <2>. QED
    BY <2>1, <2>2
<1>2. Min({a, b}) \in {a, b} /\ \A y \in {a, b} : Min({a, b}) =< y
  BY <1>1 DEF Min
<1>. QED
  BY <1>2

LEMMA PartTyped ==
  ASSUME NEW q \in Seq(Token), NEW n \in Nat
  PROVE  /\ Drop(q, n) \in Seq(Token)
         /\ n <= Len(q) => SubSeq(q, 1, n) \in Seq(Token)
<1>1. SubSeq(q, n + 1, Len(q)) \in Seq(Token)
  BY SubSeqProperties
<1>2. ASSUME n <= Len(q) PROVE SubSeq(q, 1, n) \in Seq(Token)
  BY <1>2, SubSeqProperties
<1>. QED
  BY <1>1, <1>2 DEF Drop

LEMMA ConsumedTyped ==
  ASSUME NEW need \in Nat, NEW buf \in Seq(Token), NEW rest \in Seq(Token)
  PROVE  LET d == Consumed(need, buf, rest)
         IN  d.rbuf \in Seq(Token) /\ d.ring \in Seq(Token) /\ d.skip \in Nat
<1> DEFINE inBuf  == Min({need, Len(buf)})
           left   == need - inBuf
           inRing == Min({left, Len(rest)})
<1>1. inBuf \in Nat /\ inBuf <= need
  BY MinOfTwo
<1>2. left \in Nat
  BY <1>1
<1> HIDE DEF left
<1>3. inRing \in Nat /\ inRing <= left
  BY <1>2, MinOfTwo
<1>4. left - inRing \in Nat
  BY <1>2, <1>3
<1>5. Drop(buf, inBuf) \in Seq(Token) /\ Drop(rest, inRing) \in Seq(Token)
  BY <1>1, <1>3, PartTyped
<1>. QED
  BY <1>4, <1>5 DEF Consumed, left

LEMMA BodyTyped == ASSUME NEW k PROVE BodyOf(k) \in Nat
BY SlotsAssumption DEF BodyOf

LEMMA ResetSlot ==
  ASSUME NEW c \in Conns \cup {NoConn}
  PROVE  /\ Reset(c) \in GoodSlot /\ Reset(c).conn = c /\ Reset(c).sending = FALSE
         /\ [Reset(c) EXCEPT !.state = "reading"] \in GoodSlot
         /\ [Reset(c) EXCEPT !.state = "reading"].conn = c
         /\ [Reset(c) EXCEPT !.state = "reading"].sending = FALSE
<1>1. <<>> \in Seq(Token) /\ 0 \in 0 .. MaxReq
  BY SlotsAssumption
<1>. QED
  BY <1>1 DEF Reset, Slot, GoodSlot, States

LEMMA ReleasedSlot ==
  ASSUME NEW x \in GoodSlot
  PROVE  /\ Released(x) \in GoodSlot /\ Released(x).sending = x.sending
         /\ Released(x).conn = IF x.sending THEN x.conn ELSE NoConn
<1>1. CASE x.sending
  <2>1. Released(x) = [x EXCEPT !.wantsCleanup = TRUE]
    BY <1>1 DEF Released
  <2>. QED
    BY <1>1, <2>1 DEF Slot, GoodSlot
<1>2. CASE ~x.sending
  <2>1. Released(x) = Reset(NoConn) /\ x.sending = FALSE
    BY <1>2 DEF Released, Slot, GoodSlot
  <2>. QED
    BY <1>2, <2>1, ResetSlot, ZenonT(40)
<1>. QED
  BY <1>1, <1>2

\* What the sweep makes of a slot.
Skipped(x)  == [x EXCEPT !.skip = @ - 1]
HdrSent(x)  == [x EXCEPT !.state = IF x.gen THEN "send_body" ELSE "reading",
                         !.req = IF x.gen THEN @ ELSE 0]
BodySent(x) == [x EXCEPT !.state = "reading", !.req = 0, !.gen = FALSE]

Quietly(x, y) == y \in GoodSlot /\ y.conn = x.conn /\ y.sending = x.sending

LEMMA RespondingSlot ==
  ASSUME NEW x \in Slot, NEW r \in 0 .. MaxReq, NEW g \in BOOLEAN
  PROVE  Quietly(x, Responding(x, r, g))
BY DEF Quietly, GoodSlot, Responding, Slot, States

LEMMA SkippedSlot ==
  ASSUME NEW x \in GoodSlot, x.skip > 0
  PROVE  Quietly(x, Skipped(x))
BY DEF Quietly, GoodSlot, Skipped, Slot

LEMMA ReceivedSlot ==
  ASSUME NEW x \in GoodSlot, x.state = "recv_body"
  PROVE  Quietly(x, Received(x))
<1>1. x.putRemain \in Nat /\ x.putRemain > 0 /\ x.req \in 0 .. MaxReq /\ x \in Slot
  BY DEF GoodSlot, Slot
<1>2. CASE x.putRemain = 1
  <2> DEFINE y == [x EXCEPT !.putRemain = 0]
  <2>1. y \in Slot /\ y.conn = x.conn /\ y.sending = x.sending
    BY <1>1 DEF Slot
  <2> HIDE DEF y
  <2>2. Quietly(y, Responding(y, x.req, FALSE))
    BY <1>1, <2>1, RespondingSlot
  <2>. QED
    BY <1>2, <2>1, <2>2 DEF Received, Quietly, y
<1>3. CASE x.putRemain # 1
  <2> DEFINE y == [x EXCEPT !.putRemain = @ - 1]
  <2>1. y \in Slot /\ y.conn = x.conn /\ y.sending = x.sending /\ y.putRemain > 0
    BY <1>1, <1>3 DEF Slot
  <2>. QED
    BY <1>3, <2>1 DEF Received, Quietly, GoodSlot
<1>. QED
  BY <1>2, <1>3

LEMMA SentSlot ==
  ASSUME NEW x \in GoodSlot
  PROVE  Quietly(x, HdrSent(x)) /\ Quietly(x, BodySent(x))
<1>1. 0 \in 0 .. MaxReq
  BY SlotsAssumption
<1>. QED
  BY <1>1 DEF Quietly, GoodSlot, HdrSent, BodySent, Slot, States

LEMMA LocalSlots ==
  ASSUME Inv, NEW s \in Slots, NEW x \in GoodSlot, slots' = [slots EXCEPT ![s] = x]
  PROVE  /\ slots' \in [Slots -> GoodSlot] /\ slots'[s] = x
         /\ \A r \in Slots : r # s => slots'[r] = slots[r]
BY DEF Inv, Typed

-----------------------------------------------------------------------------
(* Where connections are. *)

\* Connections only close, and only slots whose connection is not open any more are
\* freed.
LEMMA LayoutShrinks ==
  ASSUME Inv, slots' \in [Slots -> GoodSlot], UNCHANGED ref, gone' \subseteq gone,
         \A s \in Slots : slots'[s].conn \in {slots[s].conn, NoConn},
         \A c \in Conns : \/ net'[c] = net[c]
                          \/ net[c] # "new" /\ net'[c] = "closed"
                          \/ net[c] = "open" /\ net'[c] = "forwarded",
         \A s \in Slots : slots'[s].conn # slots[s].conn => net'[slots[s].conn] # "open"
  PROVE  Layout'
<1>1. \A s \in Slots : slots[s].conn \in Conns \cup {NoConn}
  BY DEF Inv, Typed, Slot, GoodSlot
<1>2. Placed'
  BY DEF Inv, Layout, Placed
<1>3. Opened'
  <2> SUFFICES ASSUME NEW c \in Conns, net'[c] = "open"
               PROVE  ref[c] \in Slots /\ slots'[ref[c]].conn = c
    BY DEF Opened
  <2>1. net[c] = "open" /\ ref[c] \in Slots /\ slots[ref[c]].conn = c
    BY DEF Inv, Layout, Opened
  <2>. QED
    BY <2>1
<1>4. Fresh'
  <2> SUFFICES ASSUME NEW c \in Conns, net'[c] = "new"
               PROVE  c \notin gone' /\ \A s \in Slots : slots'[s].conn # c
    BY DEF Fresh
  <2>1. net[c] = "new" /\ c \notin gone /\ \A s \in Slots : slots[s].conn # c
    BY DEF Inv, Layout, Fresh
  <2>. QED
    BY <2>1, SlotsAssumption
<1>5. Leaving'
  <2> SUFFICES ASSUME NEW c \in gone'
               PROVE  /\ net'[c] = "closed" /\ ref[c] \in Slots
                      /\ slots'[ref[c]].conn \in {c, NoConn}
    BY DEF Leaving
  <2>1. /\ c \in Conns /\ net[c] = "closed" /\ ref[c] \in Slots
        /\ slots[ref[c]].conn \in {c, NoConn}
    BY DEF Inv, Typed, Layout, Leaving
  <2>. QED
    BY <2>1
<1>. QED
  BY <1>2, <1>3, <1>4, <1>5 DEF Layout

-----------------------------------------------------------------------------
(* Steps that leave the worker's queue and the slots it writes to alone. *)

Quiet ==
  /\ UNCHANGED <<inbox, worker>>
  /\ \A s \in Slots : slots'[s].sending => slots[s].sending

Gentle ==
  \A s \in Slots : slots[s].sending /\ slots[s].conn # NoConn =>
                  slots'[s].sending /\ slots'[s].conn = slots[s].conn

\* A slot that is not sending gets a new value; its connection stays or goes.
LEMMA QuietLocal ==
  ASSUME Inv, NEW s \in Slots, ~slots[s].sending, NEW x \in GoodSlot, x.sending = FALSE,
         slots' = [slots EXCEPT ![s] = x],
         x.conn \in {slots[s].conn, NoConn},
         net' \in [Conns -> {"new", "open", "closed", "forwarded"}],
         \A c \in Conns : \/ net'[c] = net[c]
                          \/ net[c] # "new" /\ net'[c] = "closed"
                          \/ net[c] = "open" /\ net'[c] = "forwarded",
         x.conn # slots[s].conn => net'[slots[s].conn] # "open",
         gone' \subseteq gone, UNCHANGED <<ref, asked, owed, inbox, worker>>,
         ring' \in [Conns -> Seq(Token)]
  PROVE  Inv' /\ Quiet /\ Gentle
<1>1. /\ slots' \in [Slots -> GoodSlot] /\ slots'[s] = x
      /\ \A r \in Slots : r # s => slots'[r] = slots[r]
  BY LocalSlots
<1>2. Typed'
  <2>1. gone' \subseteq Conns
    BY DEF Inv, Typed
  <2>. QED
    BY <1>1, <2>1 DEF Inv, Typed
<1>3. Layout'
  <2>1. /\ \A r \in Slots : slots'[r].conn \in {slots[r].conn, NoConn}
        /\ \A r \in Slots : slots'[r].conn # slots[r].conn => net'[slots[r].conn] # "open"
    BY <1>1
  <2>. QED
    BY <1>1, <2>1, LayoutShrinks
<1>4. Quiet /\ Gentle
  BY <1>1 DEF Quiet, Gentle
<1>. QED
  BY <1>2, <1>3, <1>4 DEF Inv

\* The same without a connection that closes.
LEMMA QuietServe ==
  ASSUME Inv, NEW s \in Slots, ~slots[s].sending, NEW x \in GoodSlot, x.sending = FALSE,
         slots' = [slots EXCEPT ![s] = x], x.conn = slots[s].conn,
         UNCHANGED <<net, ref, gone, asked, owed, inbox, worker>>,
         ring' \in [Conns -> Seq(Token)]
  PROVE  Inv' /\ Quiet /\ Gentle
<1>1. net' \in [Conns -> {"new", "open", "closed", "forwarded"}]
  BY DEF Inv, Typed
<1>. QED
  BY <1>1, QuietLocal

\* A slot is freed, its connection closed.
LEMMA QuietFree ==
  ASSUME Inv, NEW s \in Slots, ~slots[s].sending, slots' = [slots EXCEPT ![s] = Reset(NoConn)],
         net' = [net EXCEPT ![slots[s].conn] = "closed"] \/ (net' = net /\ net[slots[s].conn] # "open"),
         slots[s].conn \in Conns,
         UNCHANGED <<ref, gone, asked, owed, inbox, worker, ring>>
  PROVE  Inv' /\ Quiet /\ Gentle
<1> DEFINE c == slots[s].conn
<1>1. net \in [Conns -> {"new", "open", "closed", "forwarded"}] /\ ring' \in [Conns -> Seq(Token)]
  BY DEF Inv, Typed
<1>2. net[c] # "new"
  BY DEF Inv, Layout, Fresh
<1>3. /\ net' \in [Conns -> {"new", "open", "closed", "forwarded"}]
      /\ \A d \in Conns : net'[d] = net[d] \/ (net[d] # "new" /\ net'[d] = "closed")
      /\ net'[c] # "open"
  BY <1>1, <1>2
<1>4. Reset(NoConn) \in GoodSlot /\ Reset(NoConn).sending = FALSE /\ Reset(NoConn).conn = NoConn
  BY ResetSlot
<1>. QED
  BY <1>1, <1>3, <1>4, QuietLocal

-----------------------------------------------------------------------------
(* The clients and the steps of the web task. *)

LEMMA SlotParts ==
  ASSUME Inv, NEW s \in Slots
  PROVE  /\ slots[s] \in GoodSlot /\ slots[s].conn \in Conns \cup {NoConn}
         /\ Swept(s) => slots[s].conn \in Conns /\ slots[s].sending = FALSE
         /\ Live(s) => slots[s].conn \in Conns /\ slots[s].sending = FALSE /\ net[slots[s].conn] = "open"
                       /\ ring[slots[s].conn] \in Seq(Token) /\ ring \in [Conns -> Seq(Token)]
<1>1. slots[s] \in GoodSlot
  BY DEF Inv, Typed
<1>. QED
  BY <1>1 DEF Slot, GoodSlot, Swept, Live, Inv, Typed

LEMMA TailRing ==
  ASSUME Inv, NEW c \in Conns, ring[c] # <<>>
  PROVE  [ring EXCEPT ![c] = Tail(@)] \in [Conns -> Seq(Token)]
<1>1. ring \in [Conns -> Seq(Token)]
  BY DEF Inv, Typed
<1>2. Tail(ring[c]) \in Seq(Token)
  BY <1>1
<1>. QED
  BY <1>1, <1>2

LEMMA AppendRing ==
  ASSUME Inv, NEW c \in Conns, NEW m \in Token
  PROVE  [ring EXCEPT ![c] = Append(@, m)] \in [Conns -> Seq(Token)]
<1>1. ring \in [Conns -> Seq(Token)]
  BY DEF Inv, Typed
<1>2. Append(ring[c], m) \in Seq(Token)
  BY <1>1
<1>. QED
  BY <1>1, <1>2

LEMMA ClientStepKeeps ==
  ASSUME Inv, ClientStep
  PROVE  Inv' /\ Quiet /\ Gentle
<1>1. ASSUME NEW c \in Conns, NEW k \in Kinds, SendHead(c, k) PROVE Inv' /\ Quiet /\ Gentle
  <2> DEFINE n == Len(asked[c]) + 1
  <2>1. /\ asked' = [asked EXCEPT ![c] = Append(@, k)] /\ owed' = [owed EXCEPT ![c] = BodyOf(k)]
        /\ ring' = [ring EXCEPT ![c] = Append(@, [req |-> n, part |-> "head"])]
        /\ Len(asked[c]) < MaxReq
        /\ UNCHANGED <<net, ref, gone, slots, inbox, worker>>
    BY <1>1 DEF SendHead, conns
  <2>2. asked \in [Conns -> Seq(Kinds)] /\ owed \in [Conns -> 0 .. BodyLen]
    BY DEF Inv, Typed
  <2>3. Append(asked[c], k) \in Seq(Kinds) /\ Len(Append(asked[c], k)) = n /\ n \in 1 .. MaxReq
    BY <2>1, <2>2, SlotsAssumption
  <2>4. BodyOf(k) \in 0 .. BodyLen
    BY SlotsAssumption DEF BodyOf
  <2>5. [req |-> n, part |-> "head"] \in Token
    BY <2>3 DEF Token
  <2>6. ring' \in [Conns -> Seq(Token)]
    BY <2>1, <2>5, AppendRing
  <2> HIDE DEF n
  <2>7. /\ asked' \in [Conns -> Seq(Kinds)] /\ asked'[c] = Append(asked[c], k)
        /\ \A d \in Conns : d # c => asked'[d] = asked[d]
    BY <2>1, <2>2, <2>3
  <2>8. /\ owed' \in [Conns -> 0 .. BodyLen]
        /\ \A d \in Conns : d # c => owed'[d] = owed[d]
    BY <2>1, <2>2, <2>4
  <2>9. \A d \in Conns : Len(asked'[d]) <= MaxReq /\ (owed'[d] > 0 => Len(asked'[d]) > 0)
    <3>1. Len(asked'[c]) <= MaxReq /\ Len(asked'[c]) > 0
      BY <2>3, <2>7, SlotsAssumption
    <3>2. \A d \in Conns : d # c =>
             Len(asked'[d]) <= MaxReq /\ (owed'[d] > 0 => Len(asked'[d]) > 0)
      BY <2>7, <2>8 DEF Inv, Typed
    <3>. QED
      BY <3>1, <3>2
  <2>10. Typed'
    BY <2>1, <2>6, <2>7, <2>8, <2>9 DEF Inv, Typed
  <2>. QED
    BY <2>1, <2>10 DEF Inv, Layout, Placed, Opened, Fresh, Leaving, Quiet, Gentle
<1>2. ASSUME NEW c \in Conns, SendBodyToken(c) PROVE Inv' /\ Quiet /\ Gentle
  <2>1. /\ owed[c] > 0 /\ owed' = [owed EXCEPT ![c] = @ - 1]
        /\ ring' = [ring EXCEPT ![c] = Append(@, [req |-> Len(asked[c]), part |-> "body"])]
        /\ UNCHANGED <<net, ref, gone, slots, inbox, worker, asked>>
    BY <1>2 DEF SendBodyToken, conns
  <2>2. asked \in [Conns -> Seq(Kinds)] /\ owed \in [Conns -> 0 .. BodyLen]
        /\ Len(asked[c]) > 0 /\ Len(asked[c]) <= MaxReq
    BY <2>1 DEF Inv, Typed
  <2>3. [req |-> Len(asked[c]), part |-> "body"] \in Token
    BY <2>2, SlotsAssumption DEF Token
  <2>4. ring' \in [Conns -> Seq(Token)]
    BY <2>1, <2>3, AppendRing
  <2>5. /\ owed' \in [Conns -> 0 .. BodyLen] 
        /\ \A d \in Conns : d # c => owed'[d] = owed[d]
    BY <2>1, <2>2, SlotsAssumption
  <2>6. \A d \in Conns : Len(asked'[d]) <= MaxReq /\ (owed'[d] > 0 => Len(asked'[d]) > 0)
    BY <2>1, <2>2, <2>5 DEF Inv, Typed
  <2>7. Typed'
    BY <2>1, <2>4, <2>5, <2>6 DEF Inv, Typed
  <2>. QED
    BY <2>1, <2>7 DEF Inv, Layout, Placed, Opened, Fresh, Leaving, Quiet, Gentle
<1>3. ASSUME NEW c \in Conns, HangUp(c) PROVE Inv' /\ Quiet /\ Gentle
  <2>1. /\ net[c] = "open" /\ net' = [net EXCEPT ![c] = "closed"] /\ gone' = gone \cup {c}
        /\ UNCHANGED <<ref, ring, asked, owed, slots, inbox, worker>>
    BY <1>3 DEF HangUp, client
  <2>2. ref[c] \in Slots /\ slots[ref[c]].conn = c
    BY <2>1 DEF Inv, Layout, Opened
  <2>3. Typed'
    BY <2>1 DEF Inv, Typed
  <2>4. net \in [Conns -> {"new", "open", "closed", "forwarded"}]
    BY DEF Inv, Typed
  <2>5. Placed' /\ Opened' /\ Fresh' /\ Leaving'
    BY <2>1, <2>2, <2>4 DEF Inv, Typed, Layout, Placed, Opened, Fresh, Leaving
  <2>. QED
    BY <2>1, <2>3, <2>5 DEF Inv, Layout, Quiet, Gentle
<1>. QED
  BY <1>1, <1>2, <1>3 DEF ClientStep

LEMMA SweepKeeps ==
  ASSUME Inv, NEW s \in Slots,
         SweepGone(s) \/ Expire(s) \/ SkipBody(s) \/ RecvBody(s) \/ SendHdr(s) \/ SendBody(s)
  PROVE  Inv' /\ Quiet /\ Gentle
<1> DEFINE c == slots[s].conn
<1>0. slots[s] \in GoodSlot /\ ring \in [Conns -> Seq(Token)]
  BY SlotParts DEF Inv, Typed
<1>1. CASE SweepGone(s)
  <2>1. /\ slots' = [slots EXCEPT ![s] = Reset(NoConn)] /\ net' = net /\ net[c] # "open"
        /\ c \in Conns /\ ~slots[s].sending
        /\ UNCHANGED <<ref, gone, asked, owed, inbox, worker, ring>>
    BY <1>1, SlotParts DEF SweepGone, Live, conns, client
  <2>. QED
    BY <2>1, QuietFree
<1>2. CASE Expire(s)
  <2>1. /\ slots' = [slots EXCEPT ![s] = Reset(NoConn)] /\ net' = [net EXCEPT ![c] = "closed"]
        /\ c \in Conns /\ ~slots[s].sending
        /\ UNCHANGED <<ref, gone, asked, owed, inbox, worker, ring>>
    BY <1>2, SlotParts DEF Expire, client
  <2>. QED
    BY <2>1, QuietFree
<1>3. CASE SkipBody(s)
  <2>1. /\ slots' = [slots EXCEPT ![s] = Skipped(slots[s])] /\ slots[s].skip > 0
        /\ c \in Conns /\ slots[s].sending = FALSE /\ ring[c] # <<>>
        /\ ring' = [ring EXCEPT ![c] = Tail(@)]
        /\ UNCHANGED <<net, ref, gone, asked, owed, inbox, worker>>
    BY <1>3, SlotParts DEF SkipBody, Skipped, conns, client
  <2>2. Quietly(slots[s], Skipped(slots[s])) /\ ring' \in [Conns -> Seq(Token)]
    BY <1>0, <2>1, SkippedSlot, TailRing
  <2>. QED
    BY <2>1, <2>2, QuietServe DEF Quietly
<1>4. CASE RecvBody(s)
  <2>1. /\ slots' = [slots EXCEPT ![s] = Received(slots[s])] /\ slots[s].state = "recv_body"
        /\ c \in Conns /\ slots[s].sending = FALSE /\ ring[c] # <<>>
        /\ ring' = [ring EXCEPT ![c] = Tail(@)]
        /\ UNCHANGED <<net, ref, gone, asked, owed, inbox, worker>>
    <3>1. slots' = [slots EXCEPT ![s] = Received(slots[s])]
      BY <1>4 DEF RecvBody
    <3>2. /\ slots[s].state = "recv_body" /\ ring[c] # <<>> /\ Swept(s)
          /\ ring' = [ring EXCEPT ![c] = Tail(@)]
          /\ UNCHANGED <<net, ref, gone, asked, owed, inbox, worker>>
      BY <1>4 DEF RecvBody, Live, conns, client
    <3>. QED
      BY <3>1, <3>2, SlotParts
  <2>2. Quietly(slots[s], Received(slots[s])) /\ ring' \in [Conns -> Seq(Token)]
    BY <1>0, <2>1, ReceivedSlot, TailRing
  <2>. QED
    BY <2>1, <2>2, QuietServe DEF Quietly
<1>5. CASE SendHdr(s)
  <2>1. /\ slots' = [slots EXCEPT ![s] = HdrSent(slots[s])] /\ slots[s].sending = FALSE
        /\ UNCHANGED <<net, ref, gone, asked, owed, inbox, worker, ring>>
    BY <1>0, <1>5, SlotParts DEF SendHdr, HdrSent, conns, client, Inv, Typed
  <2>. QED
    BY <1>0, <2>1, SentSlot, QuietServe DEF Quietly
<1>6. CASE SendBody(s)
  <2>1. /\ slots' = [slots EXCEPT ![s] = BodySent(slots[s])] /\ slots[s].sending = FALSE
        /\ UNCHANGED <<net, ref, gone, asked, owed, inbox, worker, ring>>
    BY <1>0, <1>6, SlotParts DEF SendBody, BodySent, conns, client, Inv, Typed
  <2>. QED
    BY <1>0, <2>1, SentSlot, QuietServe DEF Quietly
<1>. QED
  BY <1>1, <1>2, <1>3, <1>4, <1>5, <1>6

LEMMA DisconnectKeeps ==
  ASSUME Inv, NEW c \in Conns, OnDisconnect(c)
  PROVE  Inv' /\ Quiet /\ Gentle
<1> DEFINE s == ref[c]
           x == Released(slots[s])
<1>1. /\ c \in gone /\ gone' = gone \ {c} /\ slots' = [slots EXCEPT ![s] = x]
      /\ UNCHANGED <<net, ref, ring, asked, owed, inbox, worker>>
  BY DEF OnDisconnect, client
<1>2. s \in Slots /\ net[c] = "closed" /\ slots[s].conn \in {c, NoConn}
  BY <1>1 DEF Inv, Layout, Leaving
<1>3. slots[s] \in GoodSlot
  BY <1>2, SlotParts
<1>4. x \in GoodSlot /\ x.sending = slots[s].sending
      /\ x.conn = IF slots[s].sending THEN slots[s].conn ELSE NoConn
  BY <1>3, ReleasedSlot
<1> HIDE DEF x, s
<1>5. /\ slots' \in [Slots -> GoodSlot] /\ slots'[s] = x
      /\ \A r \in Slots : r # s => slots'[r] = slots[r]
  BY <1>1, <1>2, <1>4, LocalSlots
<1>6. Typed'
  BY <1>1, <1>5 DEF Inv, Typed
<1>7. Layout'
  <2>1. \A r \in Slots : slots'[r].conn \in {slots[r].conn, NoConn}
    BY <1>4, <1>5
  <2>2. \A r \in Slots : slots'[r].conn # slots[r].conn => net'[slots[r].conn] # "open"
    BY <1>1, <1>2, <1>4, <1>5
  <2>3. gone' \subseteq gone /\ \A d \in Conns : net'[d] = net[d]
    BY <1>1
  <2>. QED
    BY <1>1, <1>5, <2>1, <2>2, <2>3, LayoutShrinks
<1>8. Quiet /\ Gentle
  BY <1>1, <1>2, <1>4, <1>5 DEF Quiet, Gentle
<1>. QED
  BY <1>6, <1>7, <1>8 DEF Inv

LEMMA WifiDownKeeps ==
  ASSUME Inv, WifiDown
  PROVE  Inv' /\ Quiet /\ Gentle
<1> DEFINE live == {s \in Slots : slots[s].state # "idle" /\ slots[s].conn # NoConn}
           cut  == {s \in live : ~slots[s].sending}
<1>1. /\ slots' = [s \in Slots |-> IF s \in live THEN Released(slots[s]) ELSE slots[s]]
      /\ net' = [c \in Conns |-> IF \E s \in cut : slots[s].conn = c THEN "closed" ELSE net[c]]
      /\ UNCHANGED <<ref, gone, ring, asked, owed, inbox, worker>>
  BY DEF WifiDown, client
<1>2. \A s \in Slots : slots[s] \in GoodSlot /\ slots[s].conn \in Conns \cup {NoConn}
  BY SlotParts
<1>3. net \in [Conns -> {"new", "open", "closed", "forwarded"}]
  BY DEF Inv, Typed
<1>4. \A s \in Slots : /\ slots'[s] \in GoodSlot /\ slots'[s].sending = slots[s].sending
                       /\ slots'[s].conn \in {slots[s].conn, NoConn}
                       /\ slots[s].sending => slots'[s].conn = slots[s].conn
                       /\ slots'[s].conn # slots[s].conn => s \in cut
  BY <1>1, <1>2, ReleasedSlot
<1>5. \A s \in cut : slots[s].conn \in Conns
  BY <1>2
<1>6. \A c \in Conns : net'[c] = net[c] \/ (net[c] # "new" /\ net'[c] = "closed")
  <2> SUFFICES ASSUME NEW c \in Conns, NEW s \in cut, slots[s].conn = c PROVE net[c] # "new"
    BY <1>1
  <2>. QED
    BY DEF Inv, Layout, Fresh
<1>7. \A s \in Slots : slots'[s].conn # slots[s].conn => net'[slots[s].conn] # "open"
  BY <1>1, <1>4, <1>5
<1>8. slots' \in [Slots -> GoodSlot]
  <2>1. DOMAIN slots' = Slots /\ slots' = [s \in Slots |-> slots'[s]]
    BY <1>1
  <2>. QED
    BY <1>4, <2>1
<1>9. net' \in [Conns -> {"new", "open", "closed", "forwarded"}]
  BY <1>1, <1>3
<1>10. Typed'
  BY <1>1, <1>8, <1>9 DEF Inv, Typed
<1> HIDE DEF cut, live
<1>11. Layout'
  BY <1>1, <1>4, <1>6, <1>7, <1>8, LayoutShrinks
<1>12. Quiet /\ Gentle
  BY <1>1, <1>4 DEF Quiet, Gentle
<1>. QED
  BY <1>10, <1>11, <1>12 DEF Inv

-----------------------------------------------------------------------------
(* Connections come. *)

LEMMA AcceptedSlot ==
  ASSUME NEW c \in Conns
  PROVE  /\ Accepted(c) \in GoodSlot /\ Accepted(c).conn = c /\ Accepted(c).sending = FALSE
BY ResetSlot DEF Accepted

\* Connection c enters slot s; the connection of slot v is closed, if it had one.
LEMMA Enters ==
  ASSUME Inv, NEW c \in Conns, net[c] = "new", gone = {}, NEW v \in Slots, NEW s \in Slots,
         s = v \/ slots[s].conn = NoConn,
         slots' \in [Slots -> GoodSlot], slots'[s] = Accepted(c),
         v # s => slots'[v].conn = NoConn,
         \A r \in Slots : r # s /\ r # v => slots'[r].conn = slots[r].conn,
         net' \in [Conns -> {"new", "open", "closed", "forwarded"}],
         net'[c] = "open",
         \A d \in Conns : d # c /\ d # slots[v].conn => net'[d] = net[d],
         slots[v].conn \in Conns => net'[slots[v].conn] = "closed",
         ref' = [ref EXCEPT ![c] = s],
         UNCHANGED <<gone, ring, asked, owed, inbox, worker>>
  PROVE  Inv'
<1>1. /\ \A r \in Slots : slots[r].conn \in Conns \cup {NoConn} /\ slots[r].conn # c
      /\ Accepted(c).conn = c /\ c # NoConn
  BY SlotParts, AcceptedSlot, SlotsAssumption DEF Inv, Layout, Fresh
<1>2. /\ ref' \in [Conns -> {0} \cup Slots] /\ ref'[c] = s
      /\ \A d \in Conns : d # c => ref'[d] = ref[d]
  BY DEF Inv, Typed
<1>3. Typed'
  BY <1>2 DEF Inv, Typed
<1>4. Placed'
  <2> SUFFICES ASSUME NEW r \in Slots, slots'[r].conn # NoConn
               PROVE  ref'[slots'[r].conn] = r
    BY DEF Placed
  <2>1. CASE r = s
    BY <1>1, <1>2, <2>1
  <2>2. CASE r # s
    <3>1. r # v /\ slots'[r].conn = slots[r].conn
      BY <2>2
    <3>2. ref[slots[r].conn] = r
      BY <3>1 DEF Inv, Layout, Placed
    <3>. QED
      BY <1>1, <1>2, <3>1, <3>2
  <2>. QED
    BY <2>1, <2>2
<1>5. Opened'
  <2> SUFFICES ASSUME NEW d \in Conns, net'[d] = "open"
               PROVE  ref'[d] \in Slots /\ slots'[ref'[d]].conn = d
    BY DEF Opened
  <2>1. CASE d = c
    BY <1>1, <1>2, <2>1
  <2>2. CASE d # c
    <3>1. d # slots[v].conn /\ net[d] = "open" /\ ref'[d] = ref[d]
      BY <1>2, <2>2
    <3>2. ref[d] \in Slots /\ slots[ref[d]].conn = d
      BY <3>1 DEF Inv, Layout, Opened
    <3>3. ref[d] # v /\ ref[d] # s
      BY <3>1, <3>2, SlotsAssumption
    <3>. QED
      BY <3>1, <3>2, <3>3
  <2>. QED
    BY <2>1, <2>2
<1>6. Fresh'
  <2> SUFFICES ASSUME NEW d \in Conns, net'[d] = "new"
               PROVE  d \notin gone' /\ \A r \in Slots : slots'[r].conn # d
    BY DEF Fresh
  <2>1. d # c /\ d # slots[v].conn /\ net[d] = "new"
    OBVIOUS
  <2>2. \A r \in Slots : slots[r].conn # d
    BY <2>1 DEF Inv, Layout, Fresh
  <2>. QED
    BY <1>1, <2>1, <2>2, SlotsAssumption
<1>7. Leaving'
  BY DEF Leaving
<1>. QED
  BY <1>3, <1>4, <1>5, <1>6, <1>7 DEF Inv, Layout

LEMMA ConnectKeeps ==
  ASSUME Inv, NEW c \in Conns, Connect(c)
  PROVE  Inv' /\ Quiet /\ Gentle
<1>1. /\ net[c] = "new" /\ gone = {}
      /\ UNCHANGED <<gone, ring, asked, owed, inbox, worker>>
  BY DEF Connect, client
<1>2. net \in [Conns -> {"new", "open", "closed", "forwarded"}] /\ slots \in [Slots -> GoodSlot]
  BY DEF Inv, Typed
<1>3. ASSUME NEW s \in Slots, s \in FreeSlots,
             slots' = [slots EXCEPT ![s] = Accepted(c)],
             net' = [net EXCEPT ![c] = "open"], ref' = [ref EXCEPT ![c] = s]
      PROVE  Inv' /\ Quiet /\ Gentle
  <2>1. slots[s].conn = NoConn /\ NoConn \notin Conns
    BY <1>3, SlotsAssumption DEF FreeSlots
  <2>2. Accepted(c) \in GoodSlot /\ Accepted(c).sending = FALSE
    BY AcceptedSlot
  <2>3. /\ slots' \in [Slots -> GoodSlot] /\ slots'[s] = Accepted(c)
        /\ \A r \in Slots : r # s => slots'[r] = slots[r]
    BY <1>2, <1>3, <2>2
  <2>4. /\ net' \in [Conns -> {"new", "open", "closed", "forwarded"}] /\ net'[c] = "open"
        /\ \A d \in Conns : d # c => net'[d] = net[d]
    BY <1>2, <1>3
  <2>5. Inv'
    BY <1>1, <1>3, <2>1, <2>3, <2>4, Enters
  <2>6. Quiet /\ Gentle
    BY <1>1, <2>1, <2>2, <2>3 DEF Quiet, Gentle
  <2>. QED
    BY <2>5, <2>6
<1>4. CASE net' = [net EXCEPT ![c] = "closed"] /\ UNCHANGED <<ref, slots>>
  <2>1. \A d \in Conns : d # c => net'[d] = net[d]
    BY <1>2, <1>4
  <2>2. net'[c] = "closed" /\ net' \in [Conns -> {"new", "open", "closed", "forwarded"}]
    BY <1>2, <1>4
  <2>3. Typed'
    BY <1>1, <1>4, <2>2 DEF Inv, Typed
  <2>4. Layout'
    BY <1>1, <1>4, <2>1, <2>2 DEF Inv, Layout, Placed, Opened, Fresh, Leaving
  <2>. QED
    BY <1>1, <1>4, <2>3, <2>4 DEF Inv, Quiet, Gentle
<1>. QED
  BY <1>3, <1>4 DEF Connect, FirstFree

LEMMA ConnectBusyKeeps ==
  ASSUME Inv, NEW c \in Conns, ConnectBusy(c)
  PROVE  Inv' /\ Quiet /\ (Crowd # "any" => Gentle)
<1>1. /\ net[c] = "new" /\ gone = {}
      /\ UNCHANGED <<gone, ring, asked, owed, inbox, worker>>
  BY DEF ConnectBusy, client
<1>2. net \in [Conns -> {"new", "open", "closed", "forwarded"}] /\ slots \in [Slots -> GoodSlot]
  BY DEF Inv, Typed
<1>3. PICK v \in Slots, s \in Slots :
        /\ Crowd # "any" => ~slots[v].sending
        /\ s \in FreeSlots \cup {v}
        /\ slots' = [slots EXCEPT ![v] = Reset(NoConn), ![s] = Accepted(c)]
        /\ net' = Evicted(c, v) /\ ref' = [ref EXCEPT ![c] = s]
  BY SlotsAssumption DEF ConnectBusy, FirstFree
<1>4. /\ Accepted(c) \in GoodSlot /\ Accepted(c).sending = FALSE
      /\ Reset(NoConn) \in GoodSlot /\ Reset(NoConn).conn = NoConn /\ Reset(NoConn).sending = FALSE
  BY AcceptedSlot, ResetSlot
<1>5. /\ slots' \in [Slots -> GoodSlot] /\ slots'[s] = Accepted(c)
      /\ v # s => slots'[v] = Reset(NoConn)
      /\ \A r \in Slots : r # s /\ r # v => slots'[r] = slots[r]
  BY <1>2, <1>3, <1>4
<1>6. s = v \/ slots[s].conn = NoConn
  BY <1>3 DEF FreeSlots
<1>7. /\ net' \in [Conns -> {"new", "open", "closed", "forwarded"}] /\ net'[c] = "open"
      /\ \A d \in Conns : d # c /\ d # slots[v].conn => net'[d] = net[d]
      /\ \A d \in Conns : d # c /\ d = slots[v].conn => net'[d] = "closed"
  BY <1>2, <1>3 DEF Evicted
<1>8. slots[v].conn # c
  BY <1>1 DEF Inv, Layout, Fresh
<1>9. slots[v].conn \in Conns => net'[slots[v].conn] = "closed"
  BY <1>7, <1>8
<1>10. v # s => slots'[v].conn = NoConn
  BY <1>4, <1>5
<1>11. \A r \in Slots : r # s /\ r # v => slots'[r].conn = slots[r].conn
  BY <1>5
<1>12. Inv'
  <2>1. ref' = [ref EXCEPT ![c] = s]
    BY <1>3
  <2>2. /\ slots' \in [Slots -> GoodSlot] /\ slots'[s] = Accepted(c)
        /\ net' \in [Conns -> {"new", "open", "closed", "forwarded"}] /\ net'[c] = "open"
        /\ \A d \in Conns : d # c /\ d # slots[v].conn => net'[d] = net[d]
    BY <1>5, <1>7
  <2>. QED
    BY <1>1, <1>6, <1>9, <1>10, <1>11, <2>1, <2>2, Enters
<1>13. Quiet
  BY <1>1, <1>4, <1>5 DEF Quiet
<1>14. Crowd # "any" => Gentle
  BY <1>3, <1>4, <1>5, <1>6 DEF Gentle
<1>. QED
  BY <1>12, <1>13, <1>14

-----------------------------------------------------------------------------
(* Requests are parsed. *)

\* A slot whose buffer changed, while it is reading.
Buffered(x, buf, skip) == [x EXCEPT !.rbuf = buf, !.skip = skip]

LEMMA BufferedSlot ==
  ASSUME NEW x \in GoodSlot, NEW buf \in Seq(Token), NEW skip \in Nat
  PROVE  Quietly(x, Buffered(x, buf, skip))
BY DEF Quietly, GoodSlot, Buffered, Slot

\* The slot given to the file worker.
Handed(x) == [x EXCEPT !.sending = TRUE]

LEMMA HandedSlot ==
  ASSUME NEW x \in GoodSlot
  PROVE  Handed(x) \in GoodSlot /\ Handed(x).sending = TRUE /\ Handed(x).conn = x.conn
BY DEF GoodSlot, Handed, Slot

\* A step that queues a job for slot s.
Queued(s) ==
  /\ UNCHANGED worker
  /\ \E r \in 0 .. MaxReq : inbox' = Append(inbox, [slot |-> s, conn |-> slots[s].conn, req |-> r])
  /\ ~slots[s].sending /\ slots[s].conn \in Conns
  /\ slots'[s].sending /\ slots'[s].conn = slots[s].conn
  /\ \A r \in Slots : r # s => slots'[r] = slots[r]

Serving(s) ==
  /\ Inv /\ s \in Slots /\ Live(s)
  /\ UNCHANGED <<ref, gone, asked, owed, worker>>

LEMMA ServeHereKeeps ==
  ASSUME NEW s, Serving(s), NEW r \in 0 .. MaxReq, NEW g \in BOOLEAN, NEW need \in Nat,
         NEW buf \in Seq(Token), NEW rest \in Seq(Token), ServeHere(s, r, g, need, buf, rest)
  PROVE  Inv' /\ Quiet /\ Gentle
<1> DEFINE d == Consumed(need, buf, rest)
           b == Buffered(slots[s], d.rbuf, d.skip)
           x == Responding(b, r, g)
<1>1. Inv /\ s \in Slots /\ slots[s] \in GoodSlot /\ slots[s].sending = FALSE
      /\ UNCHANGED <<ref, gone, asked, owed, worker>>
  BY SlotParts DEF Serving
<1>2. d.rbuf \in Seq(Token) /\ d.ring \in Seq(Token) /\ d.skip \in Nat
  BY ConsumedTyped
<1>3. slots' = [slots EXCEPT ![s] = x]
  BY DEF ServeHere, Buffered
<1>4. ring' = [ring EXCEPT ![slots[s].conn] = d.ring] /\ UNCHANGED <<net, inbox>>
  BY DEF ServeHere
<1> HIDE DEF d
<1>5. Quietly(slots[s], b)
  BY <1>1, <1>2, BufferedSlot
<1> HIDE DEF b
<1>6. Quietly(b, x)
  BY <1>5, RespondingSlot DEF Quietly, GoodSlot
<1> HIDE DEF x
<1>7. ring' \in [Conns -> Seq(Token)]
  BY <1>1, <1>2, <1>4 DEF Inv, Typed
<1>. QED
  BY <1>1, <1>3, <1>4, <1>5, <1>6, <1>7, QuietServe DEF Quietly

LEMMA ServeFileKeeps ==
  ASSUME NEW s, Serving(s), NEW r \in 0 .. MaxReq, NEW need \in Nat,
         NEW buf \in Seq(Token), NEW rest \in Seq(Token), ServeFile(s, r, need, buf, rest)
  PROVE  Inv' /\ ((Quiet /\ Gentle) \/ Queued(s))
<1> DEFINE d == Consumed(need, buf, rest)
           b == Buffered(slots[s], d.rbuf, d.skip)
           job == [slot |-> s, conn |-> slots[s].conn, req |-> r]
<1>1. Inv /\ s \in Slots /\ slots[s] \in GoodSlot /\ slots[s].sending = FALSE
      /\ slots[s].conn \in Conns /\ UNCHANGED <<ref, gone, asked, owed, worker>>
  BY SlotParts DEF Serving
<1>2. d.rbuf \in Seq(Token) /\ d.ring \in Seq(Token) /\ d.skip \in Nat
  BY ConsumedTyped
<1>3. ring' = [ring EXCEPT ![slots[s].conn] = d.ring] /\ UNCHANGED net
  BY DEF ServeFile
<1>4. \/ /\ Len(inbox) < InboxDepth /\ inbox' = Append(inbox, job)
         /\ slots' = [slots EXCEPT ![s] = Handed(b)]
      \/ UNCHANGED inbox /\ slots' = [slots EXCEPT ![s] = Responding(b, r, FALSE)]
  BY DEF ServeFile, Buffered, Handed
<1> HIDE DEF d
<1>5. Quietly(slots[s], b)
  BY <1>1, <1>2, BufferedSlot
<1> HIDE DEF b
<1>6. ring' \in [Conns -> Seq(Token)]
  BY <1>1, <1>2, <1>3 DEF Inv, Typed
<1>7. CASE UNCHANGED inbox /\ slots' = [slots EXCEPT ![s] = Responding(b, r, FALSE)]
  <2> DEFINE x == Responding(b, r, FALSE)
  <2>1. Quietly(b, x)
    BY <1>5, RespondingSlot DEF Quietly, GoodSlot
  <2> HIDE DEF x
  <2>2. slots' = [slots EXCEPT ![s] = x]
    BY <1>7 DEF x
  <2>. QED
    BY <1>1, <1>3, <1>5, <1>6, <1>7, <2>1, <2>2, QuietServe DEF Quietly
<1>8. CASE /\ Len(inbox) < InboxDepth /\ inbox' = Append(inbox, job)
           /\ slots' = [slots EXCEPT ![s] = Handed(b)]
  <2>1. Handed(b) \in GoodSlot /\ Handed(b).sending = TRUE /\ Handed(b).conn = slots[s].conn
    BY <1>5, HandedSlot DEF Quietly
  <2>2. /\ slots' \in [Slots -> GoodSlot] /\ slots'[s] = Handed(b)
        /\ \A q \in Slots : q # s => slots'[q] = slots[q]
    BY <1>1, <1>8, <2>1, LocalSlots
  <2>3. job \in Job
    BY <1>1 DEF Job
  <2> HIDE DEF job
  <2>4. inbox' \in Seq(Job) /\ Len(inbox') <= InboxDepth
    <3>1. inbox \in Seq(Job) /\ InboxDepth \in Nat
      BY <1>1, SlotsAssumption DEF Inv, Typed
    <3>2. inbox' \in Seq(Job) /\ Len(inbox') = Len(inbox) + 1
      BY <1>8, <2>3, <3>1
    <3>. QED
      BY <1>8, <3>1, <3>2
  <2>5. Typed'
    BY <1>1, <1>3, <1>6, <2>2, <2>4 DEF Inv, Typed
  <2>6. \A q \in Slots : slots'[q].conn = slots[q].conn
    BY <2>1, <2>2
  <2>7. Layout'
    BY <1>1, <1>3, <2>2, <2>6, LayoutShrinks
  <2>8. Queued(s)
    BY <1>1, <1>8, <2>1, <2>2 DEF Queued, job
  <2>. QED
    BY <2>5, <2>7, <2>8 DEF Inv
<1>. QED
  BY <1>4, <1>7, <1>8

\* The buffer handed to a PUT.
Emptied(x) == [x EXCEPT !.rbuf = <<>>]
Awaiting(x, r, left) == [Emptied(x) EXCEPT !.state = "recv_body", !.req = r, !.putRemain = left]

LEMMA AwaitingSlot ==
  ASSUME NEW x \in GoodSlot, NEW r \in 0 .. MaxReq
  PROVE  /\ Quietly(x, Emptied(x))
         /\ \A left \in Nat : left > 0 => Quietly(x, Awaiting(x, r, left))
<1>1. <<>> \in Seq(Token)
  OBVIOUS
<1>2. Quietly(x, Emptied(x)) /\ Emptied(x) \in Slot
  BY <1>1 DEF Quietly, GoodSlot, Emptied, Slot
<1>3. ASSUME NEW left \in Nat, left > 0 PROVE Quietly(x, Awaiting(x, r, left))
  <2> DEFINE y == Emptied(x)
  <2>1. y \in Slot /\ y.conn = x.conn /\ y.sending = x.sending
    BY <1>2 DEF Quietly
  <2> HIDE DEF y
  <2>2. [y EXCEPT !.state = "recv_body", !.req = r, !.putRemain = left] \in GoodSlot
    BY <1>3, <2>1 DEF Slot, States, GoodSlot
  <2>3. Awaiting(x, r, left).conn = y.conn /\ Awaiting(x, r, left).sending = y.sending
    BY <2>1 DEF Awaiting, y, Slot
  <2>. QED
    BY <2>1, <2>2, <2>3 DEF Quietly, Awaiting, y
<1>. QED
  BY <1>2, <1>3

LEMMA ServePutKeeps ==
  ASSUME NEW s, Serving(s), NEW r \in 0 .. MaxReq, NEW need \in Nat,
         NEW buf \in Seq(Token), NEW rest \in Seq(Token), ServePut(s, r, need, buf, rest)
  PROVE  Inv' /\ Quiet /\ Gentle
<1> DEFINE left == need - Min({need, Len(buf)})
           b == Emptied(slots[s])
           x == IF left = 0 THEN Responding(b, r, FALSE) ELSE Awaiting(slots[s], r, left)
<1>1. Inv /\ s \in Slots /\ slots[s] \in GoodSlot /\ slots[s].sending = FALSE
      /\ UNCHANGED <<ref, gone, asked, owed, worker>>
  BY SlotParts DEF Serving
<1>2. left \in Nat
  BY MinOfTwo
<1>3. slots' = [slots EXCEPT ![s] = x]
  BY DEF ServePut, Emptied, Awaiting
<1>4. ring' = [ring EXCEPT ![slots[s].conn] = rest] /\ UNCHANGED <<net, inbox>>
  BY DEF ServePut
<1> HIDE DEF left
<1>5. Quietly(slots[s], b) /\ (left > 0 => Quietly(slots[s], Awaiting(slots[s], r, left)))
  BY <1>1, <1>2, AwaitingSlot
<1> HIDE DEF b
<1>6. Quietly(b, Responding(b, r, FALSE))
  BY <1>5, RespondingSlot DEF Quietly, GoodSlot
<1>7. Quietly(slots[s], x)
  <2>1. CASE left = 0
    <3>1. x = Responding(b, r, FALSE)
      BY <2>1
    <3>. QED
      BY <1>5, <1>6, <3>1 DEF Quietly
  <2>2. CASE left # 0
    <3>1. x = Awaiting(slots[s], r, left) /\ left > 0
      BY <1>2, <2>2
    <3>. QED
      BY <1>5, <3>1
  <2>. QED
    BY <2>1, <2>2
<1> HIDE DEF x
<1>8. ring' \in [Conns -> Seq(Token)]
  BY <1>1, <1>4 DEF Inv, Typed
<1>. QED
  BY <1>1, <1>3, <1>4, <1>7, <1>8, QuietServe DEF Quietly

LEMMA ServeHandlerKeeps ==
  ASSUME NEW s, Serving(s), NEW r \in 0 .. MaxReq, NEW need \in Nat,
         NEW buf \in Seq(Token), NEW rest \in Seq(Token), ServeHandler(s, r, need, buf, rest)
  PROVE  Inv' /\ Quiet /\ Gentle
<1> DEFINE left == need - Min({need, Len(buf)})
           read == Min({left, Len(rest)})
           left2 == Drop(rest, read)
           d == Consumed(need, buf, left2)
           x == Buffered(slots[s], d.rbuf, d.skip)
<1>1. Inv /\ s \in Slots /\ slots[s] \in GoodSlot /\ slots[s].sending = FALSE
      /\ UNCHANGED <<ref, gone, asked, owed, worker>>
  BY SlotParts DEF Serving
<1>2. slots' = [slots EXCEPT ![s] = x]
  BY DEF ServeHandler, Buffered
<1>3. ring' = [ring EXCEPT ![slots[s].conn] = d.ring] /\ UNCHANGED <<net, inbox>>
  BY DEF ServeHandler
<1>4. left \in Nat
  BY MinOfTwo
<1> HIDE DEF left
<1>5. read \in Nat
  BY <1>4, MinOfTwo
<1> HIDE DEF read
<1>6. left2 \in Seq(Token)
  BY <1>5, PartTyped
<1> HIDE DEF left2
<1>7. d.rbuf \in Seq(Token) /\ d.ring \in Seq(Token) /\ d.skip \in Nat
  BY <1>6, ConsumedTyped
<1> HIDE DEF d
<1>8. Quietly(slots[s], x)
  BY <1>1, <1>7, BufferedSlot
<1> HIDE DEF x
<1>9. ring' \in [Conns -> Seq(Token)]
  BY <1>1, <1>3, <1>7 DEF Inv, Typed
<1>. QED
  BY <1>1, <1>2, <1>3, <1>8, <1>9, QuietServe DEF Quietly

\* The slot of a forwarded connection.
Vacated(x) == [x EXCEPT !.conn = NoConn, !.state = "idle", !.rbuf = <<>>]

LEMMA VacatedSlot ==
  ASSUME NEW x \in GoodSlot
  PROVE  Vacated(x) \in GoodSlot /\ Vacated(x).conn = NoConn /\ Vacated(x).sending = x.sending
<1>1. <<>> \in Seq(Token)
  OBVIOUS
<1>. QED
  BY <1>1 DEF GoodSlot, Vacated, Slot, States

LEMMA ForwardKeeps ==
  ASSUME NEW s, Serving(s), NEW whole \in Seq(Token), NEW rest \in Seq(Token),
         Forward(s, whole, rest)
  PROVE  Inv' /\ Quiet /\ Gentle
<1> DEFINE c == slots[s].conn
           x == Vacated(slots[s])
           all == rest \o whole
<1>1. Inv /\ s \in Slots /\ slots[s] \in GoodSlot /\ slots[s].sending = FALSE
      /\ c \in Conns /\ net[c] = "open" /\ UNCHANGED <<ref, gone, asked, owed, worker>>
  BY SlotParts DEF Serving
<1>2. slots' = [slots EXCEPT ![s] = x]
  BY DEF Forward, Vacated
<1>3. /\ ring' = [ring EXCEPT ![c] = all] /\ UNCHANGED inbox
      /\ \E fate \in {"forwarded", "closed"} : net' = [net EXCEPT ![c] = fate]
  BY DEF Forward
<1>4. all \in Seq(Token)
  OBVIOUS
<1>5. x \in GoodSlot /\ x.conn = NoConn /\ x.sending = FALSE
  BY <1>1, VacatedSlot
<1> HIDE DEF x, all, c
<1>6. ring' \in [Conns -> Seq(Token)] /\ net \in [Conns -> {"new", "open", "closed", "forwarded"}]
  BY <1>1, <1>3, <1>4 DEF Inv, Typed
<1>7. /\ net' \in [Conns -> {"new", "open", "closed", "forwarded"}]
      /\ net'[c] # "open"
      /\ \A d \in Conns : \/ net'[d] = net[d]
                          \/ net[d] # "new" /\ net'[d] = "closed"
                          \/ net[d] = "open" /\ net'[d] = "forwarded"
  BY <1>1, <1>3, <1>6
<1>8. net'[slots[s].conn] # "open" /\ gone' \subseteq gone /\ x.conn \in {slots[s].conn, NoConn}
  BY <1>1, <1>5, <1>7 DEF c
<1>. QED
  BY <1>1, <1>2, <1>3, <1>5, <1>6, <1>7, <1>8, QuietLocal

LEMMA ParseKeeps ==
  ASSUME NEW s, Serving(s), NEW whole \in Seq(Token), NEW rest \in Seq(Token),
         Parse(s, whole, rest)
  PROVE  Inv' /\ ((Quiet /\ Gentle) \/ Queued(s))
<1> DEFINE c == slots[s].conn
<1>1. Inv /\ s \in Slots /\ slots[s] \in GoodSlot /\ slots[s].sending = FALSE
      /\ c \in Conns /\ UNCHANGED <<ref, gone, asked, owed, worker>>
  BY SlotParts DEF Serving
<1>2. CASE /\ slots' = [slots EXCEPT ![s].rbuf = whole] /\ ring' = [ring EXCEPT ![c] = rest]
           /\ UNCHANGED <<net, inbox>>
  <2> DEFINE x == Buffered(slots[s], whole, slots[s].skip)
  <2>1. Quietly(slots[s], x)
    BY <1>1, BufferedSlot DEF GoodSlot, Slot
  <2>2. [slots[s] EXCEPT !.rbuf = whole] = x
    BY <1>1 DEF Buffered, GoodSlot, Slot
  <2>3. slots' = [slots EXCEPT ![s] = x]
    BY <1>2, <2>2
  <2> HIDE DEF x
  <2>4. ring' \in [Conns -> Seq(Token)]
    BY <1>1, <1>2 DEF Inv, Typed
  <2>. QED
    BY <1>1, <1>2, <2>1, <2>3, <2>4, QuietServe DEF Quietly
<1>3. ASSUME NEW e \in DOMAIN whole,
             LET r    == whole[e].req
                 kind == IF e = 1 THEN asked[c][r] ELSE "refused"
                 need == BodyOf(asked[c][r])
                 buf  == Drop(whole, e)
             IN \/ kind = "inline"  /\ ServeHere(s, r, TRUE, need, buf, rest)
                \/ kind = "refused" /\ ServeHere(s, IF e = 1 THEN r ELSE 0, FALSE, need, buf, rest)
                \/ kind \in {"file", "unauth"} /\ ServeFile(s, r, need, buf, rest)
                \/ kind = "put"     /\ ServePut(s, r, need, buf, rest)
                \/ kind \in {"handler", "query"} /\ ServeHandler(s, r, need, buf, rest)
                \/ kind = "forward" /\ Forward(s, whole, rest)
      PROVE  Inv' /\ ((Quiet /\ Gentle) \/ Queued(s))
  <2> DEFINE r    == whole[e].req
             q    == IF e = 1 THEN r ELSE 0
             need == BodyOf(asked[c][r])
             buf  == Drop(whole, e)
  <2>1. e \in Nat /\ whole[e] \in Token
    BY <1>3
  <2>2. r \in 0 .. MaxReq /\ 0 \in 0 .. MaxReq
    BY <2>1, SlotsAssumption DEF Token
  <2>3. need \in Nat /\ buf \in Seq(Token)
    BY <2>1, BodyTyped, PartTyped
  <2>4. \/ ServeHere(s, r, TRUE, need, buf, rest)
        \/ ServeHere(s, q, FALSE, need, buf, rest)
        \/ ServeFile(s, r, need, buf, rest)
        \/ ServePut(s, r, need, buf, rest)
        \/ ServeHandler(s, r, need, buf, rest)
        \/ Forward(s, whole, rest)
    BY <1>3
  <2>5. q \in 0 .. MaxReq
    BY <2>2
  <2> HIDE DEF r, q, need, buf
  <2>6. CASE ServeHere(s, r, TRUE, need, buf, rest)
    BY <2>2, <2>3, <2>6, ServeHereKeeps
  <2>7. CASE ServeHere(s, q, FALSE, need, buf, rest)
    BY <2>3, <2>5, <2>7, ServeHereKeeps
  <2>8. CASE ServeFile(s, r, need, buf, rest)
    BY <2>2, <2>3, <2>8, ServeFileKeeps
  <2>9. CASE ServePut(s, r, need, buf, rest)
    BY <2>2, <2>3, <2>9, ServePutKeeps
  <2>10. CASE ServeHandler(s, r, need, buf, rest)
    BY <2>2, <2>3, <2>10, ServeHandlerKeeps
  <2>11. CASE Forward(s, whole, rest)
    BY <2>11, ForwardKeeps
  <2>. QED
    BY <2>4, <2>6, <2>7, <2>8, <2>9, <2>10, <2>11
<1>. QED
  BY <1>2, <1>3 DEF Parse

\* What Receive hands to Parse: the buffer with n more tokens of the ring.
LEMMA ReceiveParts ==
  ASSUME Inv, NEW s \in Slots, Receive(s)
  PROVE  LET c == slots[s].conn IN
         /\ Serving(s) /\ c \in Conns /\ ring[c] \in Seq(Token)
         /\ \E n \in 1 .. Len(ring[c]) :
              /\ slots[s].rbuf \o SubSeq(ring[c], 1, n) \in Seq(Token)
              /\ Drop(ring[c], n) \in Seq(Token)
              /\ Parse(s, slots[s].rbuf \o SubSeq(ring[c], 1, n), Drop(ring[c], n))
<1> DEFINE c == slots[s].conn
           buf == slots[s].rbuf
           space == RbufCap - Len(buf)
<1>1. Serving(s)
  BY DEF Serving, Receive, client
<1>2. c \in Conns /\ ring[c] \in Seq(Token) /\ buf \in Seq(Token)
  BY <1>1, SlotParts DEF Serving, GoodSlot, Slot
<1>3. PICK n \in 1 .. Min({Len(ring[c]), space}) :
        Parse(s, buf \o SubSeq(ring[c], 1, n), Drop(ring[c], n))
  BY DEF Receive
<1>4. n \in 1 .. Len(ring[c])
  <2> DEFINE len == Len(ring[c])
  <2>1. len \in Int /\ space \in Int
    BY <1>2, SlotsAssumption
  <2> HIDE DEF len, space
  <2>2. Min({len, space}) \in Int /\ Min({len, space}) <= len
    BY <2>1, MinOfInts
  <2>3. n \in 1 .. Min({len, space})
    BY <1>3 DEF len, space
  <2>4. n \in 1 .. len
    BY <2>1, <2>2, <2>3
  <2>. QED
    BY <2>4 DEF len
<1>5. Len(ring[c]) \in Nat
  BY <1>2
<1>6. n \in Nat /\ n <= Len(ring[c])
  BY <1>4, <1>5
<1>7. SubSeq(ring[c], 1, n) \in Seq(Token) /\ Drop(ring[c], n) \in Seq(Token)
  BY <1>2, <1>6, PartTyped
<1>8. buf \o SubSeq(ring[c], 1, n) \in Seq(Token)
  BY <1>2, <1>7
<1>. QED
  BY <1>1, <1>2, <1>3, <1>4, <1>7, <1>8

LEMMA ReceiveKeeps ==
  ASSUME Inv, NEW s \in Slots, Receive(s)
  PROVE  Inv' /\ ((Quiet /\ Gentle) \/ Queued(s))
BY ReceiveParts, ParseKeeps

-----------------------------------------------------------------------------
(* The jobs of the worker. *)

\* No two jobs, the one the worker is at included, are for one slot.
OneJob ==
  /\ \A i, j \in DOMAIN inbox : inbox[i].slot = inbox[j].slot => i = j
  /\ worker # Idle => \A i \in DOMAIN inbox : inbox[i].slot # worker.job.slot

Work == SlotKept /\ OneJob

LEMMA WorkerJob ==
  ASSUME Inv
  PROVE  /\ worker # Idle => worker \in [phase : {"head", "body", "done"}, job : Job]
         /\ worker # Idle => worker.job \in Job
         /\ worker.phase \in {"head", "body", "done"} => worker # Idle
BY DEF Inv, Typed, Idle

LEMMA JobsTyped ==
  ASSUME Inv
  PROVE  /\ \A job \in Jobs : job \in Job /\ job.slot \in Slots /\ job.conn \in Conns
         /\ \A job \in Jobs : job.conn # NoConn
<1>1. \A i \in DOMAIN inbox : inbox[i] \in Job
  BY DEF Inv, Typed
<1>2. \A job \in Jobs : job \in Job
  BY <1>1, WorkerJob DEF Jobs, ToSet
<1>. QED
  BY <1>2, SlotsAssumption DEF Job

LEMMA QuietWork ==
  ASSUME Inv, Quiet
  PROVE  /\ NoSlotStranded => NoSlotStranded'
         /\ Work /\ Gentle => Work'
<1>1. Jobs' = Jobs
  BY DEF Quiet, Jobs
<1>2. ASSUME NoSlotStranded PROVE NoSlotStranded'
  BY <1>1, <1>2 DEF NoSlotStranded, Quiet
<1>3. ASSUME Work, Gentle PROVE Work'
  <2>1. SlotKept'
    <3> SUFFICES ASSUME NEW job \in Jobs
                 PROVE  slots'[job.slot].conn = job.conn /\ slots'[job.slot].sending
      BY <1>1 DEF SlotKept
    <3>1. slots[job.slot].conn = job.conn /\ slots[job.slot].sending
      BY <1>3 DEF Work, SlotKept
    <3>. QED
      BY <1>3, <3>1, JobsTyped DEF Gentle
  <2>2. OneJob'
    BY <1>3 DEF Work, OneJob, Quiet
  <2>. QED
    BY <2>1, <2>2 DEF Work
<1>. QED
  BY <1>2, <1>3

LEMMA QueuedWork ==
  ASSUME Inv, NEW s \in Slots, Queued(s)
  PROVE  /\ NoSlotStranded => NoSlotStranded'
         /\ Work => Work'
<1>1. PICK r \in 0 .. MaxReq : inbox' = Append(inbox, [slot |-> s, conn |-> slots[s].conn, req |-> r])
  BY DEF Queued
<1> DEFINE job == [slot |-> s, conn |-> slots[s].conn, req |-> r]
<1>2. job.slot = s /\ job.conn = slots[s].conn
  OBVIOUS
<1>3. inbox \in Seq(Job) /\ job \in Job /\ worker' = worker
  BY DEF Inv, Typed, Queued, Job
<1> HIDE DEF job
<1>4. /\ Len(inbox') = Len(inbox) + 1 /\ DOMAIN inbox' = 1 .. Len(inbox')
      /\ inbox'[Len(inbox')] = job /\ DOMAIN inbox = 1 .. Len(inbox) /\ Len(inbox) \in Nat
      /\ \A i \in DOMAIN inbox : inbox'[i] = inbox[i]
  BY <1>1, <1>3 DEF job
<1>5. \A i \in DOMAIN inbox' : i \in DOMAIN inbox \/ i = Len(inbox')
  BY <1>4
<1>6. \A i \in DOMAIN inbox : i \in DOMAIN inbox'
  BY <1>4
<1>7. Len(inbox') \in DOMAIN inbox'
  BY <1>4
<1>8. ToSet(inbox') = ToSet(inbox) \cup {job}
  BY <1>4, <1>5, <1>6, <1>7 DEF ToSet
<1>9. Jobs' = Jobs \cup {job}
  BY <1>3, <1>8 DEF Jobs
<1>10. ASSUME NoSlotStranded PROVE NoSlotStranded'
  <2> SUFFICES ASSUME NEW t \in Slots, slots'[t].sending PROVE \E j \in Jobs' : j.slot = t
    BY DEF NoSlotStranded
  <2>1. CASE t = s
    BY <1>2, <1>9, <2>1
  <2>2. CASE t # s
    BY <1>9, <1>10, <2>2 DEF NoSlotStranded, Queued
  <2>. QED
    BY <2>1, <2>2
<1>11. ASSUME Work PROVE Work'
  <2>1. \A j \in Jobs : slots[j.slot].conn = j.conn /\ slots[j.slot].sending
    BY <1>11 DEF Work, SlotKept
  <2>2. \A j \in Jobs : j.slot # s
    BY <2>1 DEF Queued
  <2>3. SlotKept'
    <3> SUFFICES ASSUME NEW j \in Jobs'
                 PROVE  slots'[j.slot].conn = j.conn /\ slots'[j.slot].sending
      BY DEF SlotKept
    <3>1. CASE j = job
      BY <1>2, <3>1 DEF Queued
    <3>2. CASE j \in Jobs
      BY <2>1, <2>2, <3>2, JobsTyped DEF Queued
    <3>. QED
      BY <1>9, <3>1, <3>2
  <2>4. \A i \in DOMAIN inbox : inbox[i] \in Jobs
    BY DEF Jobs, ToSet
  <2>5. worker # Idle => worker.job \in Jobs
    BY DEF Jobs
  <2>6. \A i, j \in DOMAIN inbox' : inbox'[i].slot = inbox'[j].slot => i = j
    <3>1. \A i \in DOMAIN inbox : inbox'[i].slot # job.slot
      BY <1>2, <1>4, <2>2, <2>4
    <3>2. \A i, j \in DOMAIN inbox : inbox'[i].slot = inbox'[j].slot => i = j
      BY <1>4, <1>11 DEF Work, OneJob
    <3>. QED
      BY <1>4, <1>5, <3>1, <3>2
  <2>7. worker # Idle => \A i \in DOMAIN inbox' : inbox'[i].slot # worker.job.slot
    BY <1>2, <1>4, <1>5, <1>11, <2>2, <2>5 DEF Work, OneJob
  <2>. QED
    BY <1>3, <2>3, <2>6, <2>7 DEF Work, OneJob
<1>. QED
  BY <1>10, <1>11

\* The slot the web task leaves behind when the worker is done with it.
Freed(x) == [Reset(x.conn) EXCEPT !.state = "reading"]

LEMMA FileDoneKeeps ==
  ASSUME Inv, FileDone
  PROVE  /\ Inv'
         /\ NoSlotStranded => NoSlotStranded'
         /\ Work => Work'
<1> DEFINE s == worker.job.slot
<1>1. worker # Idle /\ worker.job \in Job /\ s \in Slots /\ worker' = Idle
  BY WorkerJob DEF FileDone, Job
<1>2. UNCHANGED <<ref, gone, ring, asked, owed, inbox>>
  BY DEF FileDone, client
<1>3. slots[s] \in GoodSlot /\ slots[s].conn \in Conns \cup {NoConn}
  BY <1>1, SlotParts
<1>4. net \in [Conns -> {"new", "open", "closed", "forwarded"}]
  BY DEF Inv, Typed
<1>5. \/ /\ slots' = [slots EXCEPT ![s] = Reset(NoConn)]
         /\ net' = [c \in Conns |-> IF c = slots[s].conn THEN "closed" ELSE net[c]]
      \/ /\ slots' = [slots EXCEPT ![s] = Freed(slots[s])] /\ net' = net
  BY DEF FileDone, Freed
<1>6. /\ Reset(NoConn) \in GoodSlot /\ Reset(NoConn).conn = NoConn /\ Reset(NoConn).sending = FALSE
      /\ Freed(slots[s]) \in GoodSlot /\ Freed(slots[s]).conn = slots[s].conn
      /\ Freed(slots[s]).sending = FALSE
  BY <1>3, ResetSlot DEF Freed
<1> HIDE DEF s
<1>7. /\ slots' \in [Slots -> GoodSlot] /\ slots'[s].sending = FALSE
      /\ \A t \in Slots : t # s => slots'[t] = slots[t]
      /\ slots'[s].conn \in {slots[s].conn, NoConn}
      /\ slots'[s].conn # slots[s].conn =>
            net' = [c \in Conns |-> IF c = slots[s].conn THEN "closed" ELSE net[c]]
  <2>1. slots \in [Slots -> GoodSlot]
    BY DEF Inv, Typed
  <2>2. CASE /\ slots' = [slots EXCEPT ![s] = Reset(NoConn)]
             /\ net' = [c \in Conns |-> IF c = slots[s].conn THEN "closed" ELSE net[c]]
    <3>1. /\ slots' \in [Slots -> GoodSlot] /\ slots'[s] = Reset(NoConn)
          /\ \A t \in Slots : t # s => slots'[t] = slots[t]
      BY <1>1, <1>6, <2>1, <2>2
    <3>. QED
      BY <1>6, <2>2, <3>1
  <2>3. CASE slots' = [slots EXCEPT ![s] = Freed(slots[s])]
    <3>1. /\ slots' \in [Slots -> GoodSlot] /\ slots'[s] = Freed(slots[s])
          /\ \A t \in Slots : t # s => slots'[t] = slots[t]
      BY <1>1, <1>6, <2>1, <2>3
    <3>. QED
      BY <1>6, <3>1
  <2>. QED
    BY <1>5, <2>2, <2>3
<1>8. /\ net' \in [Conns -> {"new", "open", "closed", "forwarded"}]
      /\ \A c \in Conns : net'[c] = net[c] \/ (net[c] # "new" /\ net'[c] = "closed")
  BY <1>1, <1>4, <1>5 DEF Inv, Layout, Fresh
<1>9. Typed'
  BY <1>1, <1>2, <1>7, <1>8 DEF Inv, Typed
<1>10. Layout'
  <2>1. \A t \in Slots : slots'[t].conn \in {slots[t].conn, NoConn}
    BY <1>7
  <2>2. \A t \in Slots : slots'[t].conn # slots[t].conn => net'[slots[t].conn] # "open"
    BY <1>3, <1>7, SlotsAssumption
  <2>. QED
    BY <1>2, <1>7, <1>8, <2>1, <2>2, LayoutShrinks
<1>11. Jobs' = ToSet(inbox) /\ Jobs = ToSet(inbox) \cup {worker.job}
  BY <1>1, <1>2 DEF Jobs
<1>12. ASSUME NoSlotStranded PROVE NoSlotStranded'
  <2> SUFFICES ASSUME NEW t \in Slots, slots'[t].sending PROVE \E j \in Jobs' : j.slot = t
    BY DEF NoSlotStranded
  <2>1. t # s /\ slots[t].sending
    BY <1>7
  <2>2. PICK j \in Jobs : j.slot = t
    BY <1>12, <2>1 DEF NoSlotStranded
  <2>. QED
    BY <1>11, <2>1, <2>2 DEF s
<1>13. ASSUME Work PROVE Work'
  <2>1. \A j \in ToSet(inbox) : j.slot # s
    BY <1>1, <1>13 DEF Work, OneJob, ToSet, s
  <2>2. SlotKept'
    <3> SUFFICES ASSUME NEW j \in ToSet(inbox)
                 PROVE  slots'[j.slot].conn = j.conn /\ slots'[j.slot].sending
      BY <1>11 DEF SlotKept
    <3>1. j \in Jobs /\ j.slot \in Slots /\ j.slot # s
      BY <1>11, <2>1, JobsTyped
    <3>. QED
      BY <1>7, <1>13, <3>1 DEF Work, SlotKept
  <2>3. OneJob'
    BY <1>1, <1>2, <1>13 DEF Work, OneJob
  <2>. QED
    BY <2>2, <2>3 DEF Work
<1>. QED
  BY <1>9, <1>10, <1>12, <1>13 DEF Inv

LEMMA TakeKeeps ==
  ASSUME Inv, WorkerTake
  PROVE  /\ Inv'
         /\ NoSlotStranded => NoSlotStranded'
         /\ Work => Work'
<1>1. /\ worker = Idle /\ inbox # <<>> /\ inbox \in Seq(Job) /\ Len(inbox) <= InboxDepth
      /\ worker' = [phase |-> "head", job |-> Head(inbox)] /\ inbox' = Tail(inbox)
      /\ UNCHANGED <<net, ref, gone, ring, asked, owed, slots>>
  BY DEF WorkerTake, conns, client, Inv, Typed
<1>2. /\ Len(inbox) \in Nat \ {0} /\ Head(inbox) = inbox[1] /\ DOMAIN inbox = 1 .. Len(inbox)
      /\ Head(inbox) \in Job /\ inbox' \in Seq(Job) /\ Len(inbox') = Len(inbox) - 1
      /\ DOMAIN inbox' = 1 .. Len(inbox')
      /\ \A i \in DOMAIN inbox' : inbox'[i] = inbox[i + 1]
  BY <1>1
<1>3. worker'.job = inbox[1] /\ worker' # Idle
      /\ worker' \in [phase : {"head", "body", "done"}, job : Job]
  BY <1>1, <1>2 DEF Idle
<1>4. Typed'
  <2>1. Len(inbox') <= InboxDepth
    BY <1>1, <1>2, SlotsAssumption
  <2>. QED
    BY <1>1, <1>2, <1>3, <2>1 DEF Inv, Typed
<1>5. Layout'
  BY <1>1 DEF Inv, Layout, Placed, Opened, Fresh, Leaving
<1>6. /\ \A i \in DOMAIN inbox' : i + 1 \in DOMAIN inbox /\ i + 1 # 1
      /\ \A i \in DOMAIN inbox : i = 1 \/ i - 1 \in DOMAIN inbox'
      /\ \A i \in DOMAIN inbox : i # 1 => inbox'[i - 1] = inbox[i]
      /\ 1 \in DOMAIN inbox
  BY <1>2
<1>7. ToSet(inbox) = ToSet(inbox') \cup {inbox[1]}
  <2>1. ToSet(inbox) \subseteq ToSet(inbox') \cup {inbox[1]}
    BY <1>6 DEF ToSet
  <2>2. ToSet(inbox') \cup {inbox[1]} \subseteq ToSet(inbox)
    BY <1>2, <1>6 DEF ToSet
  <2>. QED
    BY <2>1, <2>2
<1>8. Jobs' = Jobs
  BY <1>1, <1>3, <1>7 DEF Jobs
<1>9. OneJob => OneJob'
  <2> SUFFICES ASSUME OneJob PROVE OneJob'
    OBVIOUS
  <2>1. \A i, j \in DOMAIN inbox' : inbox'[i].slot = inbox'[j].slot => i = j
    <3> SUFFICES ASSUME NEW i \in DOMAIN inbox', NEW j \in DOMAIN inbox',
                        inbox'[i].slot = inbox'[j].slot
                 PROVE  i = j
      OBVIOUS
    <3>1. i + 1 = j + 1
      BY <1>2, <1>6 DEF OneJob
    <3>. QED
      BY <1>2, <3>1
  <2>2. \A i \in DOMAIN inbox' : inbox'[i].slot # worker'.job.slot
    BY <1>2, <1>3, <1>6 DEF OneJob
  <2>. QED
    BY <2>1, <2>2 DEF OneJob
<1>. QED
  BY <1>1, <1>4, <1>5, <1>8, <1>9 DEF Inv, NoSlotStranded, Work, SlotKept

LEMMA WritesKeep ==
  ASSUME Inv, WorkerHead(TRUE) \/ WorkerHead(FALSE) \/ WorkerBody \/ WorkerCut
  PROVE  /\ Inv'
         /\ NoSlotStranded => NoSlotStranded'
         /\ Work => Work'
<1>1. worker.phase \in {"head", "body"} /\ UNCHANGED <<ref, gone, ring, asked, owed, slots, inbox>>
  BY DEF WorkerHead, WorkerBody, WorkerCut, conns, client
<1>2. worker # Idle /\ worker \in [phase : {"head", "body", "done"}, job : Job]
  BY <1>1, WorkerJob
<1>3. \E p \in {"body", "done"} : worker' = [worker EXCEPT !.phase = p]
  BY DEF WorkerHead, WorkerBody, WorkerCut
<1>4. /\ worker' \in [phase : {"head", "body", "done"}, job : Job] /\ worker'.job = worker.job
      /\ worker' # Idle
  BY <1>2, <1>3 DEF Idle
<1>5. net' = net \/ net' = [net EXCEPT ![worker.job.conn] = "closed"]
  BY DEF WorkerHead, WorkerBody, WorkerCut, conns
<1>6. net \in [Conns -> {"new", "open", "closed", "forwarded"}]
  BY DEF Inv, Typed
<1>7. /\ net' \in [Conns -> {"new", "open", "closed", "forwarded"}]
      /\ \A c \in Conns : net'[c] = net[c] \/ net'[c] = "closed"
  BY <1>5, <1>6
<1>8. Typed'
  BY <1>1, <1>4, <1>7 DEF Inv, Typed
<1>9. Layout'
  BY <1>1, <1>7 DEF Inv, Typed, Layout, Placed, Opened, Fresh, Leaving
<1>10. Jobs' = Jobs
  BY <1>1, <1>2, <1>4 DEF Jobs
<1>11. OneJob => OneJob'
  BY <1>1, <1>2, <1>4 DEF OneJob
<1>. QED
  BY <1>1, <1>8, <1>9, <1>10, <1>11 DEF Inv, NoSlotStranded, Work, SlotKept

-----------------------------------------------------------------------------
(* The invariant. *)

LEMMA InitInv == Init => Inv /\ NoSlotStranded /\ Work
<1> SUFFICES ASSUME Init PROVE Inv /\ NoSlotStranded /\ Work
  OBVIOUS
<1>1. Reset(NoConn) \in GoodSlot /\ Reset(NoConn).conn = NoConn /\ Reset(NoConn).sending = FALSE
  BY ResetSlot
<1>2. slots \in [Slots -> GoodSlot] /\ \A s \in Slots : slots[s] = Reset(NoConn)
  BY <1>1 DEF Init
<1>3. inbox = <<>> /\ inbox \in Seq(Job) /\ Len(inbox) = 0 /\ DOMAIN inbox = {}
  BY DEF Init
<1>4. asked = [c \in Conns |-> <<>>] /\ asked \in [Conns -> Seq(Kinds)]
      /\ \A c \in Conns : Len(asked[c]) = 0
  BY DEF Init
<1>5. owed \in [Conns -> 0 .. BodyLen] /\ \A c \in Conns : owed[c] = 0
  BY SlotsAssumption DEF Init
<1>6. ring \in [Conns -> Seq(Token)]
  BY DEF Init
<1>7. Typed
  BY <1>2, <1>3, <1>4, <1>5, <1>6, SlotsAssumption DEF Init, Typed
<1>8. Layout
  BY <1>1, <1>2, SlotsAssumption DEF Init, Layout, Placed, Opened, Fresh, Leaving
<1>9. Jobs = {}
  BY <1>3 DEF Init, Jobs, ToSet
<1>. QED
  BY <1>1, <1>2, <1>3, <1>7, <1>8, <1>9 DEF Init, Inv, NoSlotStranded, Work, SlotKept, OneJob

LEMMA NextKeeps ==
  ASSUME Inv, [Next]_vars
  PROVE  /\ Inv'
         /\ NoSlotStranded => NoSlotStranded'
         /\ Crowd # "any" /\ Work => Work'
<1>1. CASE ClientStep
  BY <1>1, ClientStepKeeps, QuietWork
<1>2. ASSUME NEW c \in Conns, Connect(c)
      PROVE  Inv' /\ (NoSlotStranded => NoSlotStranded') /\ (Work => Work')
  BY <1>2, ConnectKeeps, QuietWork
<1>3. ASSUME NEW c \in Conns, ConnectBusy(c)
      PROVE  Inv' /\ (NoSlotStranded => NoSlotStranded') /\ (Crowd # "any" /\ Work => Work')
  BY <1>3, ConnectBusyKeeps, QuietWork
<1>4. ASSUME NEW c \in Conns, OnDisconnect(c)
      PROVE  Inv' /\ (NoSlotStranded => NoSlotStranded') /\ (Work => Work')
  BY <1>4, DisconnectKeeps, QuietWork
<1>5. ASSUME NEW s \in Slots,
             SweepGone(s) \/ Expire(s) \/ SkipBody(s) \/ RecvBody(s) \/ SendHdr(s) \/ SendBody(s)
      PROVE  Inv' /\ (NoSlotStranded => NoSlotStranded') /\ (Work => Work')
  BY <1>5, SweepKeeps, QuietWork
<1>6. ASSUME NEW s \in Slots, Receive(s)
      PROVE  Inv' /\ (NoSlotStranded => NoSlotStranded') /\ (Work => Work')
  BY <1>6, ReceiveKeeps, QuietWork, QueuedWork
<1>7. CASE FileDone
  BY <1>7, FileDoneKeeps
<1>8. CASE WifiDown
  BY <1>8, WifiDownKeeps, QuietWork
<1>9. CASE WorkerTake
  BY <1>9, TakeKeeps
<1>10. CASE WorkerHead(TRUE) \/ WorkerHead(FALSE) \/ WorkerBody \/ WorkerCut
  BY <1>10, WritesKeep
<1>11. CASE UNCHANGED vars
  <2>1. UNCHANGED <<net, ref, gone, ring, asked, owed, slots, inbox, worker>>
    BY <1>11 DEF vars
  <2>. QED
    BY <2>1 DEF Inv, Typed, Layout, Placed, Opened, Fresh, Leaving,
                NoSlotStranded, Work, SlotKept, OneJob, Jobs
<1>. QED
  BY <1>1, <1>2, <1>3, <1>4, <1>5, <1>6, <1>7, <1>8, <1>9, <1>10, <1>11
  DEF Next, WebStep, WorkerStep

-----------------------------------------------------------------------------
(* Theorems. *)

LEMMA OneSlot ==
  ASSUME Inv
  PROVE  OneSlotEach
<1> SUFFICES ASSUME NEW c \in OpenConns
             PROVE  Cardinality({s \in Slots : slots[s].conn = c}) = 1
  BY DEF OneSlotEach
<1>1. c \in Conns /\ c # NoConn /\ ref[c] \in Slots /\ slots[ref[c]].conn = c
  BY SlotsAssumption DEF OpenConns, Inv, Layout, Opened
<1>2. \A s \in Slots : slots[s].conn = c => s = ref[c]
  BY <1>1 DEF Inv, Layout, Placed
<1>3. {s \in Slots : slots[s].conn = c} = {ref[c]}
  BY <1>1, <1>2
<1>. QED
  BY <1>3, FS_Singleton

\* Every open connection sits in exactly one slot (webAllocSlot, webItsBusy,
\* webItsDisconnect), however connections come, go and take slots from each other.
THEOREM OneSlotEachAlways == Spec => []OneSlotEach
<1>1. Init => Inv
  BY InitInv
<1>2. Inv /\ [Next]_vars => Inv'
  BY NextKeeps
<1>3. Inv => OneSlotEach
  BY OneSlot
<1>. QED
  BY <1>1, <1>2, <1>3, PTL DEF Spec

\* Every slot the sweep leaves to the file worker has a job whose done message will
\* free it (webOnFileDone), also when a slot is taken away while the worker uses it.
THEOREM NeverStranded == Spec => []NoSlotStranded
<1>1. Init => Inv /\ NoSlotStranded
  BY InitInv
<1>2. Inv /\ NoSlotStranded /\ [Next]_vars => (Inv /\ NoSlotStranded)'
  BY NextKeeps
<1>. QED
  BY <1>1, <1>2, PTL DEF Spec

\* A slot a job refers to stays with the connection of the job until the done message
\* was handled: the worker never writes into, and the done message never resets, the
\* slot of another connection.  The assumption is that no new connection takes the
\* slot the worker uses (webItsBusy does not look at fileSending).
THEOREM SlotKeptAlways == ASSUME Crowd # "any" PROVE Spec => []SlotKept
<1>1. Init => Inv /\ Work
  BY InitInv
<1>2. Inv /\ Work /\ [Next]_vars => (Inv /\ Work)'
  BY NextKeeps
<1>3. Work => SlotKept
  BY DEF Work
<1>. QED
  BY <1>1, <1>2, <1>3, PTL DEF Spec
====
