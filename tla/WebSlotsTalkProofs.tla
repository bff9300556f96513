-------------------------- MODULE WebSlotsTalkProofs --------------------------
(***************************************************************************)
(* What WebSlots promises to a client, proved for every number of          *)
(* connections, slots, requests and body tokens.                           *)
(*                                                                         *)
(* The invariant is Conv: the pairing of slots and connections (Inv and    *)
(* Work of WebSlotsProofs), the typing of the responses, and Converse,     *)
(* which says for every open connection where its conversation stands.     *)
(*   - While the web task has the slot the connection is Quieted (all is   *)
(*     answered), Asking (its last request is in the ring) or Answering,   *)
(*     and the body tokens in the ring and those the client still owes are *)
(*     together what the slot means to skip or to receive.                 *)
(*   - While the worker has it, the ring is empty and the worker's phase   *)
(*     says how much of the response is out: Pending, Streaming, Done.     *)
(*   - What was written is whole responses, the last one perhaps open, and *)
(*     its last piece says how many requests have their answer.            *)
(*                                                                         *)
(* Framed names what the last three theorems assume.  A client waits for   *)
(* the response before it asks again; a new connection does not take the   *)
(* slot the worker uses (SlotKept fails otherwise); and two kinds of       *)
(* requests are left out because the code loses the framing on them:       *)
(* "handler" (consumeRequest waits for a body its handler has read) and    *)
(* "unauth" (webOnFileDone resets the slot, and with it what is still to   *)
(* be skipped of a body that is late).                                     *)
(***************************************************************************)
EXTENDS WebSlotsProofs

-----------------------------------------------------------------------------
(* Typing: what Typed leaves out. *)

Aged     == age \in Seq(Slots) /\ Len(age) = NSlots /\ \A s \in Slots : \E i \in 1 .. NSlots : age[i] = s
OutTyped == out \in [Conns -> Seq(Piece)]
Flags    == garbled \in BOOLEAN /\ swallowed \in BOOLEAN

\* A slot that is touched moves to the end: none is lost, none is there twice.
LEMMA TouchKeeps ==
  ASSUME Aged, NEW s \in Slots, age' = Touch(s)
  PROVE  Aged'
<1> DEFINE k    == CHOOSE i \in DOMAIN age : age[i] = s
           rest == RemoveAt(age, k)
<1>1. age \in Seq(Slots) /\ Len(age) = NSlots /\ NSlots \in Nat \ {0} /\ DOMAIN age = 1 .. NSlots
  BY SlotsAssumption DEF Aged
<1>2. k \in 1 .. NSlots /\ age[k] = s
  BY <1>1 DEF Aged
<1> HIDE DEF k
<1> DEFINE pre  == SubSeq(age, 1, k - 1)
           post == SubSeq(age, k + 1, Len(age))
<1>3. /\ pre \in Seq(Slots) /\ Len(pre) = k - 1
      /\ \A i \in 1 .. k - 1 : pre[i] = age[i]
  BY <1>1, <1>2, SubSeqProperties
<1>4. /\ post \in Seq(Slots) /\ Len(post) = NSlots - k
      /\ \A i \in 1 .. NSlots - k : post[i] = age[k + i]
  BY <1>1, <1>2, SubSeqProperties
<1>5. rest = pre \o post
  BY DEF RemoveAt
<1> HIDE DEF pre, post, rest
<1>6. /\ rest \in Seq(Slots) /\ Len(rest) = NSlots - 1
      /\ \A i \in 1 .. k - 1 : rest[i] = age[i]
      /\ \A i \in k .. NSlots - 1 : rest[i] = age[i + 1]
  <2>1. rest \in Seq(Slots) /\ Len(rest) = NSlots - 1
    BY <1>1, <1>2, <1>3, <1>4, <1>5, SMTT(30)
  <2>2. ASSUME NEW i \in 1 .. k - 1 PROVE rest[i] = age[i]
    BY <1>1, <1>2, <1>3, <1>4, <1>5, <2>2
  <2>3. ASSUME NEW i \in k .. NSlots - 1 PROVE rest[i] = age[i + 1]
    <3>1. i - Len(pre) \in 1 .. NSlots - k /\ k + (i - Len(pre)) = i + 1
      BY <1>1, <1>2, <1>3, <2>3
    <3>2. rest[i] = post[i - Len(pre)]
      BY <1>1, <1>2, <1>3, <1>4, <1>5, <2>3
    <3>3. post[i - Len(pre)] = age[k + (i - Len(pre))]
      BY <1>4, <3>1
    <3>. QED
      BY <3>1, <3>2, <3>3
  <2>. QED
    BY <2>1, <2>2, <2>3
<1>7. /\ age' \in Seq(Slots) /\ Len(age') = NSlots /\ age'[NSlots] = s
      /\ \A i \in 1 .. NSlots - 1 : age'[i] = rest[i]
  <2>1. age' = Append(rest, s)
    BY DEF Touch, rest, k
  <2>. QED
    BY <1>1, <1>6, <2>1
<1>8. ASSUME NEW t \in Slots PROVE \E i \in 1 .. NSlots : age'[i] = t
  <2>1. PICK i \in 1 .. NSlots : age[i] = t
    BY DEF Aged
  <2>2. CASE i < k
    BY <1>2, <1>6, <1>7, <2>1, <2>2
  <2>3. CASE i = k
    <3>1. t = s /\ NSlots \in 1 .. NSlots
      BY <1>1, <1>2, <2>1, <2>3
    <3>. QED
      BY <1>7, <3>1
  <2>4. CASE i > k
    <3>1. i - 1 \in k .. NSlots - 1 /\ (i - 1) + 1 = i
      BY <1>1, <1>2, <2>1, <2>4
    <3>2. age'[i - 1] = age[i]
      BY <1>1, <1>2, <1>6, <1>7, <3>1
    <3>. QED
      BY <1>1, <1>2, <2>1, <3>1, <3>2
  <2>. QED
    BY <1>2, <2>1, <2>2, <2>3, <2>4
<1>. QED
  BY <1>7, <1>8 DEF Aged

LEMMA AgedKeeps ==
  ASSUME Inv, Aged, [Next]_vars
  PROVE  Aged'
<1>1. CASE UNCHANGED age
  BY <1>1 DEF Aged
<1>2. CASE \E s \in Slots : age' = Touch(s)
  BY <1>2, TouchKeeps
<1>3. ASSUME ClientStep PROVE UNCHANGED age
  BY <1>3 DEF ClientStep, SendHead, SendBodyToken, HangUp
<1>4. ASSUME NEW c \in Conns, Connect(c) \/ ConnectBusy(c) \/ OnDisconnect(c)
      PROVE  UNCHANGED age \/ \E s \in Slots : age' = Touch(s)
  BY <1>4 DEF Connect, ConnectBusy, OnDisconnect
<1>5. ASSUME NEW s \in Slots, SweepGone(s) \/ Expire(s) \/ SkipBody(s) \/ Receive(s)
                              \/ RecvBody(s) \/ SendHdr(s) \/ SendBody(s)
      PROVE  UNCHANGED age \/ \E t \in Slots : age' = Touch(t)
  BY <1>5 DEF SweepGone, Expire, SkipBody, Receive, RecvBody, SendHdr, SendBody
<1>6. ASSUME FileDone PROVE UNCHANGED age \/ \E s \in Slots : age' = Touch(s)
  <2>1. worker.job.slot \in Slots
    BY <1>6, WorkerJob DEF FileDone, Job
  <2>. QED
    BY <1>6, <2>1 DEF FileDone
<1>7. ASSUME WifiDown \/ WorkerStep \/ UNCHANGED vars PROVE UNCHANGED age
  BY <1>7 DEF WifiDown, WorkerStep, WorkerTake, WorkerHead, WorkerBody, WorkerCut, vars
<1>. QED
  BY <1>1, <1>2, <1>3, <1>4, <1>5, <1>6, <1>7 DEF Next, WebStep

\* A response piece of a request is added to a connection.
LEMMA PieceAdded ==
  ASSUME OutTyped, NEW c \in Conns, NEW p \in Piece,
         out' = [out EXCEPT ![c] = Append(@, p)]
  PROVE  OutTyped'
<1>1. Append(out[c], p) \in Seq(Piece)
  BY DEF OutTyped
<1>. QED
  BY <1>1 DEF OutTyped

LEMMA OutKeeps ==
  ASSUME Inv, OutTyped, [Next]_vars
  PROVE  OutTyped'
<1>1. CASE UNCHANGED out
  BY <1>1 DEF OutTyped
<1>2. ASSUME ClientStep \/ FileDone \/ WifiDown \/ WorkerTake \/ WorkerCut \/ UNCHANGED vars
      PROVE  UNCHANGED out
  BY <1>2 DEF ClientStep, SendHead, SendBodyToken, HangUp, FileDone, WifiDown,
              WorkerTake, WorkerCut, vars
<1>3. ASSUME NEW c \in Conns, Connect(c) \/ ConnectBusy(c) \/ OnDisconnect(c)
      PROVE  UNCHANGED out
  BY <1>3 DEF Connect, ConnectBusy, OnDisconnect
<1>4. ASSUME NEW s \in Slots, SweepGone(s) \/ Expire(s) \/ SkipBody(s) \/ RecvBody(s)
      PROVE  UNCHANGED out
  BY <1>4 DEF SweepGone, Expire, SkipBody, RecvBody
<1>5. ASSUME NEW s \in Slots, SendHdr(s) \/ SendBody(s) PROVE OutTyped'
  <2>1. slots[s].conn \in Conns /\ slots[s].req \in 0 .. MaxReq /\ slots[s].gen \in BOOLEAN
    BY <1>5, SlotParts DEF SendHdr, SendBody, GoodSlot, Slot
  <2>2. /\ [req |-> slots[s].req, part |-> "head", more |-> slots[s].gen] \in Piece
        /\ [req |-> slots[s].req, part |-> "body", more |-> FALSE] \in Piece
    BY <2>1 DEF Piece
  <2>3. CASE SendHdr(s)
    BY <2>1, <2>2, <2>3, PieceAdded DEF SendHdr
  <2>4. CASE SendBody(s)
    BY <2>1, <2>2, <2>4, PieceAdded DEF SendBody
  <2>. QED
    BY <1>5, <2>3, <2>4
<1>6. ASSUME NEW s \in Slots, Receive(s) PROVE OutTyped'
  <2> DEFINE c == slots[s].conn
  <2>1. PICK n \in 1 .. Len(ring[c]) :
          /\ slots[s].rbuf \o SubSeq(ring[c], 1, n) \in Seq(Token)
          /\ Parse(s, slots[s].rbuf \o SubSeq(ring[c], 1, n), Drop(ring[c], n))
    BY <1>6, ReceiveParts
  <2>2. c \in Conns
    BY <1>6, ReceiveParts
  <2> DEFINE whole == slots[s].rbuf \o SubSeq(ring[c], 1, n)
             rest  == Drop(ring[c], n)
  <2>3. whole \in Seq(Token) /\ Parse(s, whole, rest)
    BY <2>1
  <2> HIDE DEF whole, rest
  <2>4. ASSUME NEW e \in DOMAIN whole,
               ServeHandler(s, whole[e].req, BodyOf(asked[c][whole[e].req]), Drop(whole, e), rest)
        PROVE  OutTyped'
    <3>1. whole[e] \in Token
      BY <2>3
    <3>2. whole[e].req \in 0 .. MaxReq
      BY <3>1, SlotsAssumption DEF Token
    <3>3. [req |-> whole[e].req, part |-> "head", more |-> FALSE] \in Piece
      BY <3>2 DEF Piece
    <3>. QED
      BY <2>2, <2>4, <3>3, PieceAdded DEF ServeHandler
  <2>5. UNCHANGED out \/ \E e \in DOMAIN whole :
          ServeHandler(s, whole[e].req, BodyOf(asked[c][whole[e].req]), Drop(whole, e), rest)
    BY <2>3 DEF Parse, ServeHere, ServeFile, ServePut, Forward
  <2>. QED
    BY <1>1, <2>4, <2>5
<1>7. ASSUME WorkerHead(TRUE) \/ WorkerHead(FALSE) \/ WorkerBody PROVE OutTyped'
  <2>1. worker.job \in Job
    BY <1>7, WorkerJob DEF WorkerHead, WorkerBody
  <2>2. worker.job.conn \in Conns /\ worker.job.req \in 0 .. MaxReq
    BY <2>1 DEF Job
  <2>3. /\ [req |-> worker.job.req, part |-> "head", more |-> TRUE] \in Piece
        /\ [req |-> worker.job.req, part |-> "head", more |-> FALSE] \in Piece
        /\ [req |-> worker.job.req, part |-> "body", more |-> FALSE] \in Piece
    BY <2>2 DEF Piece
  <2>. QED
    BY <1>7, <2>2, <2>3, PieceAdded DEF WorkerHead, WorkerBody
<1>. QED
  BY <1>1, <1>2, <1>3, <1>4, <1>5, <1>6, <1>7 DEF Next, WebStep, WorkerStep
\* The last piece of a response: whether it ends one, and of which request it is.
Settled(w)  == w = <<>> \/ Complete(w[Len(w)])
LastReq(w)  == IF w = <<>> THEN 0 ELSE w[Len(w)].req
Whole(w, r) == Settled(w) /\ LastReq(w) = r

\* All of q is body, but for the head of request r at position k, if k # 0.
AllBody(q)      == \A i \in DOMAIN q : q[i].part = "body"
HeadAt(q, k, r) == /\ k \in DOMAIN q /\ q[k].part = "head" /\ q[k].req = r
                   /\ \A i \in DOMAIN q : i # k => q[i].part = "body"

\* The stages of a connection with slot x, ring q, requests ks, o tokens owed and
\* responses w.  All is answered, and what still comes will be skipped;
Quieted(x, q, ks, o, w) ==
    /\ x.state = "reading" /\ AllBody(q) /\ x.skip = Len(q) + o
    /\ Whole(w, Len(ks))
\* the last request is in the ring, behind what is skipped;
Asking(x, q, ks, o, w) ==
    /\ x.state = "reading" /\ HeadAt(q, x.skip + 1, Len(ks)) /\ Len(ks) > 0
    /\ Len(q) + o = x.skip + 1 + BodyOf(ks[Len(ks)])
    /\ Whole(w, Len(ks) - 1)
\* the web task is at the last request.
Answering(x, q, ks, o, w) ==
    /\ AllBody(q) /\ Len(ks) > 0 /\ x.req = Len(ks)
    /\ \/ /\ x.state = "recv_body" /\ x.putRemain = Len(q) + o /\ x.skip = 0
          /\ Whole(w, Len(ks) - 1)
       \/ /\ x.state = "send_hdr" /\ x.skip = Len(q) + o
          /\ Whole(w, Len(ks) - 1)
       \/ /\ x.state = "send_body" /\ x.skip = Len(q) + o
          /\ ~Settled(w) /\ LastReq(w) = Len(ks)

\* What the web task and the client know of one another.
Talk(x, q, ks, o, w) ==
    /\ x.rbuf = <<>>
    /\ IF x.sending THEN x.skip = 0 /\ x.state = "reading"
       ELSE Quieted(x, q, ks, o, w) \/ Asking(x, q, ks, o, w) \/ Answering(x, q, ks, o, w)
Talking == \A c \in OpenConns : Talk(slots[ref[c]], ring[c], asked[c], owed[c], out[c])

\* Request r is with the worker, which has written nothing of its response, or
\* its head.
Pending(c, r)   == /\ ring[c] = <<>> /\ owed[c] = 0 /\ Len(asked[c]) > 0 /\ Len(asked[c]) = r
                   /\ Whole(out[c], r - 1)
Streaming(c, r) == /\ ring[c] = <<>> /\ owed[c] = 0 /\ Len(asked[c]) > 0 /\ Len(asked[c]) = r
                   /\ ~Settled(out[c]) /\ LastReq(out[c]) = r
Done(c) == LET x == slots[ref[c]] IN
    Quieted(x, ring[c], asked[c], owed[c], out[c]) \/ Asking(x, ring[c], asked[c], owed[c], out[c])

Waiting == \A i \in DOMAIN inbox :
    net[inbox[i].conn] = "open" => Pending(inbox[i].conn, inbox[i].req)
Working == worker # Idle /\ net[worker.job.conn] = "open" =>
    CASE worker.phase = "head" -> Pending(worker.job.conn, worker.job.req)
      [] worker.phase = "body" -> Streaming(worker.job.conn, worker.job.req)
      [] worker.phase = "done" -> Done(worker.job.conn)

\* Responses are whole, and the last one says how many there are.
WholeOut(w) == \A i \in DOMAIN w :
    LET p == w[i] IN
        /\ p.part = "body" => /\ i > 1 /\ ~Complete(w[i - 1])
                              /\ w[i - 1].req = p.req
        /\ p.part = "head" /\ i = 1 => p.req = 1
        /\ p.part = "head" /\ i > 1 => /\ Complete(w[i - 1])
                                       /\ w[i - 1].req + 1 = p.req
Counted(w) == Cardinality({i \in DOMAIN w : Complete(w[i])})
              = IF Settled(w) THEN LastReq(w) ELSE LastReq(w) - 1
Answers == \A c \in Conns : WholeOut(out[c]) /\ Counted(out[c])
-----------------------------------------------------------------------------
(* The responses written to a connection. *)

LEMMA PieceWritten ==
  ASSUME NEW w \in Seq(Piece), WholeOut(w), Counted(w), NEW p \in Piece,
         \/ p.part = "head" /\ Settled(w) /\ p.req = LastReq(w) + 1
         \/ p.part = "body" /\ ~Settled(w) /\ p.req = LastReq(w)
  PROVE  LET v == Append(w, p)
         IN  WholeOut(v) /\ Counted(v) /\ LastReq(v) = p.req /\ (Settled(v) <=> Complete(p))
<1> DEFINE v == Append(w, p)
           n == Len(w)
           W == {i \in DOMAIN w : Complete(w[i])}
           V == {i \in DOMAIN v : Complete(v[i])}
<1>1. /\ n \in Nat /\ Len(v) = n + 1 /\ v[n + 1] = p /\ DOMAIN w = 1 .. n /\ DOMAIN v = 1 .. n + 1
      /\ \A i \in 1 .. n : v[i] = w[i] /\ w[i] \in Piece
  OBVIOUS
<1>2. v # <<>> /\ v[Len(v)] = p
  OBVIOUS
<1> HIDE DEF n, v
<1>3. LastReq(v) = p.req /\ (Settled(v) <=> Complete(p))
  BY <1>2 DEF LastReq, Settled
<1>4. (w = <<>> <=> n = 0) /\ (n # 0 => n \in 1 .. n)
  BY <1>1 DEF n
<1>5. WholeOut(v)
  <2> SUFFICES ASSUME NEW i \in 1 .. n + 1
               PROVE  /\ v[i].part = "body" => /\ i > 1 /\ ~Complete(v[i - 1])
                                               /\ v[i - 1].req = v[i].req
                      /\ v[i].part = "head" /\ i = 1 => v[i].req = 1
                      /\ v[i].part = "head" /\ i > 1 => /\ Complete(v[i - 1])
                                                        /\ v[i - 1].req + 1 = v[i].req
    BY <1>1 DEF WholeOut
  <2>1. CASE i \in 1 .. n
    <3>1. v[i] = w[i] /\ (i > 1 => v[i - 1] = w[i - 1])
      BY <1>1, <2>1
    <3>. QED
      BY <1>1, <2>1, <3>1 DEF WholeOut
  <2>2. CASE i = n + 1 /\ n = 0
    BY <1>1, <1>4, <2>2 DEF Settled, LastReq
  <2>3. CASE i = n + 1 /\ n # 0
    <3>1. v[i] = p /\ v[i - 1] = w[n] /\ i > 1
      BY <1>1, <1>4, <2>3
    <3>2. LastReq(w) = w[n].req /\ (Settled(w) <=> Complete(w[n]))
      BY <1>4, <2>3 DEF LastReq, Settled, n
    <3>. QED
      BY <1>1, <2>3, <3>1, <3>2
  <2>. QED
    BY <1>1, <2>1, <2>2, <2>3
<1>6. IsFiniteSet(W) /\ n + 1 \notin W /\ Cardinality(W) \in Nat
  <2>1. IsFiniteSet(1 .. n)
    <3>1. 1 \in Int /\ n \in Int
      BY <1>1
    <3>. QED
      BY <3>1, FS_Interval
  <2>2. W \subseteq 1 .. n
    BY <1>1
  <2>3. IsFiniteSet(W)
    BY <2>1, <2>2, FS_Subset
  <2>4. Cardinality(W) \in Nat
    BY <2>3, FS_CardinalityType
  <2>. QED
    BY <1>1, <2>2, <2>3, <2>4
<1>7. LastReq(w) \in Nat /\ p.req \in Nat /\ p.part \in {"head", "body"} /\ p.more \in BOOLEAN
  <2>1. CASE n = 0
    BY <1>4, <2>1, SlotsAssumption DEF LastReq, Piece
  <2>2. CASE n # 0
    <3>1. w[n] \in Piece /\ LastReq(w) = w[n].req
      BY <1>1, <1>4, <2>2 DEF LastReq, n
    <3>. QED
      BY <3>1, SlotsAssumption DEF Piece
  <2>. QED
    BY <2>1, <2>2
<1>8. /\ Counted(w) <=> (Cardinality(W) = IF Settled(w) THEN LastReq(w) ELSE LastReq(w) - 1)
      /\ Counted(v) <=> (Cardinality(V) = IF Settled(v) THEN LastReq(v) ELSE LastReq(v) - 1)
  BY DEF Counted
<1>9. CASE Complete(p)
  <2>1. V = W \cup {n + 1}
    BY <1>1, <1>9
  <2>2. Cardinality(V) = Cardinality(W) + 1
    BY <1>6, <2>1, FS_AddElement
  <2>3. Counted(v)
    BY <1>3, <1>6, <1>7, <1>8, <1>9, <2>2
  <2>. QED
    BY <1>3, <1>5, <2>3 DEF v
<1>10. CASE ~Complete(p)
  <2>1. V = W
    BY <1>1, <1>10
  <2>2. p.part = "head" /\ Settled(w) /\ p.req = LastReq(w) + 1
    BY <1>7, <1>10 DEF Complete
  <2>3. Cardinality(V) = Cardinality(W)
    BY <2>1
  <2>4. Counted(v)
    BY <1>3, <1>6, <1>7, <1>8, <1>10, <2>2, <2>3
  <2>. QED
    BY <1>3, <1>5, <2>4 DEF v
<1>. QED
  BY <1>9, <1>10

-----------------------------------------------------------------------------
(* What lies in a ring. *)

LEMMA TokenSent ==
  ASSUME NEW q \in Seq(Token), NEW m \in Token
  PROVE  LET v == Append(q, m)
         IN  /\ Len(v) = Len(q) + 1
             /\ m.part = "body" /\ AllBody(q) => AllBody(v)
             /\ \A k, r : m.part = "body" /\ HeadAt(q, k, r) => HeadAt(v, k, r)
             /\ m.part = "head" /\ AllBody(q) => HeadAt(v, Len(q) + 1, m.req)
<1> DEFINE v == Append(q, m)
           n == Len(q)
<1>1. /\ n \in Nat /\ Len(v) = n + 1 /\ v[n + 1] = m /\ DOMAIN q = 1 .. n /\ DOMAIN v = 1 .. n + 1
      /\ \A i \in 1 .. n : v[i] = q[i]
  OBVIOUS
<1>2. \A i \in 1 .. n + 1 : i \in 1 .. n \/ i = n + 1
  BY <1>1
<1>3. n + 1 \in 1 .. n + 1 /\ \A i \in 1 .. n : i \in 1 .. n + 1 /\ i # n + 1
  BY <1>1
<1> HIDE DEF v
<1>4. m.part = "body" /\ AllBody(q) => AllBody(v)
  BY <1>1, <1>2 DEF AllBody
<1>5. ASSUME NEW k, NEW r, m.part = "body", HeadAt(q, k, r) PROVE HeadAt(v, k, r)
  BY <1>1, <1>2, <1>3, <1>5 DEF HeadAt
<1>6. m.part = "head" /\ AllBody(q) => HeadAt(v, n + 1, m.req)
  BY <1>1, <1>2, <1>3 DEF AllBody, HeadAt
<1>. QED
  BY <1>1, <1>4, <1>5, <1>6 DEF v

LEMMA TokenRead ==
  ASSUME NEW q \in Seq(Token), q # <<>>
  PROVE  /\ Tail(q) \in Seq(Token) /\ Len(Tail(q)) = Len(q) - 1 /\ Len(q) > 0
         /\ AllBody(q) => AllBody(Tail(q)) /\ Head(q).part = "body"
         /\ \A r : \A k \in Nat : HeadAt(q, k + 1, r) /\ k > 0 =>
                                HeadAt(Tail(q), k, r) /\ Head(q).part = "body"
<1> DEFINE v == Tail(q)
           n == Len(q)
<1>1. /\ n \in Nat /\ n > 0 /\ Len(v) = n - 1 /\ v \in Seq(Token) /\ Head(q) = q[1]
      /\ DOMAIN q = 1 .. n /\ DOMAIN v = 1 .. n - 1
      /\ \A i \in 1 .. n - 1 : v[i] = q[i + 1]
  OBVIOUS
<1>2. 1 \in 1 .. n /\ \A i \in 1 .. n - 1 : i + 1 \in 1 .. n
  BY <1>1
<1> HIDE DEF v, n
<1>3. AllBody(q) => AllBody(v) /\ Head(q).part = "body"
  BY <1>1, <1>2, SMTT(30) DEF AllBody
<1>4. ASSUME NEW k \in Nat, NEW r, HeadAt(q, k + 1, r), k > 0
      PROVE  HeadAt(v, k, r) /\ Head(q).part = "body"
  <2>1. k + 1 \in 1 .. n /\ q[k + 1].part = "head" /\ q[k + 1].req = r
        /\ \A i \in 1 .. n : i # k + 1 => q[i].part = "body"
    BY <1>1, <1>4 DEF HeadAt
  <2>2. k \in 1 .. n - 1 /\ v[k] = q[k + 1] /\ 1 # k + 1
    BY <1>1, <1>4, <2>1
  <2>3. \A i \in 1 .. n - 1 : i # k => v[i].part = "body"
    BY <1>1, <1>2, <2>1
  <2>. QED
    BY <1>1, <1>2, <2>1, <2>2, <2>3 DEF HeadAt
<1>. QED
  BY <1>1, <1>3, <1>4 DEF v, n

\* The first n tokens of a ring that starts with a head, and what is left of it.
LEMMA HeadTaken ==
  ASSUME NEW q \in Seq(Token), NEW r, HeadAt(q, 1, r), NEW n \in 1 .. Len(q)
  PROVE  LET whole == <<>> \o SubSeq(q, 1, n)
             buf   == Drop(whole, 1)
             rest  == Drop(q, n)
         IN  /\ whole \in Seq(Token) /\ 1 \in DOMAIN whole
             /\ whole[1].part = "head" /\ whole[1].req = r
             /\ \A e \in DOMAIN whole : whole[e].part = "head" => e = 1
             /\ buf \in Seq(Token) /\ AllBody(buf) /\ Len(buf) = n - 1
             /\ rest \in Seq(Token) /\ AllBody(rest) /\ Len(rest) = Len(q) - n
<1> DEFINE sub  == SubSeq(q, 1, n)
           buf  == SubSeq(sub, 2, Len(sub))
           rest == SubSeq(q, n + 1, Len(q))
<1>1. Len(q) \in Nat /\ n \in Nat /\ n >= 1 /\ n <= Len(q) /\ DOMAIN q = 1 .. Len(q)
  OBVIOUS
<1>2. sub \in Seq(Token) /\ Len(sub) = n /\ DOMAIN sub = 1 .. n /\ \A i \in 1 .. n : sub[i] = q[i]
  BY <1>1, SubSeqProperties
<1>3. <<>> \o sub = sub
  BY <1>2
<1> HIDE DEF sub
<1>4. /\ q[1].part = "head" /\ q[1].req = r
      /\ \A i \in 1 .. Len(q) : i # 1 => q[i].part = "body"
  BY <1>1 DEF HeadAt
<1>5. /\ 1 \in 1 .. n /\ sub[1].part = "head" /\ sub[1].req = r
      /\ \A e \in 1 .. n : sub[e].part = "head" => e = 1
  BY <1>1, <1>2, <1>4
<1>6. /\ buf \in Seq(Token) /\ Len(buf) = n - 1 /\ DOMAIN buf = 1 .. n - 1
      /\ \A i \in 1 .. n - 1 : buf[i] = sub[i + 1]
  BY <1>1, <1>2, SubSeqProperties
<1>7. /\ rest \in Seq(Token) /\ Len(rest) = Len(q) - n /\ DOMAIN rest = 1 .. Len(q) - n
      /\ \A i \in 1 .. Len(q) - n : rest[i] = q[n + i]
  <2>1. rest \in Seq(Token)
    BY <1>1, PartTyped DEF Drop
  <2>2. n + 1 \in Int /\ Len(q) \in Int /\ \A i \in n + 1 .. Len(q) : q[i] \in Token
    BY <1>1
  <2>3. Len(rest) = IF n + 1 <= Len(q) THEN Len(q) - (n + 1) + 1 ELSE 0
    BY <2>2, SubSeqProperties
  <2>4. \A i \in 1 .. Len(q) - (n + 1) + 1 : rest[i] = q[n + 1 + i - 1]
    BY <2>2, SubSeqProperties
  <2> HIDE DEF rest
  <2>5. Len(rest) = Len(q) - n /\ Len(q) - (n + 1) + 1 = Len(q) - n
    <3> DEFINE l == Len(q)
    <3>1. l \in Nat /\ n \in Nat /\ n <= l /\ Len(rest) = IF n + 1 <= l THEN l - (n + 1) + 1 ELSE 0
      BY <1>1, <2>3
    <3> HIDE DEF l
    <3>2. Len(rest) = l - n /\ l - (n + 1) + 1 = l - n
      BY <3>1
    <3>. QED
      BY <3>2 DEF l
  <2>6. ASSUME NEW i \in 1 .. Len(q) - n PROVE rest[i] = q[n + i]
    <3>1. i \in 1 .. Len(q) - (n + 1) + 1 /\ n + 1 + i - 1 = n + i
      BY <1>1
    <3>. QED
      BY <2>4, <3>1
  <2>7. DOMAIN rest = 1 .. Len(q) - n
    BY <2>1, <2>5
  <2>. QED
    BY <2>1, <2>5, <2>6, <2>7
<1> HIDE DEF buf, rest
<1>8. AllBody(buf)
  BY <1>1, <1>2, <1>4, <1>6 DEF AllBody
<1>9. AllBody(rest)
  BY <1>1, <1>4, <1>7 DEF AllBody
<1>10. Drop(sub, 1) = buf /\ Drop(q, n) = rest
  BY DEF Drop, buf, rest
<1>. QED
  BY <1>2, <1>3, <1>5, <1>6, <1>7, <1>8, <1>9, <1>10 DEF sub

LEMMA MinIs ==
  ASSUME NEW a \in Nat, NEW b \in Nat, a <= b
  PROVE  Min({a, b}) = a /\ Min({b, a}) = a
<1>1. a \in {a, b} /\ \A y \in {a, b} : a =< y
  OBVIOUS
<1>2. Min({a, b}) \in {a, b} /\ \A y \in {a, b} : Min({a, b}) =< y
  BY <1>1 DEF Min
<1>3. {a, b} = {b, a}
  OBVIOUS
<1>. QED
  BY <1>2, <1>3

LEMMA DropAll ==
  ASSUME NEW q \in Seq(Token)
  PROVE  Drop(q, Len(q)) = <<>> /\ SubSeq(q, 1, Len(q)) = q
         /\ Drop(q, 0) = q /\ SubSeq(q, 1, 0) = <<>>
<1>1. SubSeq(q, Len(q) + 1, Len(q)) = <<>> /\ SubSeq(q, 1, Len(q)) = q /\ SubSeq(q, 1, 0) = <<>>
  BY SubSeqEmpty, SubSeqFull
<1>. QED
  BY <1>1 DEF Drop

\* A request of which no more has arrived than its body is consumed whole, and
\* what is missing is left to be skipped.
LEMMA ConsumedWhole ==
  ASSUME NEW need \in Nat, NEW buf \in Seq(Token), NEW rest \in Seq(Token),
         AllBody(buf), AllBody(rest), Len(buf) + Len(rest) <= need
  PROVE  LET d == Consumed(need, buf, rest)
         IN  /\ d.rbuf = <<>> /\ d.ring = <<>> /\ d.head = FALSE
             /\ d.skip = need - (Len(buf) + Len(rest))
<1>1. Len(buf) \in Nat /\ Len(rest) \in Nat
  OBVIOUS
<1>2. Min({need, Len(buf)}) = Len(buf)
  BY <1>1, MinIs
<1>3. need - Len(buf) \in Nat /\ Len(rest) <= need - Len(buf)
  BY <1>1
<1>4. Min({need - Len(buf), Len(rest)}) = Len(rest)
  BY <1>1, <1>3, MinIs
<1>5. ~HasHead(buf) /\ ~HasHead(rest)
  BY DEF HasHead, AllBody
<1>6. (HasHead(buf) \/ HasHead(rest)) = FALSE
  BY <1>5
<1>7. /\ Drop(buf, Len(buf)) = <<>> /\ SubSeq(buf, 1, Len(buf)) = buf
      /\ Drop(rest, Len(rest)) = <<>> /\ SubSeq(rest, 1, Len(rest)) = rest
  BY DropAll
<1>8. Consumed(need, buf, rest) =
        [rbuf |-> <<>>, ring |-> <<>>, skip |-> need - Len(buf) - Len(rest),
         head |-> HasHead(buf) \/ HasHead(rest)]
  BY <1>2, <1>4, <1>7 DEF Consumed
<1>9. Consumed(need, buf, rest) =
        [rbuf |-> <<>>, ring |-> <<>>, skip |-> need - Len(buf) - Len(rest), head |-> FALSE]
  BY <1>6, <1>8
<1>10. need - Len(buf) - Len(rest) = need - (Len(buf) + Len(rest))
  BY <1>1
<1>. QED
  BY <1>9, <1>10
-----------------------------------------------------------------------------
(* One step of the conversation: the sweep. *)

LEMMA SkipTalk ==
  ASSUME NEW x \in GoodSlot, NEW q \in Seq(Token), NEW ks \in Seq(Kinds), NEW o \in Nat, NEW w,
         Talk(x, q, ks, o, w), x.sending = FALSE, x.state = "reading", x.skip > 0, q # <<>>
  PROVE  Talk(Skipped(x), Tail(q), ks, o, w) /\ Head(q).part = "body"
<1> DEFINE y == Skipped(x)
<1>1. x.skip \in Nat /\ x \in Slot
  BY DEF GoodSlot, Slot
<1>2. y.skip = x.skip - 1 /\ y.rbuf = x.rbuf /\ y.sending = FALSE /\ y.state = "reading"
  BY <1>1 DEF Skipped, Slot
<1> HIDE DEF y
<1>3. x.rbuf = <<>> /\ (Quieted(x, q, ks, o, w) \/ Asking(x, q, ks, o, w))
  BY DEF Talk, Answering
<1>4. Len(Tail(q)) = Len(q) - 1 /\ Len(q) \in Nat
  BY TokenRead
<1>5. CASE Quieted(x, q, ks, o, w)
  <2>1. AllBody(Tail(q)) /\ Head(q).part = "body"
    BY <1>5, TokenRead DEF Quieted
  <2>2. Quieted(y, Tail(q), ks, o, w)
    BY <1>1, <1>2, <1>4, <1>5, <2>1 DEF Quieted
  <2>. QED
    BY <1>2, <1>3, <2>1, <2>2 DEF Talk, y
<1>6. CASE Asking(x, q, ks, o, w)
  <2>1. HeadAt(Tail(q), x.skip, Len(ks)) /\ Head(q).part = "body"
    BY <1>1, <1>6, TokenRead DEF Asking
  <2>2. Asking(y, Tail(q), ks, o, w)
    <3>1. y.skip + 1 = x.skip
      BY <1>1, <1>2
    <3> DEFINE b == BodyOf(ks[Len(ks)])
               l == Len(q)
               m == Len(Tail(q))
               k == x.skip
    <3>2. b \in Nat /\ l \in Nat /\ k \in Nat /\ k > 0 /\ l + o = k + 1 + b /\ m = l - 1
      BY <1>1, <1>4, <1>6, BodyTyped DEF Asking
    <3> HIDE DEF b, l, m, k
    <3>3. m + o = (k - 1) + 1 + b
      BY <3>2
    <3>4. m + o = y.skip + 1 + b
      BY <1>2, <3>3 DEF k
    <3>. QED
      BY <1>2, <1>6, <2>1, <3>1, <3>4 DEF Asking, b, m
  <2>. QED
    BY <1>2, <1>3, <2>1, <2>2 DEF Talk, y
<1>. QED
  BY <1>3, <1>5, <1>6

LEMMA RecvTalk ==
  ASSUME NEW x \in GoodSlot, NEW q \in Seq(Token), NEW ks, NEW o \in Nat, NEW w,
         Talk(x, q, ks, o, w), x.sending = FALSE, x.state = "recv_body", q # <<>>
  PROVE  Talk(Received(x), Tail(q), ks, o, w) /\ Head(q).part = "body"
<1> DEFINE y == Received(x)
<1>1. x.putRemain \in Nat /\ x \in Slot
  BY DEF GoodSlot, Slot
<1>2. /\ AllBody(q) /\ Len(ks) > 0 /\ x.req = Len(ks) /\ x.rbuf = <<>>
      /\ x.putRemain = Len(q) + o /\ x.skip = 0 /\ Whole(w, Len(ks) - 1)
  BY DEF Talk, Quieted, Asking, Answering
<1>3. AllBody(Tail(q)) /\ Head(q).part = "body" /\ Len(Tail(q)) = Len(q) - 1 /\ Len(q) \in Nat
  BY <1>2, TokenRead
<1>4. CASE x.putRemain = 1
  <2>1. /\ y.state = "send_hdr" /\ y.req = x.req /\ y.skip = x.skip /\ y.rbuf = x.rbuf
        /\ y.sending = FALSE
    BY <1>1, <1>4 DEF Received, Responding, Slot
  <2> HIDE DEF y
  <2>2. y.skip = Len(Tail(q)) + o
    BY <1>2, <1>3, <1>4, <2>1
  <2>3. Answering(y, Tail(q), ks, o, w)
    BY <1>2, <1>3, <2>1, <2>2 DEF Answering
  <2>. QED
    BY <1>2, <1>3, <2>1, <2>3 DEF Talk, y
<1>5. CASE x.putRemain # 1
  <2>1. /\ y.state = "recv_body" /\ y.req = x.req /\ y.skip = x.skip /\ y.rbuf = x.rbuf
        /\ y.sending = FALSE /\ y.putRemain = x.putRemain - 1
    BY <1>1, <1>5 DEF Received, Slot
  <2> HIDE DEF y
  <2>2. y.putRemain = Len(Tail(q)) + o
    BY <1>1, <1>2, <1>3, <2>1
  <2>3. Answering(y, Tail(q), ks, o, w)
    BY <1>2, <1>3, <2>1, <2>2 DEF Answering
  <2>. QED
    BY <1>2, <1>3, <2>1, <2>3 DEF Talk, y
<1>. QED
  BY <1>4, <1>5

LEMMA HdrTalk ==
  ASSUME NEW x \in GoodSlot, NEW q \in Seq(Token), NEW ks \in Seq(Kinds), NEW o \in Nat, NEW w \in Seq(Piece),
         Talk(x, q, ks, o, w), x.sending = FALSE, x.state = "send_hdr",
         WholeOut(w), Counted(w)
  PROVE  LET v == Append(w, [req |-> x.req, part |-> "head", more |-> x.gen])
         IN  Talk(HdrSent(x), q, ks, o, v) /\ WholeOut(v) /\ Counted(v)
<1> DEFINE p == [req |-> x.req, part |-> "head", more |-> x.gen]
           v == Append(w, p)
           y == HdrSent(x)
<1>1. x \in Slot /\ x.req \in 0 .. MaxReq /\ x.gen \in BOOLEAN /\ Len(ks) \in Nat
  BY DEF GoodSlot, Slot
<1>2. /\ AllBody(q) /\ Len(ks) > 0 /\ x.req = Len(ks) /\ x.rbuf = <<>>
      /\ x.skip = Len(q) + o /\ Settled(w) /\ LastReq(w) = Len(ks) - 1
  BY DEF Talk, Quieted, Asking, Answering, Whole
<1>3. p \in Piece /\ p.part = "head" /\ p.req = Len(ks) /\ p.req = LastReq(w) + 1 /\ p.more = x.gen
  BY <1>1, <1>2 DEF Piece
<1> HIDE DEF p
<1>4. WholeOut(v) /\ Counted(v) /\ LastReq(v) = p.req /\ (Settled(v) <=> Complete(p))
  BY <1>2, <1>3, PieceWritten
<1> HIDE DEF v
<1>5. y.rbuf = x.rbuf /\ y.sending = FALSE /\ y.skip = x.skip
  BY <1>1 DEF HdrSent, Slot
<1>6. CASE x.gen = TRUE
  <2>1. y.state = "send_body" /\ y.req = x.req
    BY <1>1, <1>6 DEF HdrSent, Slot
  <2> HIDE DEF y
  <2>2. ~Settled(v) /\ LastReq(v) = Len(ks)
    BY <1>3, <1>4, <1>6 DEF Complete
  <2>3. Answering(y, q, ks, o, v)
    BY <1>2, <1>5, <2>1, <2>2 DEF Answering
  <2>. QED
    BY <1>2, <1>4, <1>5, <2>3 DEF Talk, y, v, p
<1>7. CASE x.gen = FALSE
  <2>1. y.state = "reading"
    BY <1>1, <1>7 DEF HdrSent, Slot
  <2> HIDE DEF y
  <2>2. Whole(v, Len(ks))
    BY <1>3, <1>4, <1>7 DEF Complete, Whole
  <2>3. Quieted(y, q, ks, o, v)
    BY <1>2, <1>5, <2>1, <2>2 DEF Quieted
  <2>. QED
    BY <1>2, <1>4, <1>5, <2>3 DEF Talk, y, v, p
<1>. QED
  BY <1>1, <1>6, <1>7

LEMMA BodyTalk ==
  ASSUME NEW x \in GoodSlot, NEW q \in Seq(Token), NEW ks \in Seq(Kinds), NEW o \in Nat, NEW w \in Seq(Piece),
         Talk(x, q, ks, o, w), x.sending = FALSE, x.state = "send_body",
         WholeOut(w), Counted(w)
  PROVE  LET v == Append(w, [req |-> x.req, part |-> "body", more |-> FALSE])
         IN  Talk(BodySent(x), q, ks, o, v) /\ WholeOut(v) /\ Counted(v)
<1> DEFINE p == [req |-> x.req, part |-> "body", more |-> FALSE]
           v == Append(w, p)
           y == BodySent(x)
<1>1. x \in Slot /\ x.req \in 0 .. MaxReq
  BY DEF GoodSlot, Slot
<1>2. /\ AllBody(q) /\ Len(ks) > 0 /\ x.req = Len(ks) /\ x.rbuf = <<>>
      /\ x.skip = Len(q) + o /\ ~Settled(w) /\ LastReq(w) = Len(ks)
  BY DEF Talk, Quieted, Asking, Answering
<1>3. p \in Piece /\ p.part = "body" /\ p.req = Len(ks) /\ Complete(p)
  BY <1>1, <1>2 DEF Piece, Complete
<1> HIDE DEF p
<1>4. WholeOut(v) /\ Counted(v) /\ Whole(v, Len(ks))
  BY <1>2, <1>3, PieceWritten DEF Whole
<1> HIDE DEF v
<1>5. y.rbuf = x.rbuf /\ y.sending = FALSE /\ y.skip = x.skip /\ y.state = "reading"
  BY <1>1 DEF BodySent, Slot
<1> HIDE DEF y
<1>6. Quieted(y, q, ks, o, v)
  BY <1>2, <1>4, <1>5 DEF Quieted
<1>. QED
  BY <1>2, <1>4, <1>5, <1>6 DEF Talk, y, v, p
-----------------------------------------------------------------------------
(* Steps that keep the conversation of every connection but one. *)

\* Who talks on the connections: clients that wait for an answer, and no task
\* that reads a body before the parser does, nor one whose body the parser
\* forgets (see "Noted" in README.md).
Framed == ~Pipelining /\ Crowd # "any" /\ "handler" \notin Kinds /\ "unauth" \notin Kinds

\* A connection that net has not handed over yet.
Unused == \A c \in Conns : net[c] = "new" =>
            ring[c] = <<>> /\ asked[c] = <<>> /\ owed[c] = 0 /\ out[c] = <<>>

Converse == Unused /\ Talking /\ Waiting /\ Working /\ Answers
Conv     == Inv /\ Work /\ OutTyped /\ Converse

Alike(x, y) == /\ x.rbuf = y.rbuf /\ x.sending = y.sending /\ x.state = y.state
               /\ x.skip = y.skip /\ x.putRemain = y.putRemain /\ x.req = y.req

Unchanged(c)   == ring'[c] = ring[c] /\ asked'[c] = asked[c] /\ owed'[c] = owed[c] /\ out'[c] = out[c]
Undisturbed(c) == net[c] = "open" /\ Unchanged(c) /\ Alike(slots'[ref'[c]], slots[ref[c]])
TalkedTo(c) ==
  /\ Talk(slots[ref[c]], ring[c], asked[c], owed[c], out[c])'
  /\ \A i \in DOMAIN inbox : inbox[i].conn # c
  /\ worker # Idle /\ worker.job.conn = c => worker.phase = "done" /\ Done(c)'

LEMMA AlikeTalk ==
  ASSUME NEW x, NEW y, Alike(y, x), NEW q, NEW ks, NEW o, NEW w
  PROVE  /\ Talk(x, q, ks, o, w) => Talk(y, q, ks, o, w)
         /\ Quieted(x, q, ks, o, w) => Quieted(y, q, ks, o, w)
         /\ Asking(x, q, ks, o, w) => Asking(y, q, ks, o, w)
BY DEF Alike, Talk, Quieted, Asking, Answering

LEMMA Frame ==
  ASSUME Conv, UNCHANGED <<inbox, worker>>,
         \A c \in Conns : net'[c] = "open" => Undisturbed(c) \/ TalkedTo(c),
         \A c \in Conns : net'[c] = "new" => net[c] = "new" /\ Unchanged(c),
         \A c \in Conns : out'[c] = out[c] \/ (WholeOut(out'[c]) /\ Counted(out'[c]))
  PROVE  Converse'
<1>1. Unused'
  BY DEF Conv, Converse, Unused, Unchanged
<1>2. Talking'
  <2> SUFFICES ASSUME NEW c \in Conns, net'[c] = "open"
               PROVE  Talk(slots'[ref'[c]], ring'[c], asked'[c], owed'[c], out'[c])
    BY DEF Talking, OpenConns
  <2>1. CASE Undisturbed(c)
    <3>1. Talk(slots[ref[c]], ring[c], asked[c], owed[c], out[c])
      BY <2>1 DEF Conv, Converse, Talking, OpenConns, Undisturbed
    <3>. QED
      BY <2>1, <3>1, AlikeTalk DEF Undisturbed, Unchanged
  <2>2. CASE TalkedTo(c)
    BY <2>2 DEF TalkedTo
  <2>. QED
    BY <2>1, <2>2
<1>3. Waiting'
  <2> SUFFICES ASSUME NEW i \in DOMAIN inbox, net'[inbox[i].conn] = "open"
               PROVE  Pending(inbox[i].conn, inbox[i].req)'
    BY DEF Waiting
  <2>1. inbox[i].conn \in Conns
    <3>1. inbox[i] \in Job
      BY DEF Conv, Inv, Typed
    <3>. QED
      BY <3>1 DEF Job
  <2>2. Undisturbed(inbox[i].conn)
    BY <2>1 DEF TalkedTo
  <2>. QED
    BY <2>1, <2>2 DEF Conv, Converse, Waiting, Pending, Undisturbed, Unchanged
<1>4. Working'
  <2> DEFINE c == worker.job.conn
  <2> SUFFICES ASSUME worker # Idle, net'[c] = "open"
               PROVE  CASE worker.phase = "head" -> Pending(c, worker.job.req)'
                        [] worker.phase = "body" -> Streaming(c, worker.job.req)'
                        [] worker.phase = "done" -> Done(c)'
    BY DEF Working
  <2>1. c \in Conns /\ worker.phase \in {"head", "body", "done"}
    BY WorkerJob DEF Conv, Job
  <2> HIDE DEF c
  <2>2. CASE TalkedTo(c)
    BY <2>2 DEF TalkedTo, c
  <2>3. CASE Undisturbed(c)
    <3>1. CASE worker.phase = "head"
      BY <2>3, <3>1 DEF Conv, Converse, Working, Pending, Undisturbed, Unchanged, c
    <3>2. CASE worker.phase = "body"
      BY <2>3, <3>2 DEF Conv, Converse, Working, Streaming, Undisturbed, Unchanged, c
    <3>3. CASE worker.phase = "done"
      <4>1. Done(c)
        BY <2>3, <3>3 DEF Conv, Converse, Working, Undisturbed, c
      <4> DEFINE x == slots[ref[c]]
                 y == slots'[ref'[c]]
      <4>2. Alike(y, x) /\ Unchanged(c)
        BY <2>3 DEF Undisturbed
      <4>3. \/ Quieted(x, ring[c], asked[c], owed[c], out[c])
            \/ Asking(x, ring[c], asked[c], owed[c], out[c])
        BY <4>1 DEF Done
      <4> HIDE DEF x, y
      <4>4. \/ Quieted(y, ring[c], asked[c], owed[c], out[c])
            \/ Asking(y, ring[c], asked[c], owed[c], out[c])
        BY <4>2, <4>3, AlikeTalk
      <4>5. Done(c)'
        BY <4>2, <4>4 DEF Done, Unchanged, y, c
      <4>. QED
        BY <3>3, <4>5
    <3>. QED
      BY <2>1, <3>1, <3>2, <3>3
  <2>. QED
    BY <2>1, <2>2, <2>3
<1>5. Answers'
  BY DEF Conv, Converse, Answers
<1>. QED
  BY <1>1, <1>2, <1>3, <1>4, <1>5 DEF Converse

\* No job is for the connection of a slot that is not sending.
LEMMA NoJobHere ==
  ASSUME Inv, Work, NEW s \in Slots, ~slots[s].sending, slots[s].conn \in Conns
  PROVE  /\ \A i \in DOMAIN inbox : inbox[i].conn # slots[s].conn
         /\ worker # Idle => worker.job.conn # slots[s].conn
<1>1. ASSUME NEW job \in Jobs PROVE job.conn # slots[s].conn
  <2>1. slots[job.slot].conn = job.conn /\ slots[job.slot].sending /\ job.slot \in Slots
        /\ job.conn # NoConn
    BY JobsTyped DEF Work, SlotKept
  <2>. QED
    BY <2>1 DEF Inv, Layout, Placed
<1>2. /\ \A i \in DOMAIN inbox : inbox[i] \in Jobs
      /\ worker # Idle => worker.job \in Jobs
  BY DEF Jobs, ToSet
<1>. QED
  BY <1>1, <1>2

\* The slot of an open connection is its own.
LEMMA OwnSlot ==
  ASSUME Inv, NEW c \in Conns, net[c] = "open"
  PROVE  ref[c] \in Slots /\ slots[ref[c]].conn = c /\ c # NoConn
         /\ \A s \in Slots : slots[s].conn = c => ref[c] = s
BY SlotsAssumption DEF Inv, Layout, Opened, Placed

LEMMA SelfAlike == ASSUME NEW x PROVE Alike(x, x)
BY DEF Alike

\* A step of the web task on one open connection that is not with the worker.
LEMMA Local ==
  ASSUME Conv, NEW s \in Slots, NEW c \in Conns, slots[s].conn = c, ~slots[s].sending,
         net[c] = "open", NEW x, slots' = [slots EXCEPT ![s] = x],
         UNCHANGED <<net, ref, asked, owed, inbox, worker>>,
         \A d \in Conns : d # c => ring'[d] = ring[d] /\ out'[d] = out[d],
         Talk(x, ring'[c], asked[c], owed[c], out'[c]),
         out'[c] = out[c] \/ (WholeOut(out'[c]) /\ Counted(out'[c]))
  PROVE  Converse'
<1>1. slots'[s] = x /\ \A r \in Slots : r # s => slots'[r] = slots[r]
  BY DEF Conv, Inv, Typed
<1>2. ref[c] = s
  BY OwnSlot DEF Conv
<1>3. TalkedTo(c)
  BY <1>1, <1>2, NoJobHere DEF TalkedTo, Conv
<1>4. ASSUME NEW d \in Conns, net'[d] = "open", d # c PROVE Undisturbed(d)
  <2>1. ref[d] \in Slots /\ ref[d] # s
    BY <1>4, OwnSlot DEF Conv
  <2>. QED
    BY <1>1, <1>4, <2>1, SelfAlike DEF Undisturbed, Unchanged
<1>5. \A d \in Conns : net'[d] = "new" => net[d] = "new" /\ Unchanged(d)
  BY DEF Unchanged
<1>. QED
  BY <1>3, <1>4, <1>5, Frame

\* A step that only closes connections and takes slots from those it closes.
LEMMA Closing ==
  ASSUME Conv, UNCHANGED <<ref, asked, owed, out, inbox, worker>>,
         \A c \in Conns : net'[c] = "open" => /\ net[c] = "open" /\ ring'[c] = ring[c]
                                              /\ Alike(slots'[ref[c]], slots[ref[c]]),
         \A c \in Conns : net'[c] = "new" => net[c] = "new" /\ ring'[c] = ring[c]
  PROVE  Converse'
<1>1. \A c \in Conns : net'[c] = "open" => Undisturbed(c)
  BY DEF Undisturbed, Unchanged
<1>2. \A c \in Conns : net'[c] = "new" => net[c] = "new" /\ Unchanged(c)
  BY DEF Unchanged
<1>. QED
  BY <1>1, <1>2, Frame
-----------------------------------------------------------------------------
(* The sweep. *)

\* The slot, the connection and what Local says of them.
LEMMA LiveParts ==
  ASSUME Conv, NEW s \in Slots, Live(s)
  PROVE  LET c == slots[s].conn IN
         /\ c \in Conns /\ net[c] = "open" /\ slots[s] \in GoodSlot /\ slots[s].sending = FALSE
         /\ ref[c] = s /\ Talk(slots[s], ring[c], asked[c], owed[c], out[c])
         /\ ring[c] \in Seq(Token) /\ asked[c] \in Seq(Kinds) /\ owed[c] \in Nat
         /\ out[c] \in Seq(Piece) /\ WholeOut(out[c]) /\ Counted(out[c])
         /\ ring \in [Conns -> Seq(Token)] /\ out \in [Conns -> Seq(Piece)]
<1> DEFINE c == slots[s].conn
<1>1. c \in Conns /\ net[c] = "open" /\ slots[s] \in GoodSlot /\ slots[s].sending = FALSE
  BY SlotParts DEF Conv
<1>2. ref[c] = s
  BY <1>1, OwnSlot DEF Conv
<1>3. Talk(slots[s], ring[c], asked[c], owed[c], out[c])
  BY <1>1, <1>2 DEF Conv, Converse, Talking, OpenConns
<1>4. /\ ring[c] \in Seq(Token) /\ asked[c] \in Seq(Kinds) /\ owed[c] \in 0 .. BodyLen
      /\ ring \in [Conns -> Seq(Token)]
  BY <1>1 DEF Conv, Inv, Typed
<1>5. out[c] \in Seq(Piece) /\ out \in [Conns -> Seq(Piece)]
  BY <1>1 DEF Conv, OutTyped
<1>6. owed[c] \in Nat
  BY <1>4, SlotsAssumption
<1>. QED
  BY <1>1, <1>2, <1>3, <1>4, <1>5, <1>6 DEF Conv, Converse, Answers

LEMMA ReadsTalk ==
  ASSUME Conv, NEW s \in Slots, SkipBody(s) \/ RecvBody(s)
  PROVE  Converse' /\ UNCHANGED garbled /\ (~swallowed => ~swallowed')
<1> DEFINE c == slots[s].conn
           h == Head(ring[c]).part = "head"
<1>1. /\ Live(s) /\ ring[c] # <<>> /\ ring' = [ring EXCEPT ![c] = Tail(@)]
      /\ swallowed' = (swallowed \/ h)
      /\ UNCHANGED <<net, ref, asked, owed, inbox, worker, out, garbled>>
  BY DEF SkipBody, RecvBody, conns, client
<1>2. \E x : /\ slots' = [slots EXCEPT ![s] = x]
             /\ Talk(x, Tail(ring[c]), asked[c], owed[c], out[c]) /\ Head(ring[c]).part = "body"
  <2>1. CASE SkipBody(s)
    <3>1. /\ slots' = [slots EXCEPT ![s] = Skipped(slots[s])] /\ slots[s].skip > 0
          /\ slots[s].state = "reading"
      BY <2>1 DEF SkipBody, Skipped
    <3>2. /\ Talk(Skipped(slots[s]), Tail(ring[c]), asked[c], owed[c], out[c])
          /\ Head(ring[c]).part = "body"
      BY <1>1, <3>1, LiveParts, SkipTalk
    <3>. QED
      BY <3>1, <3>2
  <2>2. CASE RecvBody(s)
    <3>1. /\ slots' = [slots EXCEPT ![s] = Received(slots[s])]
          /\ slots[s].state = "recv_body"
      BY <2>2 DEF RecvBody
    <3>2. /\ Talk(Received(slots[s]), Tail(ring[c]), asked[c], owed[c], out[c])
          /\ Head(ring[c]).part = "body"
      <4> DEFINE x == slots[s]
                 q == ring[c]
                 w == out[c]
                 ks == asked[c]
                 o == owed[c]
      <4>1. /\ x \in GoodSlot /\ q \in Seq(Token) /\ o \in Nat /\ q # <<>> /\ Talk(x, q, ks, o, w)
            /\ x.sending = FALSE /\ x.state = "recv_body"
        BY <1>1, <3>1, LiveParts
      <4> HIDE DEF x, q, w, ks, o
      <4>2. Talk(Received(x), Tail(q), ks, o, w) /\ Head(q).part = "body"
        BY <4>1, RecvTalk
      <4>. QED
        BY <4>2 DEF x, q, w, ks, o
    <3>. QED
      BY <3>1, <3>2
  <2>. QED
    BY <2>1, <2>2
<1>3. PICK x : /\ slots' = [slots EXCEPT ![s] = x]
               /\ Talk(x, Tail(ring[c]), asked[c], owed[c], out[c]) /\ Head(ring[c]).part = "body"
  BY <1>2
<1>4. /\ c \in Conns /\ slots[s].conn = c /\ ~slots[s].sending /\ net[c] = "open"
      /\ ring \in [Conns -> Seq(Token)]
  BY <1>1, LiveParts
<1>5. ~h
  BY <1>3
<1> HIDE DEF c, h
<1>6. ring'[c] = Tail(ring[c]) /\ \A d \in Conns : d # c => ring'[d] = ring[d]
  BY <1>1, <1>4
<1>7. Converse'
  BY <1>1, <1>3, <1>4, <1>6, Local
<1>. QED
  BY <1>1, <1>5, <1>7

LEMMA AnswersTalk ==
  ASSUME Conv, NEW s \in Slots, SendHdr(s) \/ SendBody(s)
  PROVE  Converse' /\ UNCHANGED ghosts
<1> DEFINE c == slots[s].conn
<1>1. /\ Live(s) /\ UNCHANGED <<net, ref, asked, owed, inbox, worker, ring>> /\ UNCHANGED ghosts
  BY DEF SendHdr, SendBody, conns, client
<1>2. /\ c \in Conns /\ slots[s].conn = c /\ ~slots[s].sending /\ net[c] = "open"
      /\ out \in [Conns -> Seq(Piece)] /\ slots \in [Slots -> GoodSlot]
  BY <1>1, LiveParts DEF Conv, Inv, Typed
<1>3. \E x, v : /\ slots' = [slots EXCEPT ![s] = x] /\ out' = [out EXCEPT ![c] = v]
                /\ Talk(x, ring[c], asked[c], owed[c], v) /\ WholeOut(v) /\ Counted(v)
  <2>1. CASE SendHdr(s)
    <3> DEFINE v == Append(out[c], [req |-> slots[s].req, part |-> "head", more |-> slots[s].gen])
    <3>1. /\ slots' = [slots EXCEPT ![s] = HdrSent(slots[s])] /\ out' = [out EXCEPT ![c] = v]
          /\ slots[s].state = "send_hdr"
      BY <1>2, <2>1 DEF SendHdr, HdrSent
    <3>2. Talk(HdrSent(slots[s]), ring[c], asked[c], owed[c], v) /\ WholeOut(v) /\ Counted(v)
      BY <1>1, <3>1, LiveParts, HdrTalk
    <3>. QED
      BY <3>1, <3>2
  <2>2. CASE SendBody(s)
    <3> DEFINE v == Append(out[c], [req |-> slots[s].req, part |-> "body", more |-> FALSE])
    <3>1. /\ slots' = [slots EXCEPT ![s] = BodySent(slots[s])] /\ out' = [out EXCEPT ![c] = v]
          /\ slots[s].state = "send_body"
      BY <1>2, <2>2 DEF SendBody, BodySent
    <3>2. Talk(BodySent(slots[s]), ring[c], asked[c], owed[c], v) /\ WholeOut(v) /\ Counted(v)
      BY <1>1, <3>1, LiveParts, BodyTalk
    <3>. QED
      BY <3>1, <3>2
  <2>. QED
    BY <2>1, <2>2
<1>4. PICK x, v : /\ slots' = [slots EXCEPT ![s] = x] /\ out' = [out EXCEPT ![c] = v]
                  /\ Talk(x, ring[c], asked[c], owed[c], v) /\ WholeOut(v) /\ Counted(v)
  BY <1>3
<1> HIDE DEF c
<1>5. out'[c] = v /\ \A d \in Conns : d # c => out'[d] = out[d]
  BY <1>2, <1>4
<1>. QED
  BY <1>1, <1>2, <1>4, <1>5, Local

\* Steps that end connections.
LEMMA EndsTalk ==
  ASSUME Conv, NEW s \in Slots, SweepGone(s) \/ Expire(s)
  PROVE  Converse' /\ UNCHANGED ghosts
<1> DEFINE c == slots[s].conn
<1>1. /\ slots' = [slots EXCEPT ![s] = Reset(NoConn)] /\ c \in Conns
      /\ (net' = net /\ net[c] # "open") \/ net' = [net EXCEPT ![c] = "closed"]
      /\ UNCHANGED <<ref, asked, owed, out, inbox, worker, ring>> /\ UNCHANGED ghosts
  BY SlotParts DEF SweepGone, Expire, Live, conns, client, Conv
<1>2. net \in [Conns -> {"new", "open", "closed", "forwarded"}] /\ slots \in [Slots -> GoodSlot]
  BY DEF Conv, Inv, Typed
<1>3. net'[c] # "open" /\ \A d \in Conns : d # c => net'[d] = net[d]
  BY <1>1, <1>2
<1>4. net'[c] # "new"
  BY <1>1, <1>2 DEF Conv, Inv, Layout, Fresh
<1> HIDE DEF c
<1>5. ASSUME NEW d \in Conns, net'[d] = "open"
      PROVE  /\ net[d] = "open" /\ ring'[d] = ring[d]
             /\ Alike(slots'[ref[d]], slots[ref[d]])
  <2>1. d # c /\ net[d] = "open"
    BY <1>3, <1>5
  <2>2. ref[d] \in Slots /\ ref[d] # s
    BY <2>1, OwnSlot DEF Conv, c
  <2>. QED
    BY <1>1, <1>2, <2>1, <2>2, SelfAlike
<1>6. ASSUME NEW d \in Conns, net'[d] = "new" PROVE net[d] = "new" /\ ring'[d] = ring[d]
  BY <1>1, <1>3, <1>4, <1>6
<1>. QED
  BY <1>1, <1>5, <1>6, Closing

LEMMA HangUpTalk ==
  ASSUME Conv, NEW c \in Conns, HangUp(c)
  PROVE  Converse' /\ UNCHANGED ghosts
<1>1. /\ net' = [net EXCEPT ![c] = "closed"]
      /\ UNCHANGED <<ref, asked, owed, out, inbox, worker, ring, slots>> /\ UNCHANGED ghosts
  BY DEF HangUp, client
<1>2. net \in [Conns -> {"new", "open", "closed", "forwarded"}]
  BY DEF Conv, Inv, Typed
<1>3. \A d \in Conns : net'[d] = net[d] \/ net'[d] = "closed"
  BY <1>1, <1>2
<1>. QED
  BY <1>1, <1>3, SelfAlike, Closing

LEMMA DisconnectTalk ==
  ASSUME Conv, NEW c \in Conns, OnDisconnect(c)
  PROVE  Converse' /\ UNCHANGED ghosts
<1> DEFINE s == ref[c]
<1>1. /\ c \in gone /\ slots' = [slots EXCEPT ![s] = Released(slots[s])]
      /\ UNCHANGED <<net, ref, ring, asked, owed, out, inbox, worker>> /\ UNCHANGED ghosts
  BY DEF OnDisconnect, client
<1>2. s \in Slots /\ net[c] = "closed" /\ slots[s].conn \in {c, NoConn}
  BY <1>1 DEF Conv, Inv, Layout, Leaving
<1>3. slots \in [Slots -> GoodSlot]
  BY DEF Conv, Inv, Typed
<1> HIDE DEF s
<1>4. ASSUME NEW d \in Conns, net[d] = "open" PROVE Alike(slots'[ref[d]], slots[ref[d]])
  <2>1. ref[d] \in Slots /\ ref[d] # s
    BY <1>2, <1>4, OwnSlot DEF Conv
  <2>. QED
    BY <1>1, <1>3, <2>1, SelfAlike
<1>. QED
  BY <1>1, <1>4, Closing

LEMMA WifiDownTalk ==
  ASSUME Conv, WifiDown
  PROVE  Converse' /\ UNCHANGED ghosts
<1> DEFINE live == {s \in Slots : slots[s].state # "idle" /\ slots[s].conn # NoConn}
           cut  == {s \in live : ~slots[s].sending}
<1>1. /\ slots' = [s \in Slots |-> IF s \in live THEN Released(slots[s]) ELSE slots[s]]
      /\ net' = [c \in Conns |-> IF \E s \in cut : slots[s].conn = c THEN "closed" ELSE net[c]]
      /\ UNCHANGED <<ref, ring, asked, owed, out, inbox, worker>> /\ UNCHANGED ghosts
  BY DEF WifiDown, client
<1>2. ASSUME NEW c \in Conns, net'[c] = "open"
      PROVE  net[c] = "open" /\ Alike(slots'[ref[c]], slots[ref[c]])
  <2>1. net[c] = "open" /\ ~\E s \in cut : slots[s].conn = c
    BY <1>1, <1>2
  <2>2. ref[c] \in Slots /\ slots[ref[c]].conn = c /\ slots[ref[c]] \in GoodSlot
    BY <2>1, OwnSlot, SlotParts DEF Conv
  <2> DEFINE x == slots[ref[c]]
  <2>3. CASE ref[c] \in live
    <3>1. x.sending
      BY <2>1, <2>2, <2>3
    <3>2. slots'[ref[c]] = [x EXCEPT !.wantsCleanup = TRUE]
      BY <1>1, <2>2, <2>3, <3>1 DEF Released
    <3> HIDE DEF x
    <3>3. Alike([x EXCEPT !.wantsCleanup = TRUE], x)
      BY <2>2 DEF Alike, GoodSlot, Slot, x
    <3>. QED
      BY <2>1, <3>2, <3>3 DEF x
  <2>4. CASE ref[c] \notin live
    BY <1>1, <2>1, <2>2, <2>4, SelfAlike
  <2>. QED
    BY <2>3, <2>4
<1>3. ASSUME NEW c \in Conns, net'[c] = "new" PROVE net[c] = "new"
  BY <1>1, <1>3
<1>. QED
  BY <1>1, <1>2, <1>3, Closing
-----------------------------------------------------------------------------
(* Connections come. *)

\* A connection that comes has everything before it, and no job.
LEMMA ArrivesTalk ==
  ASSUME Conv, NEW c \in Conns, net[c] = "new", NEW s \in Slots, slots'[s] = Accepted(c),
         ref' = [ref EXCEPT ![c] = s], UNCHANGED <<ring, asked, owed, out, inbox, worker>>,
         \A d \in Conns : d # c /\ net'[d] = "open" =>
                            net[d] = "open" /\ Alike(slots'[ref[d]], slots[ref[d]]),
         \A d \in Conns : net'[d] = "new" => net[d] = "new"
  PROVE  Converse'
<1>1. ref'[c] = s /\ \A d \in Conns : d # c => ref'[d] = ref[d]
  BY DEF Conv, Inv, Typed
<1>2. /\ Accepted(c).state = "reading" /\ Accepted(c).rbuf = <<>> /\ Accepted(c).skip = 0
      /\ Accepted(c).sending = FALSE
  BY DEF Accepted, Reset
<1>3. ring[c] = <<>> /\ asked[c] = <<>> /\ owed[c] = 0 /\ out[c] = <<>>
  BY DEF Conv, Converse, Unused
<1>4. AllBody(<<>>) /\ Len(<<>>) = 0 /\ Whole(<<>>, 0)
  BY DEF AllBody, Whole, Settled, LastReq
<1>5. Quieted(Accepted(c), <<>>, <<>>, 0, <<>>)
  BY <1>2, <1>4 DEF Quieted
<1>6. Talk(Accepted(c), <<>>, <<>>, 0, <<>>)
  BY <1>2, <1>5 DEF Talk
<1>7. \A job \in Jobs : job.conn # c
  BY JobsTyped DEF Conv, Work, SlotKept, Inv, Layout, Fresh
<1>8. (\A i \in DOMAIN inbox : inbox[i] \in Jobs) /\ (worker # Idle => worker.job \in Jobs)
  BY DEF Jobs, ToSet
<1>9. TalkedTo(c)
  BY <1>1, <1>3, <1>6, <1>7, <1>8 DEF TalkedTo
<1>10. ASSUME NEW d \in Conns, d # c, net'[d] = "open" PROVE Undisturbed(d)
  BY <1>1, <1>10 DEF Undisturbed, Unchanged
<1>11. \A d \in Conns : net'[d] = "new" => net[d] = "new" /\ Unchanged(d)
  BY DEF Unchanged
<1>. QED
  BY <1>9, <1>10, <1>11, Frame

LEMMA ConnectTalk ==
  ASSUME Conv, NEW c \in Conns, Connect(c)
  PROVE  Converse' /\ UNCHANGED ghosts
<1>1. /\ net[c] = "new" /\ UNCHANGED <<ring, asked, owed, out, inbox, worker>> /\ UNCHANGED ghosts
  BY DEF Connect, client
<1>2. net \in [Conns -> {"new", "open", "closed", "forwarded"}] /\ slots \in [Slots -> GoodSlot]
  BY DEF Conv, Inv, Typed
<1>3. ASSUME NEW s \in Slots, s \in FreeSlots, slots' = [slots EXCEPT ![s] = Accepted(c)],
             net' = [net EXCEPT ![c] = "open"], ref' = [ref EXCEPT ![c] = s]
      PROVE  Converse'
  <2>1. slots'[s] = Accepted(c) /\ slots[s].conn = NoConn
    BY <1>2, <1>3 DEF FreeSlots
  <2>2. ASSUME NEW d \in Conns, d # c, net'[d] = "open"
        PROVE  net[d] = "open" /\ Alike(slots'[ref[d]], slots[ref[d]])
    <3>1. net[d] = "open"
      BY <1>2, <1>3, <2>2
    <3>2. ref[d] \in Slots /\ ref[d] # s
      BY <2>1, <3>1, OwnSlot DEF Conv
    <3>. QED
      BY <1>2, <1>3, <3>1, <3>2, SelfAlike
  <2>3. \A d \in Conns : net'[d] = "new" => net[d] = "new"
    BY <1>2, <1>3
  <2>. QED
    BY <1>1, <1>3, <2>1, <2>2, <2>3, ArrivesTalk
<1>4. CASE net' = [net EXCEPT ![c] = "closed"] /\ UNCHANGED <<ref, slots>>
  <2>1. \A d \in Conns : net'[d] = net[d] \/ net'[d] = "closed"
    BY <1>2, <1>4
  <2>. QED
    BY <1>1, <1>4, <2>1, SelfAlike, Closing
<1>. QED
  BY <1>1, <1>3, <1>4 DEF Connect, FirstFree

LEMMA ConnectBusyTalk ==
  ASSUME Conv, NEW c \in Conns, ConnectBusy(c)
  PROVE  Converse' /\ UNCHANGED ghosts
<1>1. /\ net[c] = "new" /\ UNCHANGED <<ring, asked, owed, out, inbox, worker>> /\ UNCHANGED ghosts
  BY DEF ConnectBusy, client
<1>2. net \in [Conns -> {"new", "open", "closed", "forwarded"}] /\ slots \in [Slots -> GoodSlot]
  BY DEF Conv, Inv, Typed
<1>3. PICK v \in Slots, s \in Slots :
        /\ s \in FreeSlots \cup {v}
        /\ slots' = [slots EXCEPT ![v] = Reset(NoConn), ![s] = Accepted(c)]
        /\ net' = Evicted(c, v) /\ ref' = [ref EXCEPT ![c] = s]
  BY DEF ConnectBusy, FirstFree
<1>4. /\ slots'[s] = Accepted(c)
      /\ \A r \in Slots : r # s /\ r # v => slots'[r] = slots[r]
  BY <1>2, <1>3
<1>5. s = v \/ slots[s].conn = NoConn
  BY <1>3 DEF FreeSlots
<1>6. ASSUME NEW d \in Conns, d # c, net'[d] = "open"
      PROVE  net[d] = "open" /\ Alike(slots'[ref[d]], slots[ref[d]])
  <2>1. net[d] = "open" /\ d # slots[v].conn
    BY <1>3, <1>6 DEF Evicted
  <2>2. ref[d] \in Slots /\ ref[d] # v /\ ref[d] # s
    BY <1>5, <2>1, OwnSlot DEF Conv
  <2>. QED
    BY <1>4, <2>1, <2>2, SelfAlike
<1>7. \A d \in Conns : net'[d] = "new" => net[d] = "new"
  BY <1>3 DEF Evicted
<1>. QED
  BY <1>1, <1>3, <1>4, <1>6, <1>7, ArrivesTalk

-----------------------------------------------------------------------------
(* The clients send. *)

\* A client that has an answer to everything, or has still to send body tokens,
\* has nothing with the worker but a job that is done.
LEMMA SendBodyTalk ==
  ASSUME Conv, NEW c \in Conns, SendBodyToken(c)
  PROVE  Converse' /\ UNCHANGED ghosts
<1> DEFINE m == [req |-> Len(asked[c]), part |-> "body"]
           v == Append(ring[c], m)
           x == slots[ref[c]]
<1>1. /\ net[c] \in {"open", "forwarded"} /\ owed[c] > 0 /\ owed' = [owed EXCEPT ![c] = @ - 1]
      /\ ring' = [ring EXCEPT ![c] = v]
      /\ UNCHANGED <<net, ref, asked, out, slots, inbox, worker>> /\ UNCHANGED ghosts
  BY DEF SendBodyToken, conns
<1>2. /\ ring \in [Conns -> Seq(Token)] /\ owed \in [Conns -> 0 .. BodyLen] /\ owed[c] \in Nat
      /\ asked[c] \in Seq(Kinds) /\ Len(asked[c]) > 0 /\ Len(asked[c]) <= MaxReq
  BY <1>1, SlotsAssumption DEF Conv, Inv, Typed
<1>3. m \in Token /\ m.part = "body"
  BY <1>2, SlotsAssumption DEF Token
<1> HIDE DEF m
<1>4. /\ Len(v) = Len(ring[c]) + 1 /\ (AllBody(ring[c]) => AllBody(v))
      /\ \A k, r : HeadAt(ring[c], k, r) => HeadAt(v, k, r)
  BY <1>2, <1>3, TokenSent
<1> HIDE DEF v
<1>5. ring'[c] = v /\ owed'[c] = owed[c] - 1
      /\ \A d \in Conns : d # c => ring'[d] = ring[d] /\ owed'[d] = owed[d]
  BY <1>1, <1>2
<1>6. Len(v) + owed'[c] = Len(ring[c]) + owed[c] /\ owed'[c] \in Nat
  <2> DEFINE l == Len(ring[c])
             o == owed[c]
  <2>1. l \in Nat /\ o \in Nat /\ Len(v) = l + 1 /\ owed'[c] = o - 1 /\ o > 0
    BY <1>1, <1>2, <1>4, <1>5
  <2> HIDE DEF l, o
  <2>2. Len(v) + owed'[c] = l + o /\ owed'[c] \in Nat
    BY <2>1
  <2>. QED
    BY <2>2 DEF l, o
<1>7. /\ Quieted(x, ring[c], asked[c], owed[c], out[c]) => Quieted(x, v, asked[c], owed'[c], out[c])
      /\ Asking(x, ring[c], asked[c], owed[c], out[c]) => Asking(x, v, asked[c], owed'[c], out[c])
      /\ Answering(x, ring[c], asked[c], owed[c], out[c]) => Answering(x, v, asked[c], owed'[c], out[c])
  <2>1. Quieted(x, ring[c], asked[c], owed[c], out[c]) => Quieted(x, v, asked[c], owed'[c], out[c])
    BY <1>4, <1>6 DEF Quieted
  <2>2. Asking(x, ring[c], asked[c], owed[c], out[c]) => Asking(x, v, asked[c], owed'[c], out[c])
    BY <1>4, <1>6 DEF Asking
  <2>3. Answering(x, ring[c], asked[c], owed[c], out[c]) => Answering(x, v, asked[c], owed'[c], out[c])
    BY <1>4, <1>6 DEF Answering
  <2>. QED
    BY <2>1, <2>2, <2>3
<1> HIDE DEF x
<1>8. ASSUME net[c] = "open" PROVE TalkedTo(c)
  <2>1. Talk(x, ring[c], asked[c], owed[c], out[c])
    BY <1>8 DEF Conv, Converse, Talking, OpenConns, x
  <2>2. Talk(x, v, asked[c], owed'[c], out[c])
    BY <1>7, <2>1 DEF Talk
  <2>3. \A i \in DOMAIN inbox : inbox[i].conn # c
    BY <1>1, <1>8 DEF Conv, Converse, Waiting, Pending
  <2>4. ASSUME worker # Idle, worker.job.conn = c
        PROVE  worker.phase = "done" /\ Done(c)'
    <3>1. worker.phase \in {"head", "body", "done"}
      BY <2>4, WorkerJob DEF Conv
    <3>2. worker.phase = "done" /\ Done(c)
      <4>1. owed[c] # 0
        BY <1>1, <1>2
      <4>2. ~Pending(c, worker.job.req) /\ ~Streaming(c, worker.job.req)
        BY <4>1 DEF Pending, Streaming
      <4>. QED
        BY <1>8, <2>4, <3>1, <4>2 DEF Conv, Converse, Working
    <3>3. \/ Quieted(x, v, asked[c], owed'[c], out[c])
          \/ Asking(x, v, asked[c], owed'[c], out[c])
      BY <1>7, <3>2 DEF Done, x
    <3>4. Done(c)'
      BY <1>1, <1>5, <3>3 DEF Done, x
    <3>. QED
      BY <3>2, <3>4
  <2>5. Talk(slots[ref[c]], ring[c], asked[c], owed[c], out[c])'
    BY <1>1, <1>5, <2>2 DEF x
  <2>. QED
    BY <2>3, <2>4, <2>5 DEF TalkedTo
<1>9. ASSUME NEW d \in Conns, net'[d] = "open", d # c PROVE Undisturbed(d)
  BY <1>1, <1>5, <1>9, SelfAlike DEF Undisturbed, Unchanged
<1>10. ASSUME NEW d \in Conns, net'[d] = "new" PROVE net[d] = "new" /\ Unchanged(d)
  BY <1>1, <1>5, <1>10 DEF Unchanged
<1>. QED
  BY <1>1, <1>8, <1>9, <1>10, Frame

\* A request answered is a request of which the last piece is written.
LEMMA NothingAwaited ==
  ASSUME NEW n \in Nat, NEW w \in Seq(Piece), WholeOut(w), Counted(w),
         Cardinality({i \in DOMAIN w : Complete(w[i])}) = n
  PROVE  /\ ~Whole(w, n - 1)
         /\ ~(~Settled(w) /\ LastReq(w) = n)
BY DEF Counted, Whole

LEMMA SendHeadTalk ==
  ASSUME Conv, ~Pipelining, NEW c \in Conns, NEW k \in Kinds, SendHead(c, k)
  PROVE  Converse' /\ UNCHANGED ghosts
<1> DEFINE n == Len(asked[c])
           m == [req |-> n + 1, part |-> "head"]
           v == Append(ring[c], m)
           ks == Append(asked[c], k)
           x == slots[ref[c]]
           Answ == Quieted(x, ring[c], asked[c], owed[c], out[c])
<1>1. /\ net[c] = "open" /\ owed[c] = 0 /\ n < MaxReq /\ Answered(c) = n
      /\ owed' = [owed EXCEPT ![c] = BodyOf(k)]
      /\ asked' = [asked EXCEPT ![c] = ks] /\ ring' = [ring EXCEPT ![c] = v]
      /\ UNCHANGED <<net, ref, out, slots, inbox, worker>> /\ UNCHANGED ghosts
  BY DEF SendHead, conns
<1>2. /\ ring \in [Conns -> Seq(Token)] /\ owed \in [Conns -> 0 .. BodyLen]
      /\ asked \in [Conns -> Seq(Kinds)] /\ asked[c] \in Seq(Kinds) /\ ring[c] \in Seq(Token)
      /\ n \in Nat /\ out[c] \in Seq(Piece) /\ WholeOut(out[c]) /\ Counted(out[c])
  BY DEF Conv, Inv, Typed, OutTyped, Converse, Answers
<1>3. m \in Token /\ m.part = "head" /\ m.req = n + 1
  BY <1>1, <1>2, SlotsAssumption DEF Token
<1> HIDE DEF m
<1>4. Len(v) = Len(ring[c]) + 1 /\ (AllBody(ring[c]) => HeadAt(v, Len(ring[c]) + 1, n + 1))
  BY <1>2, <1>3, TokenSent
<1>5. Len(ks) = n + 1 /\ ks[Len(ks)] = k /\ Len(ks) > 0
  BY <1>2
<1>6. ~Whole(out[c], n - 1) /\ ~(~Settled(out[c]) /\ LastReq(out[c]) = n)
  BY <1>1, <1>2, NothingAwaited DEF Answered
<1> HIDE DEF v, ks, n
<1>7. /\ ring'[c] = v /\ owed'[c] = BodyOf(k) /\ asked'[c] = ks
      /\ \A d \in Conns : d # c => ring'[d] = ring[d] /\ owed'[d] = owed[d] /\ asked'[d] = asked[d]
  BY <1>1, <1>2
<1>8. Answ => Asking(x, v, ks, BodyOf(k), out[c])
  <2> SUFFICES ASSUME Answ PROVE Asking(x, v, ks, BodyOf(k), out[c])
    OBVIOUS
  <2> DEFINE l == Len(ring[c])
             b == BodyOf(k)
  <2>1. x.state = "reading" /\ AllBody(ring[c]) /\ x.skip = l + 0 /\ Whole(out[c], n)
    BY <1>1 DEF Quieted, n
  <2>2. l \in Nat /\ b \in Nat /\ Len(v) = l + 1
    BY <1>2, <1>4, BodyTyped
  <2>3. HeadAt(v, l + 1, n + 1)
    BY <1>4, <2>1
  <2> HIDE DEF l, b
  <2>4. x.skip = l /\ Len(v) + b = l + 1 + b /\ (n + 1) - 1 = n
    BY <1>2, <2>1, <2>2
  <2>5. Asking(x, v, ks, b, out[c])
    BY <1>5, <2>1, <2>3, <2>4 DEF Asking, b
  <2>. QED
    BY <2>5 DEF b
<1>9. \/ x.sending /\ x.skip = 0 /\ x.state = "reading"
      \/ ~x.sending /\ Answ
  <2>1. Talk(x, ring[c], asked[c], owed[c], out[c])
    BY <1>1 DEF Conv, Converse, Talking, OpenConns
  <2>2. /\ ~Asking(x, ring[c], asked[c], owed[c], out[c])
        /\ ~Answering(x, ring[c], asked[c], owed[c], out[c])
    BY <1>6 DEF Asking, Answering, n
  <2>. QED
    BY <2>1, <2>2 DEF Talk
<1>10. x.rbuf = <<>>
  BY <1>1 DEF Conv, Converse, Talking, OpenConns, Talk
<1>11. ASSUME worker # Idle, worker.job.conn = c
       PROVE  worker.phase = "done" /\ Answ
  <2>1. worker.phase \in {"head", "body", "done"}
    BY <1>11, WorkerJob DEF Conv
  <2>2. worker.phase = "done" /\ Done(c)
    <3>1. ~Pending(c, worker.job.req) /\ ~Streaming(c, worker.job.req)
      BY <1>6 DEF Pending, Streaming, n
    <3>. QED
      BY <1>1, <1>11, <2>1, <3>1 DEF Conv, Converse, Working
  <2>3. ~Asking(x, ring[c], asked[c], owed[c], out[c])
    BY <1>6 DEF Asking, n
  <2>. QED
    BY <2>2, <2>3 DEF Done
<1> HIDE DEF x, Answ
<1>12. TalkedTo(c)
  <2>1. Talk(x, v, ks, BodyOf(k), out[c])
    BY <1>8, <1>9, <1>10 DEF Talk
  <2>2. \A i \in DOMAIN inbox : inbox[i].conn # c
    BY <1>1, <1>6 DEF Conv, Converse, Waiting, Pending, n
  <2>3. ASSUME worker # Idle, worker.job.conn = c
        PROVE  worker.phase = "done" /\ Done(c)'
    <3>1. worker.phase = "done" /\ Asking(x, v, ks, BodyOf(k), out[c])
      BY <1>8, <1>11, <2>3
    <3>2. Done(c)'
      BY <1>1, <1>7, <3>1 DEF Done, x
    <3>. QED
      BY <3>1, <3>2
  <2>4. Talk(slots[ref[c]], ring[c], asked[c], owed[c], out[c])'
    BY <1>1, <1>7, <2>1 DEF x
  <2>. QED
    BY <2>2, <2>3, <2>4 DEF TalkedTo
<1>13. ASSUME NEW d \in Conns, net'[d] = "open", d # c PROVE Undisturbed(d)
  BY <1>1, <1>7, <1>13, SelfAlike DEF Undisturbed, Unchanged
<1>14. ASSUME NEW d \in Conns, net'[d] = "new" PROVE net[d] = "new" /\ Unchanged(d)
  BY <1>1, <1>7, <1>14 DEF Unchanged
<1>. QED
  BY <1>1, <1>12, <1>13, <1>14, Frame
-----------------------------------------------------------------------------
(* The worker. *)

\* Jobs are for different connections.
LEMMA JobsApart ==
  ASSUME Inv, Work
  PROVE  /\ \A i, j \in DOMAIN inbox : inbox[i].conn = inbox[j].conn => i = j
         /\ worker # Idle => \A i \in DOMAIN inbox : inbox[i].conn # worker.job.conn
         /\ \A i \in DOMAIN inbox : inbox[i].conn \in Conns /\ inbox[i].slot \in Slots
<1>1. ASSUME NEW a \in Jobs, NEW b \in Jobs, a.conn = b.conn PROVE a.slot = b.slot
  <2>1. /\ slots[a.slot].conn = a.conn /\ slots[b.slot].conn = b.conn
        /\ a.slot \in Slots /\ b.slot \in Slots /\ a.conn # NoConn
    BY JobsTyped DEF Work, SlotKept
  <2>. QED
    BY <1>1, <2>1 DEF Inv, Layout, Placed
<1>2. (\A i \in DOMAIN inbox : inbox[i] \in Jobs) /\ (worker # Idle => worker.job \in Jobs)
  BY DEF Jobs, ToSet
<1>3. \A i, j \in DOMAIN inbox : inbox[i].conn = inbox[j].conn => i = j
  BY <1>1, <1>2 DEF Work, OneJob
<1>4. worker # Idle => \A i \in DOMAIN inbox : inbox[i].conn # worker.job.conn
  BY <1>1, <1>2 DEF Work, OneJob
<1>. QED
  BY <1>2, <1>3, <1>4, JobsTyped

\* A step of the worker leaves the web task's part of the conversation alone.
LEMMA SlotOfJob ==
  ASSUME Conv, NEW job \in Jobs
  PROVE  /\ job.conn \in Conns /\ job.slot \in Slots /\ slots[job.slot].conn = job.conn
         /\ slots[job.slot].sending
         /\ net[job.conn] = "open" => ref[job.conn] = job.slot
<1>1. /\ job.conn \in Conns /\ job.slot \in Slots /\ slots[job.slot].conn = job.conn
      /\ slots[job.slot].sending
  BY JobsTyped DEF Conv, Work, SlotKept
<1>. QED
  BY <1>1, OwnSlot DEF Conv

LEMMA TakeTalk ==
  ASSUME Conv, WorkerTake
  PROVE  Converse' /\ UNCHANGED ghosts
<1>1. /\ worker = Idle /\ inbox # <<>> /\ inbox \in Seq(Job)
      /\ worker' = [phase |-> "head", job |-> Head(inbox)] /\ inbox' = Tail(inbox)
      /\ UNCHANGED <<net, ref, ring, asked, owed, out, slots>> /\ UNCHANGED ghosts
  BY DEF WorkerTake, conns, client, Conv, Inv, Typed
<1>2. /\ 1 \in DOMAIN inbox /\ Head(inbox) = inbox[1]
      /\ \A i \in DOMAIN inbox' : i + 1 \in DOMAIN inbox /\ inbox'[i] = inbox[i + 1]
  BY <1>1
<1>3. worker'.phase = "head" /\ worker'.job = inbox[1]
  BY <1>1, <1>2
<1>4. Waiting'
  BY <1>1, <1>2 DEF Conv, Converse, Waiting, Pending
<1>5. Working'
  <2>1. net[inbox[1].conn] = "open" => Pending(inbox[1].conn, inbox[1].req)
    BY <1>2 DEF Conv, Converse, Waiting
  <2>. QED
    BY <1>1, <1>3, <2>1 DEF Working, Pending
<1>6. Unused' /\ Talking' /\ Answers'
  BY <1>1 DEF Conv, Converse, Unused, Talking, OpenConns, Answers
<1>. QED
  BY <1>1, <1>4, <1>5, <1>6 DEF Converse

\* The worker writes a piece.
LEMMA WriteTalk ==
  ASSUME Conv, WorkerHead(TRUE) \/ WorkerHead(FALSE) \/ WorkerBody
  PROVE  Converse' /\ UNCHANGED ghosts
<1> DEFINE c == worker.job.conn
           n == worker.job.req
           x == slots[ref[c]]
<1>1. /\ net[c] = "open" /\ worker.phase \in {"head", "body"}
      /\ UNCHANGED <<net, ref, ring, asked, owed, slots, inbox>> /\ UNCHANGED ghosts
  BY DEF WorkerHead, WorkerBody, conns, client
<1>2. worker # Idle /\ worker \in [phase : {"head", "body", "done"}, job : Job] /\ worker.job \in Jobs
  BY <1>1, WorkerJob DEF Conv, Jobs
<1>3. /\ c \in Conns /\ n \in 0 .. MaxReq /\ x.sending /\ worker.job.slot = ref[c]
  BY <1>1, <1>2, SlotOfJob DEF Job
<1>4. /\ out[c] \in Seq(Piece) /\ out \in [Conns -> Seq(Piece)] /\ WholeOut(out[c]) /\ Counted(out[c])
  BY <1>3 DEF Conv, OutTyped, Converse, Answers
<1>5. /\ ring[c] = <<>> /\ owed[c] = 0 /\ Len(asked[c]) > 0 /\ Len(asked[c]) = n
      /\ worker.phase = "head" => Whole(out[c], n - 1)
      /\ worker.phase = "body" => ~Settled(out[c]) /\ LastReq(out[c]) = n
  BY <1>1, <1>2 DEF Conv, Converse, Working, Pending, Streaming
<1>6. \E p \in Piece :
         /\ out' = [out EXCEPT ![c] = Append(@, p)] /\ p.req = n
         /\ \/ worker.phase = "head" /\ p.part = "head"
            \/ worker.phase = "body" /\ p.part = "body"
         /\ worker' = [worker EXCEPT !.phase = IF Complete(p) THEN "done" ELSE "body"]
  <2>1. CASE WorkerHead(TRUE)
    <3> DEFINE p == [req |-> n, part |-> "head", more |-> TRUE]
    <3>1. p \in Piece /\ ~Complete(p)
      BY <1>3 DEF Piece, Complete
    <3>. QED
      BY <2>1, <3>1 DEF WorkerHead
  <2>2. CASE WorkerHead(FALSE)
    <3> DEFINE p == [req |-> n, part |-> "head", more |-> FALSE]
    <3>1. p \in Piece /\ Complete(p)
      BY <1>3 DEF Piece, Complete
    <3>. QED
      BY <2>2, <3>1 DEF WorkerHead
  <2>3. CASE WorkerBody
    <3> DEFINE p == [req |-> n, part |-> "body", more |-> FALSE]
    <3>1. p \in Piece /\ Complete(p)
      BY <1>3 DEF Piece, Complete
    <3>. QED
      BY <2>3, <3>1 DEF WorkerBody
  <2>. QED
    BY <2>1, <2>2, <2>3
<1>7. PICK p \in Piece :
         /\ out' = [out EXCEPT ![c] = Append(@, p)] /\ p.req = n
         /\ \/ worker.phase = "head" /\ p.part = "head"
            \/ worker.phase = "body" /\ p.part = "body"
         /\ worker' = [worker EXCEPT !.phase = IF Complete(p) THEN "done" ELSE "body"]
  BY <1>6
<1> DEFINE v == Append(out[c], p)
<1> HIDE DEF c, n
<1>8. /\ out'[c] = v /\ \A d \in Conns : d # c => out'[d] = out[d]
      /\ worker' # Idle /\ worker'.job = worker.job
      /\ worker'.phase = IF Complete(p) THEN "done" ELSE "body"
  BY <1>2, <1>3, <1>4, <1>7 DEF Idle
<1>9. WholeOut(v) /\ Counted(v) /\ LastReq(v) = n /\ (Settled(v) <=> Complete(p))
  <2>1. CASE worker.phase = "head" /\ p.part = "head"
    <3>1. Settled(out[c]) /\ p.req = LastReq(out[c]) + 1
      <4>1. n \in Nat /\ LastReq(out[c]) = n - 1 /\ Settled(out[c])
        BY <1>3, <1>5, <2>1, SlotsAssumption DEF Whole
      <4>. QED
        BY <1>7, <4>1
    <3>. QED
      BY <1>4, <1>7, <2>1, <3>1, PieceWritten
  <2>2. CASE worker.phase = "body" /\ p.part = "body"
    <3>1. ~Settled(out[c]) /\ p.req = LastReq(out[c])
      BY <1>5, <1>7, <2>2
    <3>. QED
      BY <1>4, <1>7, <2>2, <3>1, PieceWritten
  <2>. QED
    BY <1>7, <2>1, <2>2
<1> HIDE DEF v
<1>10. Unused'
  BY <1>1, <1>8 DEF Conv, Converse, Unused
<1>11. Talk(x, ring[c], asked[c], owed[c], out[c])
  BY <1>1, <1>3 DEF Conv, Converse, Talking, OpenConns
<1>12. x.sending /\ x.rbuf = <<>> /\ x.skip = 0 /\ x.state = "reading"
  BY <1>3, <1>11 DEF Talk
<1>13. Talking'
  <2> SUFFICES ASSUME NEW d \in Conns, net'[d] = "open"
               PROVE  Talk(slots'[ref'[d]], ring'[d], asked'[d], owed'[d], out'[d])
    BY DEF Talking, OpenConns
  <2>1. CASE d = c
    BY <1>1, <1>12, <2>1 DEF Talk, x
  <2>2. CASE d # c
    BY <1>1, <1>8, <2>2 DEF Conv, Converse, Talking, OpenConns
  <2>. QED
    BY <2>1, <2>2
<1>14. Waiting'
  <2> SUFFICES ASSUME NEW i \in DOMAIN inbox, net[inbox[i].conn] = "open"
               PROVE  Pending(inbox[i].conn, inbox[i].req)'
    BY <1>1 DEF Waiting
  <2>1. inbox[i].conn # c /\ inbox[i].conn \in Conns
    BY <1>2, JobsApart DEF Conv, c
  <2>. QED
    BY <1>1, <1>8, <2>1 DEF Conv, Converse, Waiting, Pending
<1>15. Working'
  <2>1. CASE Complete(p)
    <3>1. Whole(v, n)
      BY <1>9, <2>1 DEF Whole
    <3>2. Quieted(x, ring[c], asked[c], owed[c], v)
      <4>1. AllBody(<<>>) /\ Len(<<>>) = 0
        BY DEF AllBody
      <4>. QED
        BY <1>5, <1>12, <3>1, <4>1 DEF Quieted
    <3>3. Done(c)'
      BY <1>1, <1>8, <3>2 DEF Done, x, c
    <3>. QED
      BY <1>8, <2>1, <3>3 DEF Working, c
  <2>2. CASE ~Complete(p)
    <3>1. ~Settled(v) /\ LastReq(v) = n
      BY <1>9, <2>2
    <3>2. Streaming(c, n)'
      BY <1>1, <1>5, <1>8, <3>1 DEF Streaming, c, n
    <3>. QED
      BY <1>8, <2>2, <3>2 DEF Working, c, n
  <2>. QED
    BY <2>1, <2>2
<1>16. Answers'
  BY <1>8, <1>9 DEF Conv, Converse, Answers
<1>. QED
  BY <1>1, <1>10, <1>13, <1>14, <1>15, <1>16 DEF Converse

LEMMA CutTalk ==
  ASSUME Conv, WorkerCut
  PROVE  Converse' /\ UNCHANGED ghosts
<1> DEFINE c == worker.job.conn
<1>1. /\ worker.phase \in {"head", "body"} /\ worker' = [worker EXCEPT !.phase = "done"]
      /\ net' = [net EXCEPT ![c] = "closed"]
      /\ UNCHANGED <<ref, ring, asked, owed, out, slots, inbox>> /\ UNCHANGED ghosts
  BY DEF WorkerCut, client
<1>2. worker # Idle /\ worker \in [phase : {"head", "body", "done"}, job : Job] /\ worker.job \in Jobs
  BY <1>1, WorkerJob DEF Conv, Jobs
<1>3. c \in Conns
  BY <1>2, SlotOfJob
<1>4. net \in [Conns -> {"new", "open", "closed", "forwarded"}]
  BY DEF Conv, Inv, Typed
<1>5. worker'.job.conn = c
  BY <1>1, <1>2
<1> HIDE DEF c
<1>6. net'[c] = "closed" /\ \A d \in Conns : d # c => net'[d] = net[d]
  BY <1>1, <1>3, <1>4
<1>7. Unused' /\ Answers'
  BY <1>1, <1>6 DEF Conv, Converse, Unused, Answers
<1>8. Talking'
  BY <1>1, <1>6 DEF Conv, Converse, Talking, OpenConns
<1>9. Waiting'
  <2>1. \A i \in DOMAIN inbox : inbox[i].conn \in Conns
    BY JobsApart DEF Conv
  <2>. QED
    BY <1>1, <1>6, <2>1 DEF Conv, Converse, Waiting, Pending
<1>10. Working'
  BY <1>5, <1>6 DEF Working
<1>. QED
  BY <1>1, <1>7, <1>8, <1>9, <1>10 DEF Converse

\* The slot the web task leaves behind goes on where the worker's answer ended.
LEMMA FileDoneTalk ==
  ASSUME Conv, FileDone
  PROVE  Converse' /\ UNCHANGED ghosts
<1> DEFINE s == worker.job.slot
           c == worker.job.conn
           x == slots[s]
           y == Freed(slots[s])
<1>1. /\ worker.phase = "done" /\ worker' = Idle
      /\ UNCHANGED <<ref, ring, asked, owed, out, inbox>> /\ UNCHANGED ghosts
  BY DEF FileDone, client
<1>2. worker # Idle /\ worker.job \in Jobs
  BY <1>1, WorkerJob DEF Conv, Jobs
<1>3. /\ c \in Conns /\ s \in Slots /\ x.conn = c /\ x.sending
      /\ net[c] = "open" => ref[c] = s
  BY <1>2, SlotOfJob
<1>4. /\ net \in [Conns -> {"new", "open", "closed", "forwarded"}] /\ slots \in [Slots -> GoodSlot]
  BY DEF Conv, Inv, Typed
<1>5. \/ /\ slots' = [slots EXCEPT ![s] = Reset(NoConn)]
         /\ net' = [d \in Conns |-> IF d = c THEN "closed" ELSE net[d]]
      \/ /\ slots' = [slots EXCEPT ![s] = y] /\ net' = net
  BY <1>3 DEF FileDone, Freed
<1>6. y.state = "reading" /\ y.skip = 0 /\ y.rbuf = <<>> /\ y.sending = FALSE
  BY DEF Freed, Reset
<1>7. \A d \in Conns : net'[d] = "open" => net[d] = "open"
  BY <1>4, <1>5
<1>8. \A d \in Conns : net'[d] = "new" => net[d] = "new"
  BY <1>4, <1>5
<1> HIDE DEF s, c, x, y
<1>9. \A r \in Slots : r # s => slots'[r] = slots[r]
  BY <1>4, <1>5
<1>10. Unused' /\ Answers'
  BY <1>1, <1>8 DEF Conv, Converse, Unused, Answers
<1>11. Waiting'
  <2>1. \A i \in DOMAIN inbox : inbox[i].conn \in Conns
    BY JobsApart DEF Conv
  <2>. QED
    BY <1>1, <1>7, <2>1 DEF Conv, Converse, Waiting, Pending
<1>12. Working'
  BY <1>1 DEF Working
<1>13. Talking'
  <2> SUFFICES ASSUME NEW d \in Conns, net'[d] = "open"
               PROVE  Talk(slots'[ref[d]], ring[d], asked[d], owed[d], out[d])
    BY <1>1 DEF Talking, OpenConns
  <2>1. net[d] = "open" /\ Talk(slots[ref[d]], ring[d], asked[d], owed[d], out[d])
    BY <1>7 DEF Conv, Converse, Talking, OpenConns
  <2>2. CASE d = c
    <3>1. slots'[s] = y /\ ref[c] = s
      BY <1>3, <1>4, <1>5, <2>1, <2>2
    <3>2. Talk(x, ring[c], asked[c], owed[c], out[c])
      BY <2>1, <2>2, <3>1 DEF x
    <3>3. x.skip = 0
      BY <1>3, <3>2 DEF Talk
    <3>4. Quieted(x, ring[c], asked[c], owed[c], out[c]) \/ Asking(x, ring[c], asked[c], owed[c], out[c])
      BY <1>1, <1>2, <2>1, <2>2, <3>1 DEF Conv, Converse, Working, Done, c, x
    <3>5. Quieted(y, ring[c], asked[c], owed[c], out[c]) \/ Asking(y, ring[c], asked[c], owed[c], out[c])
      BY <1>6, <3>3, <3>4 DEF Quieted, Asking
    <3>6. Talk(y, ring[c], asked[c], owed[c], out[c])
      BY <1>6, <3>5 DEF Talk
    <3>. QED
      BY <2>2, <3>1, <3>6
  <2>3. CASE d # c
    <3>1. ref[d] \in Slots /\ slots[ref[d]].conn = d
      BY <2>1, OwnSlot DEF Conv
    <3>2. ref[d] # s
      BY <1>3, <2>3, <3>1 DEF x
    <3>. QED
      BY <1>9, <2>1, <3>1, <3>2
  <2>. QED
    BY <2>2, <2>3
<1>. QED
  BY <1>1, <1>10, <1>11, <1>12, <1>13 DEF Converse
-----------------------------------------------------------------------------
(* A request is parsed. *)

\* The last request of the connection of slot s is served: buf and rest are what has
\* arrived of its body, need is its length.
Given(s, need, buf, rest) == LET c == slots[s].conn IN
  /\ Live(s) /\ slots[s].state = "reading" /\ slots[s].skip = 0 /\ Len(asked[c]) > 0
  /\ need = BodyOf(asked[c][Len(asked[c])])
  /\ AllBody(buf) /\ AllBody(rest)
  /\ Len(buf) + Len(rest) + owed[c] = need
  /\ Whole(out[c], Len(asked[c]) - 1)
  /\ UNCHANGED <<ref, asked, owed, worker>>

LEMMA GivenParts ==
  ASSUME Conv, NEW s \in Slots, NEW need \in Nat,
         NEW buf \in Seq(Token), NEW rest \in Seq(Token), Given(s, need, buf, rest)
  PROVE  LET c == slots[s].conn IN
         /\ need \in Nat /\ Len(buf) \in Nat /\ Len(rest) \in Nat /\ owed[c] \in Nat
         /\ Len(buf) + Len(rest) <= need /\ need - (Len(buf) + Len(rest)) = owed[c]
         /\ buf \in Seq(Token) /\ rest \in Seq(Token) /\ AllBody(buf) /\ AllBody(rest)
         /\ Len(asked[c]) \in 0 .. MaxReq /\ slots[s].rbuf = <<>>
<1> DEFINE c == slots[s].conn
           a == Len(buf)
           b == Len(rest)
           o == owed[c]
<1>1. need \in Nat /\ a \in Nat /\ b \in Nat /\ a + b + o = need /\ AllBody(buf) /\ AllBody(rest)
      /\ buf \in Seq(Token) /\ rest \in Seq(Token)
  BY BodyTyped DEF Given
<1>2. o \in Nat /\ slots[s].rbuf = <<>> /\ c \in Conns /\ asked[c] \in Seq(Kinds)
  BY LiveParts DEF Given, Talk
<1>3. Len(asked[c]) \in 0 .. MaxReq
  BY <1>2, SlotsAssumption DEF Conv, Inv, Typed
<1> HIDE DEF a, b, o
<1>4. a + b <= need /\ need - (a + b) = o
  BY <1>1, <1>2
<1>. QED
  BY <1>1, <1>2, <1>3, <1>4 DEF a, b, o

LEMMA HereTalk ==
  ASSUME Conv, NEW s \in Slots, NEW need \in Nat,
         NEW buf \in Seq(Token), NEW rest \in Seq(Token), Given(s, need, buf, rest),
         NEW g \in BOOLEAN, ServeHere(s, Len(asked[slots[s].conn]), g, need, buf, rest)
  PROVE  Converse' /\ (~swallowed => ~swallowed')
<1> DEFINE c == slots[s].conn
           r == Len(asked[c])
           d == Consumed(need, buf, rest)
           b == Buffered(slots[s], d.rbuf, d.skip)
           x == Responding(b, r, g)
<1>1. /\ c \in Conns /\ slots[s].conn = c /\ ~slots[s].sending /\ net[c] = "open"
      /\ ring \in [Conns -> Seq(Token)] /\ slots[s] \in GoodSlot
      /\ r > 0 /\ Whole(out[c], r - 1) /\ UNCHANGED <<ref, asked, owed, worker>>
  BY LiveParts DEF Given
<1>2. /\ d.rbuf = <<>> /\ d.ring = <<>> /\ d.skip = owed[c] /\ d.head = FALSE
      /\ owed[c] \in Nat
  <2>1. /\ need \in Nat /\ buf \in Seq(Token) /\ rest \in Seq(Token) /\ AllBody(buf) /\ AllBody(rest)
        /\ Len(buf) + Len(rest) <= need /\ need - (Len(buf) + Len(rest)) = owed[c]
        /\ owed[c] \in Nat
    BY GivenParts
  <2>. QED
    BY <2>1, ConsumedWhole
<1>3. /\ slots' = [slots EXCEPT ![s] = x] /\ ring' = [ring EXCEPT ![c] = d.ring]
      /\ swallowed' = (swallowed \/ d.head) /\ UNCHANGED <<net, out, inbox>>
  BY DEF ServeHere, Buffered
<1> HIDE DEF d
<1>4. b \in Slot /\ b.rbuf = <<>> /\ b.skip = owed[c] /\ b.sending = slots[s].sending
  <2>1. <<>> \in Seq(Token)
    OBVIOUS
  <2>. QED
    BY <1>1, <1>2, <2>1 DEF Buffered, GoodSlot, Slot
<1> HIDE DEF b
<1>5. /\ x.rbuf = <<>> /\ x.skip = owed[c] /\ x.sending = slots[s].sending /\ x.state = "send_hdr"
      /\ x.req = r
  BY <1>4 DEF Responding, Slot
<1> HIDE DEF x, c, r
<1>6. Talk(x, <<>>, asked[c], owed[c], out[c])
  <2>1. AllBody(<<>>) /\ Len(<<>>) + owed[c] = owed[c]
    BY <1>2 DEF AllBody
  <2>2. Answering(x, <<>>, asked[c], owed[c], out[c])
    BY <1>1, <1>5, <2>1 DEF Answering, r
  <2>. QED
    BY <1>1, <1>5, <2>2 DEF Talk
<1>7. ring'[c] = <<>> /\ \A e \in Conns : e # c => ring'[e] = ring[e]
  BY <1>1, <1>2, <1>3
<1>8. Talk(x, ring'[c], asked[c], owed[c], out'[c]) /\ out'[c] = out[c]
      /\ \A e \in Conns : e # c => ring'[e] = ring[e] /\ out'[e] = out[e]
  BY <1>3, <1>6, <1>7
<1>9. UNCHANGED <<net, ref, asked, owed, inbox, worker>> /\ slots' = [slots EXCEPT ![s] = x]
  BY <1>1, <1>3
<1>10. Converse'
  BY <1>1, <1>8, <1>9, Local
<1>. QED
  BY <1>2, <1>3, <1>10

LEMMA PutTalk ==
  ASSUME Conv, NEW s \in Slots, NEW need \in Nat,
         NEW buf \in Seq(Token), NEW rest \in Seq(Token), Given(s, need, buf, rest),
         ServePut(s, Len(asked[slots[s].conn]), need, buf, rest)
  PROVE  Converse' /\ (~swallowed => ~swallowed')
<1> DEFINE c == slots[s].conn
           r == Len(asked[c])
           left == need - Min({need, Len(buf)})
           b == Emptied(slots[s])
           x == IF left = 0 THEN Responding(b, r, FALSE) ELSE Awaiting(slots[s], r, left)
<1>1. /\ c \in Conns /\ slots[s].conn = c /\ ~slots[s].sending /\ net[c] = "open"
      /\ ring \in [Conns -> Seq(Token)] /\ slots[s] \in GoodSlot /\ slots[s].skip = 0
      /\ r > 0 /\ Whole(out[c], r - 1) /\ UNCHANGED <<ref, asked, owed, worker>>
      /\ AllBody(buf) /\ AllBody(rest)
  BY LiveParts DEF Given
<1>2. /\ slots' = [slots EXCEPT ![s] = x] /\ ring' = [ring EXCEPT ![c] = rest]
      /\ swallowed' = (swallowed \/ HasHead(buf)) /\ UNCHANGED <<net, out, inbox>>
  BY DEF ServePut, Emptied, Awaiting
<1>3. left = Len(rest) + owed[c] /\ left \in Nat
  <2> DEFINE i == Len(buf)
             j == Len(rest)
             o == owed[c]
  <2>1. i \in Nat /\ j \in Nat /\ o \in Nat /\ need \in Nat /\ i + j + o = need
    BY GivenParts DEF Given
  <2> HIDE DEF i, j, o
  <2>2. Min({need, i}) = i
    BY <2>1, MinIs
  <2>3. need - Min({need, i}) = j + o /\ j + o \in Nat
    BY <2>1, <2>2
  <2>. QED
    BY <2>3 DEF i, j, o
<1> HIDE DEF left
<1>4. b \in Slot /\ b.rbuf = <<>> /\ b.skip = 0 /\ b.sending = slots[s].sending
  <2>1. <<>> \in Seq(Token)
    OBVIOUS
  <2>. QED
    BY <1>1, <2>1 DEF Emptied, GoodSlot, Slot
<1>5. ~HasHead(buf)
  BY <1>1 DEF HasHead, AllBody
<1>6. Talk(x, rest, asked[c], owed[c], out[c])
  <2>1. CASE left = 0
    <3> HIDE DEF b
    <3>1. x.rbuf = <<>> /\ x.skip = 0 /\ x.sending = slots[s].sending /\ x.state = "send_hdr" /\ x.req = r
      BY <1>4, <2>1 DEF Responding, Slot
    <3> HIDE DEF x, r, c
    <3>2. Answering(x, rest, asked[c], owed[c], out[c])
      BY <1>1, <1>3, <2>1, <3>1 DEF Answering, r
    <3>. QED
      BY <1>1, <3>1, <3>2 DEF Talk
  <2>2. CASE left # 0
    <3>1. x = [b EXCEPT !.state = "recv_body", !.req = r, !.putRemain = left]
      BY <2>2 DEF Awaiting
    <3> HIDE DEF x, b
    <3>2. /\ x.rbuf = <<>> /\ x.skip = 0 /\ x.sending = slots[s].sending /\ x.state = "recv_body"
          /\ x.req = r /\ x.putRemain = left
      BY <1>4, <3>1 DEF Slot
    <3> HIDE DEF r, c
    <3>3. Answering(x, rest, asked[c], owed[c], out[c])
      BY <1>1, <1>3, <3>2 DEF Answering, r
    <3>. QED
      BY <1>1, <3>2, <3>3 DEF Talk
  <2>. QED
    BY <2>1, <2>2
<1> HIDE DEF x, c
<1>7. ring'[c] = rest /\ \A e \in Conns : e # c => ring'[e] = ring[e]
  BY <1>1, <1>2
<1>8. Converse'
  BY <1>1, <1>2, <1>6, <1>7, Local
<1>. QED
  BY <1>2, <1>5, <1>8

LEMMA ConsumedNothing ==
  /\ Consumed(0, <<>>, <<>>).rbuf = <<>> /\ Consumed(0, <<>>, <<>>).ring = <<>>
  /\ Consumed(0, <<>>, <<>>).skip = 0 /\ Consumed(0, <<>>, <<>>).head = FALSE
<1> DEFINE e == <<>>
           z == 0
<1>0. Len(e) = 0 /\ z = 0
  OBVIOUS
<1>1. z \in Nat /\ e \in Seq(Token) /\ AllBody(e)
  BY DEF AllBody
<1> HIDE DEF e, z
<1>3. Len(e) + Len(e) <= z /\ z - (Len(e) + Len(e)) = 0
  BY <1>0
<1>2. /\ Consumed(z, e, e).rbuf = <<>> /\ Consumed(z, e, e).ring = <<>>
      /\ Consumed(z, e, e).skip = 0 /\ Consumed(z, e, e).head = FALSE
  BY <1>1, <1>3, ConsumedWhole
<1>. QED
  BY <1>2 DEF e, z

\* Without a body a handler finds nothing to read, and nothing is left to drop.
LEMMA QueryTalk ==
  ASSUME Conv, NEW s \in Slots, NEW buf \in Seq(Token), NEW rest \in Seq(Token),
         Given(s, 0, buf, rest),
         ServeHandler(s, Len(asked[slots[s].conn]), 0, buf, rest)
  PROVE  Converse' /\ (~swallowed => ~swallowed')
<1> DEFINE c == slots[s].conn
           r == Len(asked[c])
           p == [req |-> r, part |-> "head", more |-> FALSE]
           v == Append(out[c], p)
           x == Buffered(slots[s], <<>>, 0)
<1>1. /\ c \in Conns /\ slots[s].conn = c /\ ~slots[s].sending /\ net[c] = "open"
      /\ ring \in [Conns -> Seq(Token)] /\ slots[s] \in GoodSlot /\ slots[s].state = "reading"
      /\ out \in [Conns -> Seq(Piece)] /\ out[c] \in Seq(Piece) /\ WholeOut(out[c]) /\ Counted(out[c])
      /\ r > 0 /\ Whole(out[c], r - 1) /\ UNCHANGED <<ref, asked, owed, worker>>
  BY LiveParts DEF Given
<1>2. owed[c] = 0 /\ Len(buf) = 0 /\ Len(rest) = 0 /\ r \in 0 .. MaxReq
  <2> DEFINE i == Len(buf)
             j == Len(rest)
             o == owed[c]
  <2>1. i \in Nat /\ j \in Nat /\ o \in Nat /\ i + j + o = 0 /\ r \in 0 .. MaxReq
    BY GivenParts DEF Given
  <2> HIDE DEF i, j, o
  <2>2. i = 0 /\ j = 0 /\ o = 0
    BY <2>1
  <2>. QED
    BY <2>1, <2>2 DEF i, j, o
<1>3. buf = <<>> /\ rest = <<>>
  BY <1>2 DEF Given
<1>4. Min({0, 0}) = 0 /\ 0 - 0 = 0
  BY MinIs
<1>5. Drop(<<>>, 0) = <<>> /\ SubSeq(<<>>, 1, 0) = <<>>
  <2>1. <<>> \in Seq(Token)
    OBVIOUS
  <2>. QED
    BY <2>1, DropAll
<1>6. Consumed(0, <<>>, <<>>).rbuf = <<>> /\ Consumed(0, <<>>, <<>>).ring = <<>>
      /\ Consumed(0, <<>>, <<>>).skip = 0 /\ Consumed(0, <<>>, <<>>).head = FALSE
  BY ConsumedNothing
<1>7. HasHead(<<>>) = FALSE
  BY DEF HasHead
<1>8. /\ slots' = [slots EXCEPT ![s] = x] /\ out' = [out EXCEPT ![c] = v]
      /\ ring' = [ring EXCEPT ![c] = <<>>] /\ swallowed' = (swallowed \/ FALSE)
      /\ UNCHANGED <<net, inbox>>
  <2> DEFINE left == 0 - Min({0, Len(buf)})
             read == Min({left, Len(rest)})
             d == Consumed(0, buf, Drop(rest, read))
  <2>1. left = 0
    BY <1>2, <1>4
  <2>2. read = 0
    BY <1>2, <1>4, <2>1
  <2>3. Drop(rest, read) = <<>> /\ SubSeq(rest, 1, read) = <<>>
    BY <1>3, <1>5, <2>2
  <2>4. d = Consumed(0, <<>>, <<>>)
    BY <1>3, <2>3
  <2>5. /\ slots' = [slots EXCEPT ![s].rbuf = d.rbuf, ![s].skip = d.skip]
        /\ out' = [out EXCEPT ![c] = v] /\ ring' = [ring EXCEPT ![c] = d.ring]
        /\ swallowed' = (swallowed \/ d.head \/ HasHead(SubSeq(rest, 1, read)))
        /\ UNCHANGED <<net, inbox>>
    BY DEF ServeHandler
  <2> HIDE DEF d, read
  <2>6. d.rbuf = <<>> /\ d.ring = <<>> /\ d.skip = 0 /\ d.head = FALSE
    BY <1>6, <2>4
  <2>7. slots' = [slots EXCEPT ![s] = x]
    BY <2>5, <2>6 DEF Buffered
  <2>. QED
    BY <1>7, <2>3, <2>5, <2>6, <2>7
<1>9. x.rbuf = <<>> /\ x.skip = 0 /\ x.sending = slots[s].sending /\ x.state = "reading"
  BY <1>1 DEF Buffered, GoodSlot, Slot
<1>10. p \in Piece /\ p.part = "head" /\ p.req = r /\ Complete(p)
  BY <1>2 DEF Piece, Complete
<1>11. Settled(out[c]) /\ r = LastReq(out[c]) + 1
  <2>1. Settled(out[c]) /\ LastReq(out[c]) = r - 1 /\ r \in Nat
    BY <1>1, <1>2, SlotsAssumption DEF Whole
  <2>. QED
    BY <2>1
<1> HIDE DEF p, x
<1>12. WholeOut(v) /\ Counted(v) /\ Whole(v, r)
  BY <1>1, <1>10, <1>11, PieceWritten DEF Whole
<1> HIDE DEF v
<1>13. Talk(x, <<>>, asked[c], owed[c], v)
  <2>1. AllBody(<<>>) /\ Len(<<>>) + 0 = 0
    BY DEF AllBody
  <2>2. Quieted(x, <<>>, asked[c], owed[c], v)
    BY <1>2, <1>9, <1>12, <2>1 DEF Quieted
  <2>. QED
    BY <1>1, <1>9, <2>2 DEF Talk
<1> HIDE DEF c
<1>14. /\ ring'[c] = <<>> /\ out'[c] = v
       /\ \A e \in Conns : e # c => ring'[e] = ring[e] /\ out'[e] = out[e]
  BY <1>1, <1>8
<1>15. Converse'
  BY <1>1, <1>8, <1>12, <1>13, <1>14, Local
<1>. QED
  BY <1>8, <1>15

LEMMA ForwardTalk ==
  ASSUME Conv, NEW s \in Slots, Live(s), NEW whole \in Seq(Token), NEW rest \in Seq(Token),
         Forward(s, whole, rest),
         UNCHANGED <<ref, asked, owed, worker>>
  PROVE  Converse' /\ UNCHANGED swallowed
<1> DEFINE c == slots[s].conn
<1>1. /\ c \in Conns /\ net[c] = "open" /\ net \in [Conns -> {"new", "open", "closed", "forwarded"}]
      /\ slots \in [Slots -> GoodSlot] /\ ring \in [Conns -> Seq(Token)]
  BY LiveParts DEF Conv, Inv, Typed
<1>2. /\ slots' = [slots EXCEPT ![s] = Vacated(slots[s])] /\ ring' = [ring EXCEPT ![c] = rest \o whole]
      /\ \E fate \in {"forwarded", "closed"} : net' = [net EXCEPT ![c] = fate]
      /\ UNCHANGED <<out, inbox, swallowed>>
  BY DEF Forward, Vacated
<1>3. net'[c] \in {"forwarded", "closed"} /\ \A d \in Conns : d # c => net'[d] = net[d]
  BY <1>1, <1>2
<1>4. \A d \in Conns : d # c => ring'[d] = ring[d]
  BY <1>1, <1>2
<1> HIDE DEF c
<1>5. ASSUME NEW d \in Conns, net'[d] = "open"
      PROVE  net[d] = "open" /\ ring'[d] = ring[d] /\ Alike(slots'[ref[d]], slots[ref[d]])
  <2>1. d # c /\ net[d] = "open"
    BY <1>3, <1>5
  <2>2. ref[d] \in Slots /\ ref[d] # s
    BY <2>1, OwnSlot DEF Conv, c
  <2>. QED
    BY <1>1, <1>2, <1>4, <2>1, <2>2, SelfAlike
<1>6. ASSUME NEW d \in Conns, net'[d] = "new" PROVE net[d] = "new" /\ ring'[d] = ring[d]
  BY <1>3, <1>4, <1>6
<1>. QED
  BY <1>2, <1>5, <1>6, Closing

\* The job is queued: the request is with the worker, and nothing of it is left.
LEMMA QueueTalk ==
  ASSUME Conv, NEW s \in Slots, NEW buf \in Seq(Token), NEW rest \in Seq(Token),
         NEW c \in Conns, slots[s].conn = c, NEW r \in Nat, Len(asked[c]) = r,
         Given(s, 0, buf, rest), ServeFile(s, r, 0, buf, rest),
         ~ServeHere(s, r, FALSE, 0, buf, rest)
  PROVE  Converse' /\ (~swallowed => ~swallowed')
<1> DEFINE job == [slot |-> s, conn |-> c, req |-> r]
           b == Buffered(slots[s], <<>>, 0)
           x == Handed(b)
<1>1. /\ c \in Conns /\ slots[s].conn = c /\ ~slots[s].sending /\ net[c] = "open" /\ ref[c] = s
      /\ ring \in [Conns -> Seq(Token)] /\ slots[s] \in GoodSlot /\ slots[s].state = "reading"
      /\ slots \in [Slots -> GoodSlot]
      /\ r > 0 /\ Whole(out[c], r - 1) /\ UNCHANGED <<ref, asked, owed, worker>>
  BY LiveParts DEF Given, Conv, Inv, Typed
<1>2. owed[c] = 0 /\ Len(buf) = 0 /\ Len(rest) = 0
  <2> DEFINE i == Len(buf)
             j == Len(rest)
             o == owed[c]
  <2>1. i \in Nat /\ j \in Nat /\ o \in Nat /\ i + j + o = 0
    BY GivenParts DEF Given
  <2> HIDE DEF i, j, o
  <2>2. i = 0 /\ j = 0 /\ o = 0
    BY <2>1
  <2>. QED
    BY <2>1, <2>2 DEF i, j, o
<1>3. buf = <<>> /\ rest = <<>>
  BY <1>2 DEF Given
<1>4. /\ inbox' = Append(inbox, job) /\ slots' = [slots EXCEPT ![s] = x]
      /\ ring' = [ring EXCEPT ![c] = <<>>] /\ swallowed' = (swallowed \/ FALSE)
      /\ UNCHANGED <<net, out>>
  <2> DEFINE d == Consumed(0, buf, rest)
  <2>1. d.rbuf = <<>> /\ d.ring = <<>> /\ d.skip = 0 /\ d.head = FALSE
    BY <1>3, ConsumedNothing
  <2>2. /\ inbox' = Append(inbox, job)
        /\ slots' = [slots EXCEPT ![s] = [[slots[s] EXCEPT !.rbuf = d.rbuf, !.skip = d.skip] EXCEPT !.sending = TRUE]]
        /\ ring' = [ring EXCEPT ![c] = d.ring] /\ swallowed' = (swallowed \/ d.head)
        /\ UNCHANGED <<net, out>>
    BY DEF ServeFile, ServeHere
  <2> HIDE DEF d
  <2>3. slots' = [slots EXCEPT ![s] = x]
    BY <2>1, <2>2 DEF Buffered, Handed
  <2>. QED
    BY <2>1, <2>2, <2>3
<1>5. x.rbuf = <<>> /\ x.skip = 0 /\ x.sending = TRUE /\ x.state = "reading"
  <2>1. <<>> \in Seq(Token)
    OBVIOUS
  <2>. QED
    BY <1>1, <2>1 DEF Handed, Buffered, GoodSlot, Slot
<1>6. job.conn = c /\ job.req = r
  OBVIOUS
<1>7. \A i \in DOMAIN inbox' : (i \in DOMAIN inbox /\ inbox'[i] = inbox[i]) \/ inbox'[i] = job
  <2>1. inbox \in Seq(Job)
    BY DEF Conv, Inv, Typed
  <2> HIDE DEF job
  <2>2. Len(inbox) \in Nat /\ DOMAIN inbox = 1 .. Len(inbox)
        /\ DOMAIN Append(inbox, job) = 1 .. Len(inbox) + 1
        /\ Append(inbox, job)[Len(inbox) + 1] = job
        /\ \A i \in 1 .. Len(inbox) : Append(inbox, job)[i] = inbox[i]
    BY <2>1
  <2>3. \A i \in 1 .. Len(inbox) + 1 : i \in 1 .. Len(inbox) \/ i = Len(inbox) + 1
    BY <2>2
  <2>. QED
    BY <1>4, <2>2, <2>3
<1> HIDE DEF x, job, b
<1>8. /\ slots'[s] = x /\ \A t \in Slots : t # s => slots'[t] = slots[t]
      /\ ring'[c] = <<>> /\ \A d \in Conns : d # c => ring'[d] = ring[d]
  BY <1>1, <1>4
<1>9. \A i \in DOMAIN inbox : inbox[i].conn # c /\ inbox[i].conn \in Conns
  BY <1>1, NoJobHere, JobsApart DEF Conv
<1>10. worker # Idle => worker.job.conn # c /\ worker.job.conn \in Conns
  <2>1. worker # Idle => worker.job \in Job
    BY WorkerJob DEF Conv
  <2>. QED
    BY <1>1, <2>1, NoJobHere DEF Conv, Job
<1>11. Unused'
  BY <1>1, <1>4, <1>8 DEF Conv, Converse, Unused
<1>12. Talking'
  <2> SUFFICES ASSUME NEW d \in Conns, net[d] = "open"
               PROVE  Talk(slots'[ref[d]], ring'[d], asked[d], owed[d], out[d])
    BY <1>1, <1>4 DEF Talking, OpenConns
  <2>1. CASE d = c
    <3>1. Talk(x, <<>>, asked[c], owed[c], out[c])
      BY <1>5 DEF Talk
    <3>. QED
      BY <1>1, <1>8, <2>1, <3>1
  <2>2. CASE d # c
    <3>1. ref[d] \in Slots /\ ref[d] # s
      BY <2>2, OwnSlot DEF Conv
    <3>. QED
      BY <1>8, <2>2, <3>1 DEF Conv, Converse, Talking, OpenConns
  <2>. QED
    BY <2>1, <2>2
<1>13. Pending(c, r)'
  BY <1>1, <1>2, <1>4, <1>8 DEF Pending
<1>14. Waiting'
  <2> SUFFICES ASSUME NEW i \in DOMAIN inbox', net[inbox'[i].conn] = "open"
               PROVE  Pending(inbox[i].conn, inbox[i].req)'
    BY <1>4 DEF Waiting
  <2>1. CASE inbox'[i] = job
    BY <1>6, <1>13, <2>1 DEF Pending
  <2>2. CASE i \in DOMAIN inbox /\ inbox'[i] = inbox[i]
    <3>1. Pending(inbox[i].conn, inbox[i].req) /\ inbox[i].conn \in Conns /\ inbox[i].conn # c
      BY <1>9, <2>2 DEF Conv, Converse, Waiting
    <3>. QED
      BY <1>1, <1>4, <1>8, <2>2, <3>1 DEF Pending
  <2>. QED
    BY <1>7, <2>1, <2>2
<1>15. Working'
  <2> DEFINE e == worker.job.conn
             n == worker.job.req
  <2> SUFFICES ASSUME worker # Idle, net[e] = "open"
               PROVE  CASE worker.phase = "head" -> Pending(e, n)'
                        [] worker.phase = "body" -> Streaming(e, n)'
                        [] worker.phase = "done" -> Done(e)'
    BY <1>1, <1>4 DEF Working
  <2>1. e \in Conns /\ e # c /\ worker.phase \in {"head", "body", "done"}
    BY <1>10, WorkerJob DEF Conv
  <2>2. ring'[e] = ring[e] /\ slots'[ref[e]] = slots[ref[e]]
    BY <1>8, <2>1, OwnSlot DEF Conv
  <2>3. CASE worker.phase = "head"
    BY <1>1, <1>4, <2>2, <2>3 DEF Conv, Converse, Working, Pending
  <2>4. CASE worker.phase = "body"
    BY <1>1, <1>4, <2>2, <2>4 DEF Conv, Converse, Working, Streaming
  <2>5. CASE worker.phase = "done"
    BY <1>1, <1>4, <2>2, <2>5 DEF Conv, Converse, Working, Done
  <2>. QED
    BY <2>1, <2>3, <2>4, <2>5
<1>16. Answers'
  BY <1>4 DEF Conv, Converse, Answers
<1>. QED
  BY <1>4, <1>11, <1>12, <1>14, <1>15, <1>16 DEF Converse

\* What a reading slot finds is the last request, from its head on.
LEMMA ReceiveGiven ==
  ASSUME Conv, NEW s \in Slots, Receive(s)
  PROVE  LET c    == slots[s].conn
             r    == Len(asked[c])
             kind == asked[c][r]
             need == BodyOf(kind)
         IN  /\ ~garbled => ~garbled'
             /\ \E buf, rest, whole \in Seq(Token) :
                  /\ Given(s, need, buf, rest) /\ kind \in Kinds
                  /\ \/ kind \in {"inline", "refused"} /\ \E g \in BOOLEAN : ServeHere(s, r, g, need, buf, rest)
                     \/ kind \in {"file", "unauth"} /\ ServeFile(s, r, need, buf, rest)
                     \/ kind = "put" /\ ServePut(s, r, need, buf, rest)
                     \/ kind \in {"handler", "query"} /\ ServeHandler(s, r, need, buf, rest)
                     \/ kind = "forward" /\ Forward(s, whole, rest)
<1> DEFINE c == slots[s].conn
           q == ring[c]
           r == Len(asked[c])
           kind == asked[c][r]
           need == BodyOf(kind)
<1>1. PICK n \in 1 .. Len(q) : Parse(s, slots[s].rbuf \o SubSeq(q, 1, n), Drop(q, n))
  BY ReceiveParts DEF Conv
<1>2. /\ Live(s) /\ slots[s].state = "reading" /\ slots[s].skip = 0
      /\ UNCHANGED <<ref, asked, owed, worker>>
  BY DEF Receive, client
<1>3. /\ c \in Conns /\ slots[s].sending = FALSE /\ q \in Seq(Token) /\ asked[c] \in Seq(Kinds)
      /\ owed[c] \in Nat /\ Talk(slots[s], q, asked[c], owed[c], out[c])
  BY <1>2, LiveParts
<1> DEFINE whole == <<>> \o SubSeq(q, 1, n)
           rest  == Drop(q, n)
           buf   == Drop(whole, 1)
<1>4. Asking(slots[s], q, asked[c], owed[c], out[c]) /\ slots[s].rbuf = <<>>
  <2>1. ~Answering(slots[s], q, asked[c], owed[c], out[c])
    BY <1>2 DEF Answering
  <2>2. ~Quieted(slots[s], q, asked[c], owed[c], out[c])
    <3> DEFINE l == Len(q)
               o == owed[c]
    <3>1. l \in Nat /\ o \in Nat /\ n \in 1 .. l
      BY <1>3
    <3> HIDE DEF l, o
    <3>2. l + o # 0
      BY <3>1
    <3>. QED
      BY <1>2, <3>2 DEF Quieted, l, o
  <2>. QED
    BY <1>2, <1>3, <2>1, <2>2 DEF Talk
<1>5. /\ HeadAt(q, 1, r) /\ r > 0 /\ Len(q) + owed[c] = 1 + need /\ Whole(out[c], r - 1)
  <2>1. 0 + 1 = 1
    OBVIOUS
  <2>. QED
    BY <1>2, <1>4, <2>1 DEF Asking
<1>6. kind \in Kinds
  <2>1. r \in 1 .. Len(asked[c])
    BY <1>3, <1>5
  <2>. QED
    BY <1>3, <2>1
<1>7. Parse(s, whole, rest)
  BY <1>1, <1>4
<1> HIDE DEF q, r, kind, need
<1>8. /\ whole \in Seq(Token) /\ 1 \in DOMAIN whole /\ whole[1].part = "head" /\ whole[1].req = r
      /\ \A e \in DOMAIN whole : whole[e].part = "head" => e = 1
      /\ buf \in Seq(Token) /\ AllBody(buf) /\ Len(buf) = n - 1
      /\ rest \in Seq(Token) /\ AllBody(rest) /\ Len(rest) = Len(q) - n
  <2>1. n \in 1 .. Len(q) /\ q \in Seq(Token) /\ HeadAt(q, 1, r)
    BY <1>3, <1>5
  <2>. QED
    BY <2>1, HeadTaken
<1>9. Given(s, need, buf, rest)
  <2> DEFINE i == Len(buf)
             j == Len(rest)
             l == Len(q)
             o == owed[c]
  <2>1. l \in Nat /\ o \in Nat /\ n \in 1 .. l /\ i = n - 1 /\ j = l - n /\ l + o = 1 + need
        /\ need \in Nat
    BY <1>3, <1>5, <1>8, BodyTyped DEF need
  <2> HIDE DEF i, j, l, o, buf, rest
  <2>2. i + j + o = need
    BY <2>1
  <2>3. Len(buf) + Len(rest) + owed[c] = need
    BY <2>2 DEF i, j, o
  <2>. QED
    BY <1>2, <1>5, <1>8, <2>3 DEF Given, need, r, kind
<1> HIDE DEF whole, buf, rest
<1>10. HasHead(whole)
  BY <1>8 DEF HasHead
<1>11. PICK e \in DOMAIN whole :
         /\ whole[e].part = "head"
         /\ garbled' = (garbled \/ e > 1)
         /\ LET rr   == whole[e].req
                kk   == IF e = 1 THEN asked[c][rr] ELSE "refused"
                nn   == BodyOf(asked[c][rr])
                bb   == Drop(whole, e)
            IN \/ kk = "inline"  /\ ServeHere(s, rr, TRUE, nn, bb, rest)
               \/ kk = "refused" /\ ServeHere(s, IF e = 1 THEN rr ELSE 0, FALSE, nn, bb, rest)
               \/ kk \in {"file", "unauth"} /\ ServeFile(s, rr, nn, bb, rest)
               \/ kk = "put"     /\ ServePut(s, rr, nn, bb, rest)
               \/ kk \in {"handler", "query"} /\ ServeHandler(s, rr, nn, bb, rest)
               \/ kk = "forward" /\ Forward(s, whole, rest)
  BY <1>7, <1>10 DEF Parse
<1>12. e = 1 /\ whole[e].req = r /\ asked[c][r] = kind /\ BodyOf(kind) = need /\ Drop(whole, 1) = buf
  BY <1>8, <1>11 DEF kind, need, buf
<1>13. \/ kind = "inline"  /\ ServeHere(s, r, TRUE, need, buf, rest)
       \/ kind = "refused" /\ ServeHere(s, r, FALSE, need, buf, rest)
       \/ kind \in {"file", "unauth"} /\ ServeFile(s, r, need, buf, rest)
       \/ kind = "put"     /\ ServePut(s, r, need, buf, rest)
       \/ kind \in {"handler", "query"} /\ ServeHandler(s, r, need, buf, rest)
       \/ kind = "forward" /\ Forward(s, whole, rest)
  BY <1>11, <1>12
<1>14. ~garbled => ~garbled'
  <2>1. ~(e > 1)
    BY <1>12
  <2>2. garbled' = (garbled \/ e > 1)
    BY <1>11
  <2>. QED
    BY <2>1, <2>2
<1>. QED
  BY <1>6, <1>8, <1>9, <1>13, <1>14 DEF r, kind, need

LEMMA ReceiveTalk ==
  ASSUME Conv, Framed, NEW s \in Slots, Receive(s)
  PROVE  Converse' /\ (~garbled => ~garbled') /\ (~swallowed => ~swallowed')
<1> DEFINE c    == slots[s].conn
           r    == Len(asked[c])
           kind == asked[c][r]
           need == BodyOf(kind)
<1>1. ~garbled => ~garbled'
  BY ReceiveGiven
<1>2. PICK buf \in Seq(Token), rest \in Seq(Token), whole \in Seq(Token) :
        /\ Given(s, need, buf, rest) /\ kind \in Kinds
        /\ \/ kind \in {"inline", "refused"} /\ \E g \in BOOLEAN : ServeHere(s, r, g, need, buf, rest)
           \/ kind \in {"file", "unauth"} /\ ServeFile(s, r, need, buf, rest)
           \/ kind = "put" /\ ServePut(s, r, need, buf, rest)
           \/ kind \in {"handler", "query"} /\ ServeHandler(s, r, need, buf, rest)
           \/ kind = "forward" /\ Forward(s, whole, rest)
  BY ReceiveGiven
<1>3. kind # "handler" /\ kind # "unauth"
  BY <1>2 DEF Framed
<1>4. need \in Nat /\ (kind \in {"file", "query"} => need = 0)
  BY BodyTyped DEF BodyOf
<1> HIDE DEF kind, need
<1>5. ASSUME NEW g \in BOOLEAN, ServeHere(s, r, g, need, buf, rest)
      PROVE  Converse' /\ (~swallowed => ~swallowed')
  BY <1>2, <1>4, <1>5, HereTalk
<1>6. CASE kind = "put" /\ ServePut(s, r, need, buf, rest)
  BY <1>2, <1>4, <1>6, <1>1, PutTalk
<1>7. CASE kind = "query" /\ ServeHandler(s, r, need, buf, rest)
  <2>1. need = 0
    BY <1>4, <1>7
  <2>2. Given(s, 0, buf, rest) /\ ServeHandler(s, r, 0, buf, rest)
    BY <1>2, <1>7, <2>1
  <2>. QED
    BY <2>2, <1>1, QueryTalk
<1>8. CASE kind = "forward" /\ Forward(s, whole, rest)
  BY <1>2, <1>8, <1>1, ForwardTalk DEF Given
<1>9. CASE kind = "file" /\ ServeFile(s, r, need, buf, rest)
  <2>1. need = 0
    BY <1>4, <1>9
  <2>2. Given(s, 0, buf, rest) /\ ServeFile(s, r, 0, buf, rest)
    BY <1>2, <1>9, <2>1
  <2>3. CASE ~ServeHere(s, r, FALSE, 0, buf, rest)
    <3>1. c \in Conns /\ asked[c] \in Seq(Kinds)
      BY <1>2, LiveParts DEF Given
    <3>2. r \in Nat
      BY <3>1
    <3>. QED
      BY <2>2, <2>3, <3>1, <3>2, <1>1, QueueTalk
  <2>4. CASE ServeHere(s, r, FALSE, 0, buf, rest)
    BY <2>2, <2>4, <1>1, HereTalk
  <2>. QED
    BY <2>3, <2>4
<1>. QED
  BY <1>1, <1>2, <1>3, <1>5, <1>6, <1>7, <1>8, <1>9
-----------------------------------------------------------------------------
(* The invariants. *)

LEMMA InitTyping == Init => Aged /\ OutTyped /\ Flags
<1> SUFFICES ASSUME Init PROVE Aged /\ OutTyped /\ Flags
  OBVIOUS
<1>1. age = [s \in 1 .. NSlots |-> s] /\ NSlots \in Nat
  BY SlotsAssumption DEF Init, Slots
<1>2. age \in Seq(Slots) /\ Len(age) = NSlots
  BY <1>1 DEF Slots
<1>3. \A s \in Slots : \E i \in 1 .. NSlots : age[i] = s
  BY <1>1 DEF Slots
<1>4. Aged
  BY <1>2, <1>3 DEF Aged
<1>5. \A c \in Conns : <<>> \in Seq(Piece)
  OBVIOUS
<1>. QED
  BY <1>4, <1>5 DEF Init, OutTyped, Flags

LEMMA FlagsKeep ==
  ASSUME Flags, [Next]_vars
  PROVE  Flags'
<1>1. CASE UNCHANGED ghosts
  BY <1>1 DEF Flags, ghosts
<1>2. ASSUME ClientStep \/ FileDone \/ WifiDown \/ WorkerStep \/ UNCHANGED vars
      PROVE  UNCHANGED ghosts
  BY <1>2 DEF ClientStep, SendHead, SendBodyToken, HangUp, FileDone, WifiDown, WorkerStep,
              WorkerTake, WorkerHead, WorkerBody, WorkerCut, vars, ghosts
<1>3. ASSUME NEW c \in Conns, Connect(c) \/ ConnectBusy(c) \/ OnDisconnect(c)
      PROVE  UNCHANGED ghosts
  BY <1>3 DEF Connect, ConnectBusy, OnDisconnect
<1>4. ASSUME NEW s \in Slots, SweepGone(s) \/ Expire(s) \/ SendHdr(s) \/ SendBody(s)
      PROVE  UNCHANGED ghosts
  BY <1>4 DEF SweepGone, Expire, SendHdr, SendBody
<1>5. ASSUME NEW s \in Slots, SkipBody(s) \/ RecvBody(s)
      PROVE  Flags'
  <2>1. garbled' = garbled
    BY <1>5 DEF SkipBody, RecvBody
  <2>2. swallowed' \in BOOLEAN
    BY <1>5 DEF SkipBody, RecvBody
  <2>. QED
    BY <2>1, <2>2 DEF Flags
<1>6. ASSUME NEW s \in Slots, Receive(s) PROVE Flags'
  <2>1. PICK whole, rest : Parse(s, whole, rest)
    BY <1>6 DEF Receive
  <2>2. garbled' \in BOOLEAN
    BY <2>1 DEF Parse, ghosts, Flags
  <2>3. swallowed' \in BOOLEAN
    BY <2>1 DEF Parse, ServeHere, ServeFile, ServePut, ServeHandler, Forward, ghosts, Flags
  <2>. QED
    BY <2>2, <2>3 DEF Flags
<1>. QED
  BY <1>1, <1>2, <1>3, <1>4, <1>5, <1>6 DEF Next, WebStep

LEMMA TypeHolds ==
  ASSUME Inv, Aged, OutTyped, Flags
  PROVE  TypeOK
<1>1. \A s \in Slots : slots[s] \in Slot
  BY DEF Inv, Typed, GoodSlot
<1>2. slots \in [Slots -> Slot]
  BY <1>1 DEF Inv, Typed
<1>3. ToSet(age) = Slots
  <2>1. DOMAIN age = 1 .. NSlots /\ \A i \in 1 .. NSlots : age[i] \in Slots
    BY SlotsAssumption DEF Aged
  <2>. QED
    BY <2>1 DEF Aged, ToSet
<1>. QED
  BY <1>2, <1>3 DEF Inv, Typed, Aged, OutTyped, Flags, TypeOK

LEMMA InitConv == Init => Conv
<1> SUFFICES ASSUME Init PROVE Conv
  OBVIOUS
<1>1. Inv /\ Work /\ OutTyped
  BY InitInv, InitTyping
<1>2. Unused
  BY DEF Init, Unused
<1>3. Talking
  BY DEF Init, Talking, OpenConns
<1>4. Waiting
  <2>1. DOMAIN inbox = {}
    BY DEF Init
  <2>. QED
    BY <2>1 DEF Waiting
<1>5. Working
  BY DEF Init, Working
<1>6. Answers
  <2>1. WholeOut(<<>>)
    BY DEF WholeOut
  <2>2. {i \in DOMAIN <<>> : Complete(<<>>[i])} = {}
    OBVIOUS
  <2>3. Cardinality({i \in DOMAIN <<>> : Complete(<<>>[i])}) = 0
    BY <2>2, FS_EmptySet
  <2>4. Counted(<<>>)
    BY <2>3 DEF Counted, Settled, LastReq
  <2>. QED
    BY <2>1, <2>4 DEF Init, Answers
<1>. QED
  BY <1>1, <1>2, <1>3, <1>4, <1>5, <1>6 DEF Conv, Converse

LEMMA NextTalk ==
  ASSUME Conv, Framed, [Next]_vars
  PROVE  Converse' /\ (~garbled => ~garbled') /\ (~swallowed => ~swallowed')
<1>1. CASE Converse' /\ UNCHANGED ghosts
  BY <1>1 DEF ghosts
<1>2. CASE ClientStep
  <2>1. ASSUME NEW c \in Conns, NEW k \in Kinds, SendHead(c, k) PROVE Converse' /\ UNCHANGED ghosts
    BY <2>1, SendHeadTalk DEF Framed
  <2>2. ASSUME NEW c \in Conns, SendBodyToken(c) PROVE Converse' /\ UNCHANGED ghosts
    BY <2>2, SendBodyTalk
  <2>3. ASSUME NEW c \in Conns, HangUp(c) PROVE Converse' /\ UNCHANGED ghosts
    BY <2>3, HangUpTalk
  <2>. QED
    BY <1>1, <1>2, <2>1, <2>2, <2>3 DEF ClientStep
<1>3. ASSUME NEW c \in Conns, Connect(c) \/ ConnectBusy(c) \/ OnDisconnect(c)
      PROVE  Converse' /\ UNCHANGED ghosts
  BY <1>3, ConnectTalk, ConnectBusyTalk, DisconnectTalk
<1>4. ASSUME NEW s \in Slots, SweepGone(s) \/ Expire(s) \/ SendHdr(s) \/ SendBody(s)
      PROVE  Converse' /\ UNCHANGED ghosts
  BY <1>4, EndsTalk, AnswersTalk
<1>5. ASSUME NEW s \in Slots, SkipBody(s) \/ RecvBody(s)
      PROVE  Converse' /\ (~garbled => ~garbled') /\ (~swallowed => ~swallowed')
  BY <1>5, ReadsTalk
<1>6. ASSUME NEW s \in Slots, Receive(s)
      PROVE  Converse' /\ (~garbled => ~garbled') /\ (~swallowed => ~swallowed')
  BY <1>6, ReceiveTalk
<1>7. CASE WebStep
  <2>1. FileDone \/ WifiDown => Converse' /\ UNCHANGED ghosts
    BY FileDoneTalk, WifiDownTalk
  <2>. QED
    BY <1>1, <1>3, <1>4, <1>5, <1>6, <1>7, <2>1 DEF WebStep
<1>8. CASE WorkerStep
  BY <1>1, <1>8, TakeTalk, WriteTalk, CutTalk DEF WorkerStep
<1>9. CASE UNCHANGED vars
  <2>1. UNCHANGED ghosts
    BY <1>9 DEF vars, ghosts
  <2>2. Converse'
    BY <1>9 DEF vars, Conv, Converse, Unused, Talking, OpenConns, Waiting, Working, Answers,
                Pending, Streaming, Done
  <2>. QED
    BY <1>1, <2>1, <2>2
<1>. QED
  BY <1>2, <1>7, <1>8, <1>9 DEF Next

LEMMA NextConv ==
  ASSUME Conv, Framed, [Next]_vars
  PROVE  Conv' /\ (FramingKept => FramingKept')
<1>1. Inv' /\ Work'
  BY NextKeeps DEF Conv, Framed
<1>2. OutTyped'
  BY OutKeeps DEF Conv
<1>. QED
  BY <1>1, <1>2, NextTalk DEF Conv, FramingKept

\* What was asked and is not answered is the last request, and it is where Talk and
\* the worker's part of the conversation say.
LEMMA NothingLost ==
  ASSUME Conv, NoSlotStranded
  PROVE  NoRequestLost
<1> SUFFICES ASSUME NEW c \in OpenConns, NEW r \in Answered(c) + 1 .. Len(asked[c])
             PROVE  \/ [req |-> r, part |-> "head"] \in ToSet(ring[c])
                    \/ \E t \in Slots :
                          /\ slots[t].conn = c
                          /\ \/ slots[t].req = r
                             \/ [req |-> r, part |-> "head"] \in ToSet(slots[t].rbuf)
                    \/ \E job \in Jobs : job.conn = c /\ job.req = r
  BY Zenon DEF NoRequestLost
<1> DEFINE n == Len(asked[c])
           s == ref[c]
           w == out[c]
<1>1. c \in Conns /\ net[c] = "open" /\ s \in Slots /\ slots[s].conn = c
  BY OwnSlot DEF Conv, OpenConns
<1>2. /\ asked[c] \in Seq(Kinds) /\ n \in Nat /\ ring[c] \in Seq(Token) /\ w \in Seq(Piece)
      /\ Counted(w)
  BY <1>1 DEF Conv, Inv, Typed, OutTyped, Converse, Answers
<1>3. Answered(c) = IF Settled(w) THEN LastReq(w) ELSE LastReq(w) - 1
  BY <1>2 DEF Answered, Counted
<1>4. LastReq(w) \in Nat
  <2>1. CASE w = <<>>
    BY <2>1 DEF LastReq
  <2>2. CASE w # <<>>
    <3>1. w[Len(w)] \in Piece
      BY <1>2, <2>2
    <3>. QED
      BY <2>2, <3>1, SlotsAssumption DEF LastReq, Piece
  <2>. QED
    BY <2>1, <2>2
<1>5. Talk(slots[s], ring[c], asked[c], owed[c], w)
  BY <1>1 DEF Conv, Converse, Talking, OpenConns
<1> HIDE DEF n, s, w
<1>6. ~Whole(w, n)
  <2>1. Whole(w, n) => Answered(c) = n
    BY <1>3 DEF Whole
  <2>. QED
    BY <1>2, <2>1 DEF n
<1>7. (Whole(w, n - 1) \/ (~Settled(w) /\ LastReq(w) = n)) => r = n
  <2>1. Whole(w, n - 1) \/ (~Settled(w) /\ LastReq(w) = n) => Answered(c) = n - 1
    BY <1>3 DEF Whole
  <2>. QED
    BY <1>2, <2>1 DEF n
<1>8. ~Quieted(slots[s], ring[c], asked[c], owed[c], w)
  BY <1>6 DEF Quieted, n
<1>9. CASE Asking(slots[s], ring[c], asked[c], owed[c], w)
  <2>1. HeadAt(ring[c], slots[s].skip + 1, n) /\ Whole(w, n - 1)
    BY <1>9 DEF Asking, n
  <2>2. r = n
    BY <1>7, <2>1
  <2>3. PICK i \in DOMAIN ring[c] : ring[c][i].part = "head" /\ ring[c][i].req = n
    BY <2>1 DEF HeadAt
  <2>4. ring[c][i] = [req |-> r, part |-> "head"]
    <3>1. ring[c][i] \in Token
      BY <1>2
    <3>. QED
      BY <2>2, <2>3, <3>1 DEF Token
  <2>. QED
    BY <2>4 DEF ToSet
<1>10. CASE Answering(slots[s], ring[c], asked[c], owed[c], w)
  <2>1. slots[s].req = n /\ (Whole(w, n - 1) \/ (~Settled(w) /\ LastReq(w) = n))
    BY <1>10 DEF Answering, n
  <2>. QED
    BY <1>1, <1>7, <2>1
<1>11. CASE slots[s].sending
  <2>1. PICK job \in Jobs : job.slot = s
    BY <1>1, <1>11 DEF NoSlotStranded
  <2>2. job.conn = c
    BY <1>1, <2>1 DEF Conv, Work, SlotKept
  <2>3. CASE Pending(c, job.req) \/ Streaming(c, job.req)
    <3>1. job.req = n /\ (Whole(w, n - 1) \/ (~Settled(w) /\ LastReq(w) = n))
      BY <2>3 DEF Pending, Streaming, n, w
    <3>. QED
      BY <1>7, <2>2, <3>1
  <2>4. CASE job \in ToSet(inbox)
    <3>1. PICK i \in DOMAIN inbox : inbox[i] = job
      BY <2>4 DEF ToSet
    <3>2. Pending(c, job.req)
      BY <1>1, <2>2, <3>1 DEF Conv, Converse, Waiting
    <3>. QED
      BY <2>3, <3>2
  <2>5. CASE worker # Idle /\ job = worker.job
    <3>1. worker.phase \in {"head", "body", "done"}
      BY <2>5, WorkerJob DEF Conv
    <3>2. \/ Pending(c, job.req) \/ Streaming(c, job.req)
          \/ Asking(slots[s], ring[c], asked[c], owed[c], w)
      BY <1>1, <1>8, <2>2, <2>5, <3>1 DEF Conv, Converse, Working, Done, s, w
    <3>. QED
      BY <1>9, <2>3, <3>2
  <2>. QED
    BY <2>1, <2>4, <2>5 DEF Jobs
<1>. QED
  BY <1>5, <1>8, <1>9, <1>10, <1>11 DEF Talk

-----------------------------------------------------------------------------
(* Theorems. *)

\* Every variable keeps its type: no slot is without a place in the order of
\* deadlines (handleTouch), no length and no counter of a slot goes below zero, the
\* worker's queue keeps to WEB_FILE_INBOX_DEPTH.
THEOREM TypeCorrect == Spec => []TypeOK
<1> DEFINE TInv == Inv /\ Aged /\ OutTyped /\ Flags
<1>1. Init => TInv
  BY InitInv, InitTyping
<1>2. TInv /\ [Next]_vars => TInv'
  BY NextKeeps, AgedKeeps, OutKeeps, FlagsKeep
<1>3. TInv => TypeOK
  BY TypeHolds
<1>. QED
  BY <1>1, <1>2, <1>3, PTL DEF Spec

\* No byte of a body is parsed as a request and no request is dropped as a body
\* (consumeRequest, bodyToSkip, the PUT path), on any connection.
THEOREM FramingAlways == ASSUME Framed PROVE Spec => []FramingKept
<1>1. Init => Conv /\ FramingKept
  BY InitConv DEF Init, FramingKept
<1>2. Conv /\ FramingKept /\ [Next]_vars => (Conv /\ FramingKept)'
  BY NextConv
<1>. QED
  BY <1>1, <1>2, PTL DEF Spec

\* What the web task and the file worker write to a connection is, together, one
\* response after the other, in the order of the requests, none of them twice and none
\* left out; only the last may be cut short.
THEOREM ResponsesAlwaysWhole == ASSUME Framed PROVE Spec => []ResponsesWhole
<1>1. Init => Conv
  BY InitConv
<1>2. Conv /\ [Next]_vars => Conv'
  BY NextConv
<1>3. Conv => ResponsesWhole
  BY DEF Conv, Converse, Answers, WholeOut, ResponsesWhole
<1>. QED
  BY <1>1, <1>2, <1>3, PTL DEF Spec

\* While a connection is open a request on it that has no answer is in the ring, being
\* served in its slot, or a job of the worker.
THEOREM NeverLost == ASSUME Framed PROVE Spec => []NoRequestLost
<1>1. Init => Conv /\ NoSlotStranded
  BY InitConv, InitInv
<1>2. Conv /\ NoSlotStranded /\ [Next]_vars => (Conv /\ NoSlotStranded)'
  BY NextConv, NextKeeps DEF Conv
<1>3. Conv /\ NoSlotStranded => NoRequestLost
  BY NothingLost
<1>. QED
  BY <1>1, <1>2, <1>3, PTL DEF Spec
====
