------------------------ MODULE WebrtcSessionProofs ------------------------
(***************************************************************************)
(* Proofs about WebrtcSession for every set of tabs and generations and    *)
(* any number of faults and take-overs.                                    *)
(*                                                                         *)
(* The inductive invariant is a statement about one socket at a time,      *)
(* SocketInv, and one page at a time, PageInv.  SocketInv takes values and *)
(* not state, so what a message put in or taken does to it is a lemma      *)
(* about values; each step of the system is then one or two such changes   *)
(* and a frame (DeviceFrame, BrowserFrame) for the sockets left alone.     *)
(***************************************************************************)
EXTENDS WebrtcSession, TLAPS

Asks == {"ask", "force"}
Ends == {"close", "gone"}

Has(q, kinds)       == \E i \in DOMAIN q : q[i].kind \in kinds
OnlyFirst(q, kinds) == \A i \in DOMAIN q : q[i].kind \in kinds => i = 1
Fits(q, kind, g)    == \A i \in DOMAIN q : q[i].kind = kind => q[i].of = g

-----------------------------------------------------------------------------
(* Queues of messages. *)

LEMMA HasAppend ==
  ASSUME NEW M, NEW q \in Seq(M), NEW m \in M, NEW K
  PROVE  Has(Append(q, m), K) <=> Has(q, K) \/ m.kind \in K
<1> DEFINE r == Append(q, m)
<1>1. /\ DOMAIN q = 1 .. Len(q) /\ DOMAIN r = 1 .. Len(q) + 1 /\ Len(q) \in Nat
      /\ \A i \in 1 .. Len(q) : r[i] = q[i]
      /\ r[Len(q) + 1] = m
  OBVIOUS
<1> HIDE DEF r
<1>2. ASSUME Has(r, K) PROVE Has(q, K) \/ m.kind \in K
  <2>1. PICK i \in 1 .. Len(q) + 1 : r[i].kind \in K
    BY <1>1, <1>2 DEF Has
  <2>2. i \in 1 .. Len(q) \/ i = Len(q) + 1
    BY <1>1
  <2>. QED
    BY <1>1, <2>1, <2>2 DEF Has
<1>3. ASSUME Has(q, K) PROVE Has(r, K)
  <2>1. PICK i \in 1 .. Len(q) : q[i].kind \in K
    BY <1>1, <1>3 DEF Has
  <2>. QED
    BY <1>1, <2>1 DEF Has
<1>4. ASSUME m.kind \in K PROVE Has(r, K)
  <2>1. Len(q) + 1 \in DOMAIN r
    BY <1>1
  <2>. QED
    BY <1>1, <1>4, <2>1 DEF Has
<1>. QED
  BY <1>2, <1>3, <1>4 DEF r

LEMMA FirstAppend ==
  ASSUME NEW M, NEW q \in Seq(M), NEW m \in M, NEW K, OnlyFirst(q, K), m.kind \notin K
  PROVE  OnlyFirst(Append(q, m), K)
BY DEF OnlyFirst

LEMMA FitsAppend ==
  ASSUME NEW M, NEW q \in Seq(M), NEW m \in M, NEW k, NEW g, Fits(q, k, g),
         m.kind = k => m.of = g
  PROVE  Fits(Append(q, m), k, g)
BY DEF Fits

LEMMA TailFacts ==
  ASSUME NEW M, NEW q \in Seq(M), q # <<>>
  PROVE  /\ Tail(q) \in Seq(M) /\ Head(q) \in M /\ Head(q) = q[1] /\ 1 \in DOMAIN q
         /\ Len(q) \in Nat /\ DOMAIN q = 1 .. Len(q) /\ DOMAIN Tail(q) = 1 .. Len(q) - 1
         /\ \A i \in DOMAIN Tail(q) : i + 1 \in DOMAIN q /\ Tail(q)[i] = q[i + 1]
OBVIOUS

LEMMA HasTail ==
  ASSUME NEW M, NEW q \in Seq(M), q # <<>>, NEW K
  PROVE  Has(q, K) <=> Head(q).kind \in K \/ Has(Tail(q), K)
<1>1. ASSUME Has(q, K), Head(q).kind \notin K PROVE Has(Tail(q), K)
  <2>1. PICK i \in DOMAIN q : q[i].kind \in K
    BY <1>1 DEF Has
  <2>2. i # 1
    BY <1>1, <2>1, TailFacts
  <2>3. i - 1 \in DOMAIN Tail(q) /\ Tail(q)[i - 1] = q[i]
    BY <2>1, <2>2, TailFacts
  <2>. QED
    BY <2>1, <2>3 DEF Has
<1>2. ASSUME Head(q).kind \in K PROVE Has(q, K)
  BY <1>2, TailFacts DEF Has
<1>3. ASSUME Has(Tail(q), K) PROVE Has(q, K)
  <2>1. PICK i \in DOMAIN Tail(q) : Tail(q)[i].kind \in K
    BY <1>3 DEF Has
  <2>2. i + 1 \in DOMAIN q /\ Tail(q)[i] = q[i + 1]
    BY <2>1, TailFacts
  <2>. QED
    BY <2>1, <2>2 DEF Has
<1>. QED
  BY <1>1, <1>2, <1>3

LEMMA FirstTail ==
  ASSUME NEW M, NEW q \in Seq(M), q # <<>>, NEW K, OnlyFirst(q, K)
  PROVE  OnlyFirst(Tail(q), K) /\ ~Has(Tail(q), K)
<1>1. \A i \in DOMAIN Tail(q) : Tail(q)[i].kind \notin K
  BY TailFacts DEF OnlyFirst
<1>. QED
  BY <1>1 DEF OnlyFirst, Has

LEMMA FitsTail ==
  ASSUME NEW M, NEW q \in Seq(M), q # <<>>, NEW k, NEW g, Fits(q, k, g)
  PROVE  Fits(Tail(q), k, g)
BY TailFacts DEF Fits

LEMMA EmptyFacts ==
  ASSUME NEW K, NEW k, NEW g
  PROVE  ~Has(<<>>, K) /\ OnlyFirst(<<>>, K) /\ Fits(<<>>, k, g)
BY DEF Has, OnlyFirst, Fits

-----------------------------------------------------------------------------
(* One socket: g is its generation, u and d what is under way on it, l and h  *)
(* whether it is live and held, w and c the socket state of its tab and       *)
(* whether the tab is still in that generation.                               *)

SocketInv(g, u, d, l, h, w, c) ==
  /\ u \in Seq(Messages(Upward)) /\ d \in Seq(Messages(Downward))
  /\ l <=> c /\ w \in {"opening", "open"}
  /\ OnlyFirst(u, Asks) /\ OnlyFirst(d, {"open"})
  /\ Has(u, Asks) => ~h
  /\ Has(u, Asks) /\ l => w = "opening" /\ d = <<>>
  /\ Has(d, {"open"}) /\ l => w = "opening"
  /\ Has(u, Ends) /\ l => Has(d, Closings)
  /\ l => h \/ Has(u, Asks) \/ Has(d, Closings)
  /\ d # <<>> /\ ~l => ~c
  /\ Fits(u, "offer", g) /\ Fits(d, "answer", g)

LEMMA Notes ==
  /\ \A k \in Upward : Note(k) \in Messages(Upward) /\ Note(k).kind = k
  /\ \A k \in Downward : Note(k) \in Messages(Downward) /\ Note(k).kind = k
  /\ \A g \in Gens : /\ Sdp("offer", g) \in Messages(Upward)
                    /\ Sdp("offer", g).kind = "offer" /\ Sdp("offer", g).of = g
  /\ \A g \in Gens \cup {0} : /\ Sdp("answer", g) \in Messages(Downward)
                    /\ Sdp("answer", g).kind = "answer" /\ Sdp("answer", g).of = g
  /\ Asks \subseteq Upward /\ Ends \subseteq Upward /\ Closings \subseteq Downward
BY DEF Note, Sdp, Messages, Upward, Downward, Closings, Asks, Ends

LEMMA OneMessage ==
  ASSUME NEW m, NEW K, NEW k, NEW g
  PROVE  /\ Has(<<m>>, K) <=> m.kind \in K
         /\ OnlyFirst(<<m>>, K)
         /\ Fits(<<m>>, k, g) <=> (m.kind = k => m.of = g)
BY DEF Has, OnlyFirst, Fits

LEMMA TwoMessages ==
  ASSUME NEW m, NEW n, NEW K, NEW k, NEW g
  PROVE  /\ Has(<<m, n>>, K) <=> m.kind \in K \/ n.kind \in K
         /\ n.kind \notin K => OnlyFirst(<<m, n>>, K)
         /\ Fits(<<m, n>>, k, g) <=> (m.kind = k => m.of = g) /\ (n.kind = k => n.of = g)
<1>1. DOMAIN <<m, n>> = {1, 2} /\ <<m, n>>[1] = m /\ <<m, n>>[2] = n
  OBVIOUS
<1>. QED
  BY <1>1 DEF Has, OnlyFirst, Fits

LEMMA Concat ==
  ASSUME NEW M, NEW q \in Seq(M), NEW m \in M, NEW n \in M
  PROVE  /\ q \o <<m>> = Append(q, m)
         /\ <<>> \o <<m>> = <<m>> /\ <<>> \o <<m, n>> = <<m, n>>
OBVIOUS

\* A message of the device reaches a live socket.
LEMMA SocketTold ==
  ASSUME NEW g, NEW u, NEW d, NEW l, NEW h, NEW w, NEW c, NEW m \in Messages(Downward),
         SocketInv(g, u, d, l, h, w, c), l, ~Has(u, Asks),
         m.kind # "open", m.kind = "answer" => m.of = g
  PROVE  SocketInv(g, u, Append(d, m), l, h, w, c)
<1> DEFINE e == Append(d, m)
<1>1. d \in Seq(Messages(Downward)) /\ e \in Seq(Messages(Downward)) /\ e # <<>>
  BY DEF SocketInv
<1>2. \A K : Has(e, K) <=> Has(d, K) \/ m.kind \in K
  BY <1>1, HasAppend
<1>3. OnlyFirst(e, {"open"})
  BY <1>1, FirstAppend DEF SocketInv
<1>4. Fits(e, "answer", g)
  BY <1>1, FitsAppend DEF SocketInv
<1> HIDE DEF e
<1>5. SocketInv(g, u, e, l, h, w, c)
  BY <1>1, <1>2, <1>3, <1>4 DEF SocketInv
<1>. QED
  BY <1>5 DEF e
\* The browser, or TCP, sends something that is no question.
LEMMA DeviceTold ==
  ASSUME NEW g, NEW u, NEW d, NEW l, NEW h, NEW w, NEW c, NEW m \in Messages(Upward),
         SocketInv(g, u, d, l, h, w, c), m.kind \notin Asks,
         m.kind = "offer" => m.of = g,
         m.kind \in Ends => ~l \/ Has(d, Closings)
  PROVE  SocketInv(g, Append(u, m), d, l, h, w, c)
<1> DEFINE v == Append(u, m)
<1>1. u \in Seq(Messages(Upward)) /\ v \in Seq(Messages(Upward))
  BY DEF SocketInv
<1>2. \A K : Has(v, K) <=> Has(u, K) \/ m.kind \in K
  BY <1>1, HasAppend
<1>3. OnlyFirst(v, Asks)
  BY <1>1, FirstAppend DEF SocketInv
<1>4. Fits(v, "offer", g)
  BY <1>1, FitsAppend DEF SocketInv
<1> HIDE DEF v
<1>5. SocketInv(g, v, d, l, h, w, c)
  BY <1>1, <1>2, <1>3, <1>4 DEF SocketInv
<1>. QED
  BY <1>5 DEF v

\* The device takes a message that is no question.
LEMMA DeviceTakes ==
  ASSUME NEW g, NEW u, NEW d, NEW l, NEW h, NEW w, NEW c,
         SocketInv(g, u, d, l, h, w, c), u # <<>>, Head(u).kind \notin Asks
  PROVE  SocketInv(g, Tail(u), d, l, h, w, c) /\ ~Has(u, Asks) /\ ~Has(Tail(u), Asks)
<1>1. u \in Seq(Messages(Upward)) /\ Tail(u) \in Seq(Messages(Upward))
  BY DEF SocketInv
<1>2. \A K : Has(u, K) <=> Head(u).kind \in K \/ Has(Tail(u), K)
  BY <1>1, HasTail
<1>3. ~Has(Tail(u), Asks) /\ OnlyFirst(Tail(u), Asks) /\ Fits(Tail(u), "offer", g)
  BY <1>1, FirstTail, FitsTail DEF SocketInv
<1>. QED
  BY <1>1, <1>2, <1>3 DEF SocketInv

\* The question is answered: the socket opens, and is held or closed with a code.
LEMMA Asked ==
  ASSUME NEW g, NEW u, NEW d, NEW l, NEW h, NEW w, NEW c,
         SocketInv(g, u, d, l, h, w, c), u # <<>>, Head(u).kind \in Asks
  PROVE  ~h /\ Has(u, Asks) /\ (l => d = <<>>)
<1>1. Has(u, Asks)
  BY HasTail DEF SocketInv
<1>. QED
  BY <1>1 DEF SocketInv

LEMMA SocketRefused ==
  ASSUME NEW g, NEW u, NEW d, NEW l, NEW h, NEW w, NEW c, NEW k \in Closings,
         SocketInv(g, u, d, l, h, w, c), u # <<>>, Head(u).kind \in Asks
  PROVE  SocketInv(g, <<>>, IF l THEN d \o <<Note("open"), Note(k)>> ELSE d, l, h, w, c)
<1> DEFINE e == <<Note("open"), Note(k)>>
<1>1. ~h /\ Has(u, Asks) /\ (l => d = <<>>)
  BY Asked
<1>2. /\ Note("open") \in Messages(Downward) /\ Note("open").kind = "open"
      /\ Note(k) \in Messages(Downward) /\ Note(k).kind = k
  BY Notes DEF Downward
<1>3. e \in Seq(Messages(Downward)) /\ e # <<>> /\ <<>> \o e = e
  BY <1>2
<1>4. \A K : Has(e, K) <=> Note("open").kind \in K \/ Note(k).kind \in K
  BY TwoMessages
<1>5. OnlyFirst(e, {"open"}) /\ Fits(e, "answer", g)
  BY <1>2, TwoMessages DEF Closings
<1> HIDE DEF e
<1>6. \A K : ~Has(<<>>, K) /\ OnlyFirst(<<>>, K) /\ Fits(<<>>, "offer", g)
  BY EmptyFacts
<1>7. <<>> \in Seq(Messages(Upward))
  OBVIOUS
<1>8. CASE l
  <2>1. w = "opening" /\ d = <<>>
    BY <1>1, <1>8 DEF SocketInv
  <2>2. SocketInv(g, <<>>, e, l, h, w, c)
    BY <1>1, <1>2, <1>3, <1>4, <1>5, <1>6, <1>7, <1>8, <2>1 DEF SocketInv
  <2>. QED
    BY <1>3, <1>8, <2>1, <2>2 DEF e
<1>9. CASE ~l
  BY <1>6, <1>7, <1>9 DEF SocketInv
<1>. QED
  BY <1>8, <1>9

LEMMA SocketAccepted ==
  ASSUME NEW g, NEW u, NEW d, NEW l, NEW h, NEW w, NEW c,
         SocketInv(g, u, d, l, h, w, c), u # <<>>, Head(u).kind \in Asks
  PROVE  SocketInv(g, Tail(u), IF l THEN d \o <<Note("open")>> ELSE d, l, TRUE, w, c)
<1> DEFINE e == <<Note("open")>>
<1>1. ~h /\ Has(u, Asks) /\ (l => d = <<>>)
  BY Asked
<1>2. Note("open") \in Messages(Downward) /\ Note("open").kind = "open"
  BY Notes DEF Downward
<1>3. e \in Seq(Messages(Downward)) /\ e # <<>> /\ <<>> \o e = e
  BY <1>2
<1>4. \A K : Has(e, K) <=> Note("open").kind \in K
  BY OneMessage
<1>5. OnlyFirst(e, {"open"}) /\ Fits(e, "answer", g)
  BY <1>2, OneMessage
<1> HIDE DEF e
<1>6. u \in Seq(Messages(Upward)) /\ Tail(u) \in Seq(Messages(Upward))
  BY DEF SocketInv
<1>7. \A K : Has(u, K) <=> Head(u).kind \in K \/ Has(Tail(u), K)
  BY <1>6, HasTail
<1>8. ~Has(Tail(u), Asks) /\ OnlyFirst(Tail(u), Asks) /\ Fits(Tail(u), "offer", g)
  BY <1>6, FirstTail, FitsTail DEF SocketInv
<1>9. CASE l
  <2>1. w = "opening" /\ d = <<>> /\ ~Has(d, Closings)
    BY <1>1, <1>9, EmptyFacts DEF SocketInv
  <2>2. ~Has(u, Ends)
    BY <1>9, <2>1 DEF SocketInv
  <2>3. SocketInv(g, Tail(u), e, l, TRUE, w, c)
    BY <1>1, <1>2, <1>3, <1>4, <1>5, <1>6, <1>7, <1>8, <1>9, <2>1, <2>2 DEF SocketInv
  <2>. QED
    BY <1>3, <1>9, <2>1, <2>3 DEF e
<1>10. CASE ~l
  BY <1>6, <1>7, <1>8, <1>10 DEF SocketInv
<1>. QED
  BY <1>9, <1>10

\* The device lets go of a socket it held; a live one has been told.
LEMMA SocketDropped ==
  ASSUME NEW g, NEW u, NEW d, NEW l, NEW h, NEW w, NEW c,
         SocketInv(g, u, d, l, h, w, c), l => Has(d, Closings)
  PROVE  SocketInv(g, <<>>, d, l, FALSE, w, c)
<1>1. \A K : ~Has(<<>>, K) /\ OnlyFirst(<<>>, K) /\ Fits(<<>>, "offer", g)
  BY EmptyFacts
<1>2. <<>> \in Seq(Messages(Upward))
  OBVIOUS
<1>. QED
  BY <1>1, <1>2 DEF SocketInv

\* The device evicts a socket it held: told, then let go.
LEMMA SocketKicked ==
  ASSUME NEW g, NEW u, NEW d, NEW l, NEW h, NEW w, NEW c, SocketInv(g, u, d, l, h, w, c), h
  PROVE  SocketInv(g, <<>>, IF l THEN d \o <<Note("kick")>> ELSE d, l, FALSE, w, c)
<1>1. /\ Note("kick") \in Messages(Downward) /\ Note("kick").kind = "kick"
      /\ d \in Seq(Messages(Downward)) /\ ~Has(u, Asks)
  BY Notes DEF SocketInv, Downward, Closings
<1>2. CASE l
  <2>1. d \o <<Note("kick")>> = Append(d, Note("kick"))
    BY <1>1, Concat
  <2>2. SocketInv(g, u, Append(d, Note("kick")), l, h, w, c)
    BY <1>1, <1>2, SocketTold
  <2>3. Has(Append(d, Note("kick")), Closings)
    BY <1>1, HasAppend DEF Closings
  <2>. QED
    BY <1>2, <2>1, <2>2, <2>3, SocketDropped
<1>3. CASE ~l
  BY <1>3, SocketDropped
<1>. QED
  BY <1>2, <1>3

\* The device answers an offer.
LEMMA SocketAnswered ==
  ASSUME NEW g \in Gens, NEW u, NEW d, NEW l, NEW h, NEW w, NEW c,
         SocketInv(g, u, d, l, h, w, c), u # <<>>, Head(u).kind = "offer"
  PROVE  /\ Sdp("answer", Head(u).of) \in Messages(Downward)
         /\ SocketInv(g, Tail(u), IF l THEN d \o <<Sdp("answer", Head(u).of)>> ELSE d,
                      l, h, w, c)
<1>1. Head(u).of = g
  BY TailFacts DEF SocketInv, Fits
<1>2. /\ Sdp("answer", g) \in Messages(Downward) /\ Sdp("answer", g).kind = "answer"
      /\ Sdp("answer", g).of = g
  BY Notes
<1>3. SocketInv(g, Tail(u), d, l, h, w, c) /\ ~Has(Tail(u), Asks)
  BY DeviceTakes DEF Asks
<1>4. CASE l
  <2>1. d \o <<Sdp("answer", g)>> = Append(d, Sdp("answer", g))
    BY <1>2, Concat DEF SocketInv
  <2>2. SocketInv(g, Tail(u), Append(d, Sdp("answer", g)), l, h, w, c)
    BY <1>2, <1>3, <1>4, SocketTold
  <2>. QED
    BY <1>1, <1>2, <1>4, <2>1, <2>2
<1>5. CASE ~l
  BY <1>1, <1>2, <1>3, <1>5
<1>. QED
  BY <1>4, <1>5

\* The TCP connection of a live socket ends under it.
LEMMA SocketBroken ==
  ASSUME NEW g, NEW u, NEW d, NEW l, NEW h, NEW w, NEW c, SocketInv(g, u, d, l, h, w, c), l
  PROVE  SocketInv(g, IF h THEN Append(u, Note("gone")) ELSE <<>>,
                   d \o <<Note("lost")>>, l, h, w, c)
<1> DEFINE e == Append(d, Note("lost"))
<1>1. /\ Note("lost") \in Messages(Downward) /\ Note("lost").kind = "lost"
      /\ Note("gone") \in Messages(Upward) /\ Note("gone").kind = "gone"
      /\ d \in Seq(Messages(Downward)) /\ e \in Seq(Messages(Downward))
  BY Notes DEF SocketInv, Downward, Closings, Upward
<1>2. d \o <<Note("lost")>> = e
  BY <1>1, Concat
<1>3. \A K : Has(e, K) <=> Has(d, K) \/ Note("lost").kind \in K
  BY <1>1, HasAppend
<1>4. CASE h
  <2>1. SocketInv(g, u, e, l, h, w, c)
    BY <1>1, <1>4, SocketTold, ZenonT(40) DEF SocketInv
  <2>2. Has(e, Closings)
    BY <1>1, <1>3 DEF Closings
  <2>3. SocketInv(g, Append(u, Note("gone")), e, l, h, w, c)
    BY <1>1, <2>1, <2>2, DeviceTold DEF Asks
  <2>. QED
    BY <1>2, <1>4, <2>3
<1>5. CASE ~h
  <2>1. OnlyFirst(e, {"open"}) /\ Fits(e, "answer", g)
    BY <1>1, FirstAppend, FitsAppend DEF SocketInv
  <2>2. \A K : ~Has(<<>>, K) /\ OnlyFirst(<<>>, K) /\ Fits(<<>>, "offer", g)
    BY EmptyFacts
  <2>3. <<>> \in Seq(Messages(Upward))
    OBVIOUS
  <2> HIDE DEF e
  <2>4. SocketInv(g, <<>>, e, l, h, w, c)
    BY <1>1, <1>3, <1>5, <2>1, <2>2, <2>3 DEF SocketInv, Closings
  <2>. QED
    BY <1>2, <1>5, <2>4
<1>. QED
  BY <1>4, <1>5

\* The tab leaves the socket behind, with at most an open event of it queued.
LEMMA SocketLeft ==
  ASSUME NEW g, NEW d, NEW h, NEW v, NEW e, NEW x,
         SocketInv(g, v, d, FALSE, h, x, FALSE),
         e = d \/ e = <<>> \/ (d # <<>> /\ e = <<Head(d)>>)
  PROVE  SocketInv(g, v, e, FALSE, h, x, FALSE)
<1>1. d \in Seq(Messages(Downward)) /\ OnlyFirst(d, {"open"}) /\ Fits(d, "answer", g)
  BY DEF SocketInv
<1>2. CASE e = d
  BY <1>2
<1>3. CASE e = <<>>
  <2>1. e \in Seq(Messages(Downward)) /\ OnlyFirst(e, {"open"}) /\ Fits(e, "answer", g)
    BY <1>3, EmptyFacts
  <2>. QED
    BY <2>1 DEF SocketInv
<1>4. CASE d # <<>> /\ e = <<Head(d)>>
  <2>1. Head(d) \in Messages(Downward) /\ (Head(d).kind = "answer" => Head(d).of = g)
    BY <1>1, <1>4, TailFacts DEF Fits
  <2>2. e \in Seq(Messages(Downward)) /\ OnlyFirst(e, {"open"}) /\ Fits(e, "answer", g)
    BY <1>4, <2>1, OneMessage
  <2>. QED
    BY <2>2 DEF SocketInv
<1>. QED
  BY <1>2, <1>3, <1>4

\* A generation without a live socket is left; nothing changes on the socket.
LEMMA SocketPassed ==
  ASSUME NEW g, NEW u, NEW d, NEW l, NEW h, NEW w, NEW c, NEW x,
         SocketInv(g, u, d, l, h, w, c)
  PROVE  SocketInv(g, u, d, FALSE, h, x, FALSE)
BY DEF SocketInv

\* A socket is opened anew.
LEMMA SocketAsks ==
  ASSUME NEW g \in Gens, NEW k \in Asks
  PROVE  SocketInv(g, <<Note(k)>>, <<>>, TRUE, FALSE, "opening", TRUE)
<1>1. Note(k) \in Messages(Upward) /\ Note(k).kind = k
  BY Notes
<1>2. /\ <<Note(k)>> \in Seq(Messages(Upward)) /\ <<>> \in Seq(Messages(Downward))
      /\ OnlyFirst(<<Note(k)>>, Asks) /\ OnlyFirst(<<>>, {"open"})
      /\ Fits(<<Note(k)>>, "offer", g) /\ Fits(<<>>, "answer", g)
      /\ Has(<<Note(k)>>, Asks) /\ ~Has(<<Note(k)>>, Ends) /\ ~Has(<<>>, {"open"})
  BY <1>1, OneMessage, EmptyFacts DEF Asks, Ends
<1>. QED
  BY <1>2 DEF SocketInv

\* The browser takes a message that does not end the socket.
LEMMA BrowserTakes ==
  ASSUME NEW g, NEW u, NEW d, NEW l, NEW h, NEW w, NEW c,
         SocketInv(g, u, d, l, h, w, c), d # <<>>, Head(d).kind \notin Closings
  PROVE  /\ SocketInv(g, u, Tail(d), l, h, w, c)
         /\ ~Has(Tail(d), {"open"})
         /\ l => ~Has(u, Asks)
<1>1. d \in Seq(Messages(Downward)) /\ Tail(d) \in Seq(Messages(Downward))
  BY DEF SocketInv
<1>2. \A K : Has(d, K) <=> Head(d).kind \in K \/ Has(Tail(d), K)
  BY <1>1, HasTail
<1>3. ~Has(Tail(d), {"open"}) /\ OnlyFirst(Tail(d), {"open"}) /\ Fits(Tail(d), "answer", g)
  BY <1>1, FirstTail, FitsTail DEF SocketInv
<1>. QED
  BY <1>1, <1>2, <1>3 DEF SocketInv

\* A live socket whose open event is dispatched.
LEMMA SocketOpens ==
  ASSUME NEW g, NEW u, NEW d, NEW l, NEW h, NEW w, NEW c,
         SocketInv(g, u, d, l, h, w, c), d # <<>>, Head(d).kind = "open", c
  PROVE  w = "opening" /\ SocketInv(g, u, Tail(d), l, h, "open", c)
<1>1. Has(d, {"open"})
  BY HasTail DEF SocketInv
<1>2. l /\ w = "opening"
  BY <1>1 DEF SocketInv
<1>3. SocketInv(g, u, Tail(d), l, h, w, c) /\ ~Has(Tail(d), {"open"}) /\ ~Has(u, Asks)
  BY <1>2, BrowserTakes DEF Closings
<1>. QED
  BY <1>2, <1>3 DEF SocketInv

\* The end of the socket arrives at the browser.
LEMMA SocketEnds ==
  ASSUME NEW g, NEW u, NEW d, NEW l, NEW h, NEW w, NEW c, SocketInv(g, u, d, l, h, w, c)
  PROVE  SocketInv(g, u, <<>>, FALSE, h, "closed", c)
<1>1. <<>> \in Seq(Messages(Downward)) /\ OnlyFirst(<<>>, {"open"}) /\ Fits(<<>>, "answer", g)
  BY EmptyFacts
<1>. QED
  BY <1>1 DEF SocketInv
-----------------------------------------------------------------------------
(* One page. *)

PageInv(p) ==
  /\ p \in Page
  /\ p.pc # "none" => p.gen \in Gens
  /\ p.ws \in {"opening", "open"} =>
       p.gen \in Gens /\ p.want /\ p.state \notin Parked \cup {"idle"}
  /\ p.timer =>
       p.want /\ p.ws \notin {"opening", "open"} /\ p.state \notin Parked \cup {"idle"}
  /\ p.want /\ p.state \in {"connecting", "error"} => p.timer \/ p.ws \in {"opening", "open"}
  /\ p.state = "connecting" => p.want

LEMMA TornDownPage ==
  ASSUME NEW p, PageInv(p)
  PROVE  /\ TornDown(p) \in Page
         /\ TornDown(p).ws = "none" /\ TornDown(p).gen = 0 /\ TornDown(p).pc = "none"
         /\ TornDown(p).state = p.state /\ TornDown(p).want = p.want
         /\ TornDown(p).timer = p.timer
BY DEF PageInv, TornDown, Page

LEMMA RebuiltPage ==
  ASSUME NEW p \in Page, NEW st \in {"connecting", "error"},
         p.ws \notin {"opening", "open"}, p.timer => p.want, p.pc # "none" => p.gen \in Gens,
         st = "connecting" => p.want
  PROVE  LET q == Rearm([p EXCEPT !.state = st])
         IN  PageInv(q) /\ q.ws = p.ws /\ q.gen = p.gen
<1> DEFINE r == [p EXCEPT !.state = st]
<1>1. /\ r \in Page /\ r.ws = p.ws /\ r.gen = p.gen /\ r.state = st
      /\ r.want = p.want /\ r.timer = p.timer /\ r.pc = p.pc
  BY DEF Page, SessionState
<1> HIDE DEF r
<1>2. CASE r.want
  <2> DEFINE q == [r EXCEPT !.timer = TRUE]
  <2>1. Rearm(r) = q
    BY <1>1, <1>2 DEF Rearm, Parked
  <2>2. /\ q \in Page /\ q.ws = p.ws /\ q.gen = p.gen /\ q.state = st
        /\ q.want = p.want /\ q.timer = TRUE /\ q.pc = p.pc
    BY <1>1 DEF Page
  <2> HIDE DEF q
  <2>3. PageInv(q)
    BY <1>1, <1>2, <2>2 DEF PageInv, Parked
  <2>. QED
    BY <2>1, <2>2, <2>3 DEF r
<1>3. CASE ~r.want
  <2>1. Rearm(r) = r
    BY <1>3 DEF Rearm
  <2>2. PageInv(r)
    BY <1>1, <1>3 DEF PageInv, Parked
  <2>. QED
    BY <1>1, <2>1, <2>2 DEF r
<1>. QED
  BY <1>2, <1>3

LEMMA FailedPage ==
  ASSUME NEW p, PageInv(p)
  PROVE  PageInv(Failed(p)) /\ Failed(p).ws = "none" /\ Failed(p).gen = 0
<1>1. TornDown(p).timer => TornDown(p).want
  BY TornDownPage DEF PageInv
<1>. QED
  BY <1>1, TornDownPage, RebuiltPage DEF Failed

LEMMA RefreshedPage ==
  ASSUME NEW p, PageInv(p), p.want
  PROVE  PageInv(Refreshed(p)) /\ Refreshed(p).ws = "none" /\ Refreshed(p).gen = 0
<1>1. TornDown(p).timer => TornDown(p).want
  BY TornDownPage DEF PageInv
<1>. QED
  BY <1>1, TornDownPage, RebuiltPage DEF Refreshed

LEMMA ClosedPage ==
  ASSUME NEW p, PageInv(p), p.ws \in {"opening", "open"}, NEW code \in Closings
  PROVE  LET q == ClosedWith(p, code)
         IN  PageInv(q) /\ q.ws = "closed" /\ q.gen = p.gen
<1> DEFINE r == [p EXCEPT !.ws = "closed"]
<1>1. /\ r \in Page /\ r.ws = "closed" /\ r.gen = p.gen /\ r.want = p.want
      /\ r.timer = FALSE /\ p.want /\ r.pc = p.pc /\ p.gen \in Gens
  BY DEF PageInv, Page
<1> HIDE DEF r
<1>2. ASSUME NEW st \in Parked, ClosedWith(p, code) = [r EXCEPT !.want = FALSE, !.state = st]
      PROVE  LET q == ClosedWith(p, code)
             IN  PageInv(q) /\ q.ws = "closed" /\ q.gen = p.gen
  <2> DEFINE q == [r EXCEPT !.want = FALSE, !.state = st]
  <2>1. /\ q \in Page /\ q.ws = "closed" /\ q.gen = p.gen /\ q.want = FALSE /\ q.timer = FALSE
        /\ q.state # "connecting"
    BY <1>1 DEF Page, SessionState, Parked
  <2> HIDE DEF q
  <2>2. PageInv(q)
    BY <2>1 DEF PageInv
  <2>. QED
    BY <1>2, <2>1, <2>2 DEF q
<1>3. CASE code = "auth"
  BY <1>2, <1>3 DEF ClosedWith, Parked, r
<1>4. CASE code = "busy"
  BY <1>2, <1>4 DEF ClosedWith, Parked, r
<1>5. CASE code = "kick"
  BY <1>2, <1>5 DEF ClosedWith, Parked, r
<1>6. CASE code = "lost"
  <2>1. ClosedWith(p, code) = Rearm([r EXCEPT !.state = "error"])
    BY <1>6 DEF ClosedWith, r
  <2>. QED
    BY <1>1, <2>1, RebuiltPage
<1>. QED
  BY <1>3, <1>4, <1>5, <1>6 DEF Closings

\* A page on which neither the socket, the state nor the timer changed.
LEMMA SamePage ==
  ASSUME NEW p, PageInv(p), NEW q \in Page, q.ws = p.ws, q.gen = p.gen, q.state = p.state,
         q.want = p.want, q.timer = p.timer, q.pc = "none" <=> p.pc = "none"
  PROVE  PageInv(q)
BY DEF PageInv
-----------------------------------------------------------------------------
(* The inductive invariant. *)

SocketsOK ==
  \A s \in Sockets : SocketInv(s[2], up[s], down[s], s \in live, s \in held,
                               tab[s[1]].ws, tab[s[1]].gen = s[2])
PagesOK == \A t \in Tabs : PageInv(tab[t])

Core == WiresTypeOK /\ SignallingTypeOK /\ BrowserTypeOK /\ OneHandle /\ SocketsOK /\ PagesOK

LEMMA SocketParts ==
  ASSUME NEW s \in Sockets
  PROVE  s[1] \in Tabs /\ s[2] \in Gens /\ s = <<s[1], s[2]>> /\ s # NoSocket
BY WiresAssumption DEF Sockets

LEMMA Queues ==
  ASSUME Core, NEW s \in Sockets
  PROVE  /\ up \in [Sockets -> Seq(Messages(Upward))] /\ up[s] \in Seq(Messages(Upward))
         /\ down \in [Sockets -> Seq(Messages(Downward))]
         /\ down[s] \in Seq(Messages(Downward))
         /\ held \subseteq Sockets /\ live \subseteq Sockets /\ peer \in Sockets \cup {NoSocket}
         /\ itsHandle \in Sockets \cup {NoSocket}
         /\ SocketInv(s[2], up[s], down[s], s \in live, s \in held,
                      tab[s[1]].ws, tab[s[1]].gen = s[2])
BY DEF Core, WiresTypeOK, SignallingTypeOK, SocketsOK

LEMMA UpCleared ==
  ASSUME NEW ch \in [Sockets -> Seq(Messages(Upward))], NEW s \in Sockets
  PROVE  /\ Cleared(ch, s) \in [Sockets -> Seq(Messages(Upward))]
         /\ Cleared(ch, s)[s] = <<>>
         /\ \A r \in Sockets : r # s => Cleared(ch, s)[r] = ch[r]
<1>1. <<>> \in Seq(Messages(Upward))
  OBVIOUS
<1>. QED
  BY <1>1 DEF Cleared

LEMMA UpTaken ==
  ASSUME NEW ch \in [Sockets -> Seq(Messages(Upward))], NEW s \in Sockets, ch[s] # <<>>
  PROVE  /\ Taken(ch, s) \in [Sockets -> Seq(Messages(Upward))]
         /\ Taken(ch, s)[s] = Tail(ch[s])
         /\ \A r \in Sockets : r # s => Taken(ch, s)[r] = ch[r]
<1>1. Tail(ch[s]) \in Seq(Messages(Upward))
  OBVIOUS
<1>. QED
  BY <1>1 DEF Taken

\* What a step of the device on one socket has to be shown to keep.
LEMMA DeviceFrame ==
  ASSUME Core, UNCHANGED <<live, browser>>, NEW s \in Sockets,
         up' \in [Sockets -> Seq(Messages(Upward))],
         down' \in [Sockets -> Seq(Messages(Downward))],
         held' \subseteq Sockets, peer' \in Sockets \cup {NoSocket},
         SignallingTypeOK', OneHandle',
         SocketInv(s[2], up'[s], down'[s], s \in live, s \in held',
                   tab[s[1]].ws, tab[s[1]].gen = s[2]),
         \A r \in Sockets : r # s =>
             SocketInv(r[2], up'[r], down'[r], r \in live, r \in held',
                       tab[r[1]].ws, tab[r[1]].gen = r[2])
  PROVE  Core'
<1>1. WiresTypeOK' /\ BrowserTypeOK' /\ PagesOK'
  BY DEF Core, WiresTypeOK, BrowserTypeOK, PagesOK, browser
<1>2. \A r \in Sockets : SocketInv(r[2], up'[r], down'[r], r \in live, r \in held',
                                   tab[r[1]].ws, tab[r[1]].gen = r[2])
  OBVIOUS
<1>3. SocketsOK'
  BY <1>2 DEF SocketsOK, browser
<1>. QED
  BY <1>1, <1>3 DEF Core

\* A step of the device that touches no socket.
LEMMA TransportFrame ==
  ASSUME Core, UNCHANGED <<up, down, live, held, itsHandle, browser>>,
         peer' \in Sockets \cup {NoSocket},
         dtls' \in {"off", "ready", "up"}, established' \in BOOLEAN, udp' \in BOOLEAN
  PROVE  Core'
<1>1. SignallingTypeOK' /\ OneHandle'
  BY DEF Core, SignallingTypeOK, OneHandle
<1>2. WiresTypeOK' /\ BrowserTypeOK' /\ PagesOK' /\ SocketsOK'
  BY DEF Core, WiresTypeOK, BrowserTypeOK, PagesOK, SocketsOK, browser
<1>. QED
  BY <1>1, <1>2 DEF Core

\* The sockets a step leaves alone keep their part of the invariant.
LEMMA OthersKeep ==
  ASSUME Core, NEW s \in Sockets, NEW h,
         \A r \in Sockets : r # s => /\ up'[r] = up[r] /\ down'[r] = down[r]
                                     /\ (r \in h) = (r \in held)
  PROVE  \A r \in Sockets : r # s =>
             SocketInv(r[2], up'[r], down'[r], r \in live, r \in h,
                       tab[r[1]].ws, tab[r[1]].gen = r[2])
BY DEF Core, SocketsOK

LEMMA RefuseStep ==
  ASSUME Core, UNCHANGED browser, NEW s \in Sockets, NEW code \in Closings,
         Heads(up, s, Asks), Refuse(s, code)
  PROVE  Core'
<1> DEFINE msgs == <<Note("open"), Note(code)>>
<1>0. Note("open") \in Messages(Downward) /\ Note(code) \in Messages(Downward)
  BY Notes DEF Downward
<1>1. msgs \in Seq(Messages(Downward))
  BY <1>0
<1>2. /\ up' = Cleared(up, s) /\ down' = ToBrowser(down, s, msgs)
      /\ UNCHANGED <<live, held, peer, itsHandle, dtls, established, udp>>
  BY DEF Refuse, device
<1>3. SocketInv(s[2], <<>>, IF s \in live THEN down[s] \o msgs ELSE down[s],
                s \in live, s \in held, tab[s[1]].ws, tab[s[1]].gen = s[2])
  BY Queues, SocketRefused DEF Heads
<1> HIDE DEF msgs
<1>4. /\ up' \in [Sockets -> Seq(Messages(Upward))] /\ up'[s] = <<>>
      /\ \A r \in Sockets : r # s => up'[r] = up[r]
  BY <1>2, Queues, UpCleared, SMTT(30)
<1>5. /\ down' \in [Sockets -> Seq(Messages(Downward))]
      /\ down'[s] = IF s \in live THEN down[s] \o msgs ELSE down[s]
      /\ \A r \in Sockets : r # s => down'[r] = down[r]
  <2>1. down \in [Sockets -> Seq(Messages(Downward))] /\ down[s] \in Seq(Messages(Downward))
    BY Queues
  <2>2. down[s] \o msgs \in Seq(Messages(Downward))
    BY <1>1, <2>1
  <2>. QED
    BY <1>2, <2>1, <2>2 DEF ToBrowser
<1>6. \A r \in Sockets : r # s => SocketInv(r[2], up'[r], down'[r], r \in live, r \in held',
                                            tab[r[1]].ws, tab[r[1]].gen = r[2])
  BY <1>2, <1>4, <1>5, OthersKeep
<1>7. SignallingTypeOK' /\ OneHandle' /\ held' \subseteq Sockets /\ peer' \in Sockets \cup {NoSocket}
  BY <1>2 DEF Core, SignallingTypeOK, OneHandle, WiresTypeOK
<1>8. SocketInv(s[2], up'[s], down'[s], s \in live, s \in held',
                tab[s[1]].ws, tab[s[1]].gen = s[2])
  BY <1>2, <1>3, <1>4, <1>5
<1>. QED
  BY <1>2, <1>4, <1>5, <1>6, <1>7, <1>8, DeviceFrame

LEMMA AcceptStep ==
  ASSUME Core, UNCHANGED browser, NEW s \in Sockets, Accept(s)
  PROVE  Core'
<1> DEFINE msgs == <<Note("open")>>
<1>0. Note("open") \in Messages(Downward)
  BY Notes DEF Downward
<1>1. msgs \in Seq(Messages(Downward))
  BY <1>0
<1>2. /\ up' = Taken(up, s) /\ down' = ToBrowser(down, s, msgs) /\ up[s] # <<>>
      /\ Head(up[s]).kind \in Asks
      /\ itsHandle = NoSocket /\ itsHandle' = s /\ held' = held \cup {s}
      /\ UNCHANGED <<live, peer, dtls, established, udp>>
  BY DEF Accept, Heads, Asks
<1>3. SocketInv(s[2], Tail(up[s]), IF s \in live THEN down[s] \o msgs ELSE down[s],
                s \in live, TRUE, tab[s[1]].ws, tab[s[1]].gen = s[2])
  BY <1>2, Queues, SocketAccepted
<1> HIDE DEF msgs
<1>4. /\ up' \in [Sockets -> Seq(Messages(Upward))] /\ up'[s] = Tail(up[s])
      /\ \A r \in Sockets : r # s => up'[r] = up[r]
  BY <1>2, Queues, UpTaken
<1>5. /\ down' \in [Sockets -> Seq(Messages(Downward))]
      /\ down'[s] = IF s \in live THEN down[s] \o msgs ELSE down[s]
      /\ \A r \in Sockets : r # s => down'[r] = down[r]
  <2>1. down \in [Sockets -> Seq(Messages(Downward))] /\ down[s] \in Seq(Messages(Downward))
    BY Queues
  <2>2. down[s] \o msgs \in Seq(Messages(Downward))
    BY <1>1, <2>1
  <2>. QED
    BY <1>2, <2>1, <2>2 DEF ToBrowser
<1>6. \A r \in Sockets : r # s => SocketInv(r[2], up'[r], down'[r], r \in live, r \in held',
                                            tab[r[1]].ws, tab[r[1]].gen = r[2])
  <2>1. \A r \in Sockets : r # s => (r \in held') = (r \in held)
    BY <1>2
  <2>. QED
    BY <1>4, <1>5, <2>1, OthersKeep
<1>7. held = {}
  BY <1>2, WiresAssumption DEF Core, OneHandle, WiresTypeOK
<1>8. SignallingTypeOK' /\ OneHandle' /\ held' \subseteq Sockets /\ peer' \in Sockets \cup {NoSocket}
  BY <1>2, <1>7 DEF Core, SignallingTypeOK, OneHandle, WiresTypeOK
<1>9. (s \in held') = TRUE
  BY <1>2
<1>10. SocketInv(s[2], up'[s], down'[s], s \in live, s \in held',
                 tab[s[1]].ws, tab[s[1]].gen = s[2])
  BY <1>3, <1>4, <1>5, <1>9
<1>. QED
  BY <1>2, <1>4, <1>5, <1>6, <1>8, <1>10, DeviceFrame

LEMMA EvictStep ==
  ASSUME Core, UNCHANGED browser, NEW s \in Sockets, Evict(s)
  PROVE  Core'
<1> DEFINE v == itsHandle
           hello == <<Note("open")>>
           bye == <<Note("kick")>>
<1>1. /\ up' = Cleared(Taken(up, s), v) /\ up[s] # <<>> /\ Head(up[s]).kind \in Asks
      /\ down' = ToBrowser(ToBrowser(down, v, bye), s, hello)
      /\ itsHandle # NoSocket /\ itsHandle' = s /\ held' = (held \ {v}) \cup {s}
      /\ peer' = NoSocket /\ dtls' = "off" /\ established' = FALSE
      /\ UNCHANGED <<live, udp>>
  BY DEF Evict, Heads, Asks, Eviction, LetGo, SessionTeardown
<1>2. v \in Sockets /\ v \in held /\ held \subseteq {v}
  BY <1>1 DEF Core, SignallingTypeOK, OneHandle
<1>3. v # s
  BY <1>1, <1>2, Queues, Asked
<1>4. SocketInv(s[2], Tail(up[s]), IF s \in live THEN down[s] \o hello ELSE down[s],
                s \in live, TRUE, tab[s[1]].ws, tab[s[1]].gen = s[2])
  BY <1>1, Queues, SocketAccepted
<1>5. SocketInv(v[2], <<>>, IF v \in live THEN down[v] \o bye ELSE down[v],
                v \in live, FALSE, tab[v[1]].ws, tab[v[1]].gen = v[2])
  <2>1. SocketInv(v[2], up[v], down[v], v \in live, v \in held,
                  tab[v[1]].ws, tab[v[1]].gen = v[2])
    BY <1>2, Queues
  <2>. QED
    BY <1>2, <2>1, SocketKicked, ZenonT(40)
<1>6. Note("open") \in Messages(Downward) /\ Note("kick") \in Messages(Downward)
  BY Notes DEF Downward, Closings
<1>7. hello \in Seq(Messages(Downward)) /\ bye \in Seq(Messages(Downward))
  BY <1>6
<1> HIDE DEF hello, bye, v
<1>8. /\ up \in [Sockets -> Seq(Messages(Upward))] /\ up[s] \in Seq(Messages(Upward))
      /\ down \in [Sockets -> Seq(Messages(Downward))]
      /\ down[s] \in Seq(Messages(Downward)) /\ down[v] \in Seq(Messages(Downward))
  BY <1>2, Queues
<1>9. /\ up' \in [Sockets -> Seq(Messages(Upward))] /\ up'[s] = Tail(up[s]) /\ up'[v] = <<>>
      /\ \A r \in Sockets : r # s /\ r # v => up'[r] = up[r]
  <2>1. Tail(up[s]) \in Seq(Messages(Upward)) /\ <<>> \in Seq(Messages(Upward))
    BY <1>1, <1>8
  <2>. QED
    BY <1>1, <1>2, <1>3, <1>8, <2>1 DEF Cleared, Taken
<1>10. /\ down' \in [Sockets -> Seq(Messages(Downward))]
       /\ down'[s] = IF s \in live THEN down[s] \o hello ELSE down[s]
       /\ down'[v] = IF v \in live THEN down[v] \o bye ELSE down[v]
       /\ \A r \in Sockets : r # s /\ r # v => down'[r] = down[r]
  <2>1. /\ down[s] \o hello \in Seq(Messages(Downward))
        /\ down[v] \o bye \in Seq(Messages(Downward))
    BY <1>7, <1>8
  <2>. QED
    BY <1>1, <1>2, <1>3, <1>8, <2>1 DEF ToBrowser
<1>11. SocketInv(s[2], up'[s], down'[s], s \in live, s \in held',
                 tab[s[1]].ws, tab[s[1]].gen = s[2])
  <2>1. (s \in held') = TRUE
    BY <1>1
  <2>. QED
    BY <1>4, <1>9, <1>10, <2>1
<1>12. SocketInv(v[2], up'[v], down'[v], v \in live, v \in held',
                 tab[v[1]].ws, tab[v[1]].gen = v[2])
  <2>1. (v \in held') = FALSE
    BY <1>1, <1>3
  <2>. QED
    BY <1>5, <1>9, <1>10, <2>1
<1>13. \A r \in Sockets : r # s =>
          SocketInv(r[2], up'[r], down'[r], r \in live, r \in held',
                    tab[r[1]].ws, tab[r[1]].gen = r[2])
  <2> SUFFICES ASSUME NEW r \in Sockets, r # s, r # v
               PROVE  SocketInv(r[2], up'[r], down'[r], r \in live, r \in held',
                                tab[r[1]].ws, tab[r[1]].gen = r[2])
    BY <1>12
  <2>1. (r \in held') = (r \in held)
    BY <1>1
  <2>. QED
    BY <1>9, <1>10, <2>1, Queues
<1>14. SignallingTypeOK' /\ OneHandle' /\ held' \subseteq Sockets /\ peer' \in Sockets \cup {NoSocket}
  BY <1>1, <1>2 DEF Core, SignallingTypeOK, OneHandle, WiresTypeOK
<1>. QED
  BY <1>1, <1>9, <1>10, <1>11, <1>13, <1>14, DeviceFrame

LEMMA HandleOfferStep ==
  ASSUME Core, UNCHANGED browser, NEW s \in Sockets, HandleOffer(s)
  PROVE  Core'
<1> DEFINE m == Sdp("answer", Head(up[s]).of)
<1>1. /\ up' = Taken(up, s) /\ down' = ToBrowser(down, s, <<m>>) /\ up[s] # <<>>
      /\ Head(up[s]).kind = "offer"
      /\ peer' = NoSocket /\ dtls' = "ready" /\ established' = FALSE
      /\ UNCHANGED <<live, held, itsHandle, udp>>
  BY DEF HandleOffer, Heads, FreshTransport
<1>2. m \in Messages(Downward)
      /\ SocketInv(s[2], Tail(up[s]), IF s \in live THEN down[s] \o <<m>> ELSE down[s],
                   s \in live, s \in held, tab[s[1]].ws, tab[s[1]].gen = s[2])
  BY <1>1, Queues, SocketParts, SocketAnswered
<1> HIDE DEF m
<1>3. /\ up' \in [Sockets -> Seq(Messages(Upward))] /\ up'[s] = Tail(up[s])
      /\ \A r \in Sockets : r # s => up'[r] = up[r]
  <2>1. up \in [Sockets -> Seq(Messages(Upward))]
    BY Queues
  <2>. QED
    BY <1>1, <2>1, UpTaken
<1>4. /\ down' \in [Sockets -> Seq(Messages(Downward))]
      /\ down'[s] = IF s \in live THEN down[s] \o <<m>> ELSE down[s]
      /\ \A r \in Sockets : r # s => down'[r] = down[r]
  <2>1. down \in [Sockets -> Seq(Messages(Downward))] /\ down[s] \in Seq(Messages(Downward))
    BY Queues
  <2>2. down[s] \o <<m>> \in Seq(Messages(Downward))
    BY <1>2, <2>1
  <2>. QED
    BY <1>1, <2>1, <2>2 DEF ToBrowser
<1>5. \A r \in Sockets : r # s => SocketInv(r[2], up'[r], down'[r], r \in live, r \in held',
                                            tab[r[1]].ws, tab[r[1]].gen = r[2])
  BY <1>1, <1>3, <1>4, OthersKeep
<1>6. SocketInv(s[2], up'[s], down'[s], s \in live, s \in held',
                tab[s[1]].ws, tab[s[1]].gen = s[2])
  BY <1>1, <1>2, <1>3, <1>4
<1>7. SignallingTypeOK' /\ OneHandle' /\ held' \subseteq Sockets /\ peer' \in Sockets \cup {NoSocket}
  BY <1>1 DEF Core, SignallingTypeOK, OneHandle, WiresTypeOK
<1>. QED
  BY <1>1, <1>3, <1>4, <1>5, <1>6, <1>7, DeviceFrame

\* The active connection ends, by its close frame or as ITS reports it.
LEMMA ConnectionEnds ==
  ASSUME Core, UNCHANGED <<live, down, browser>>, NEW s \in Sockets, s = itsHandle,
         up[s] # <<>>, Head(up[s]).kind \in Ends,
         up' = Cleared(up, s), held' = held \ {s}, itsHandle' = NoSocket,
         peer' \in Sockets \cup {NoSocket}, dtls' \in {"off", "ready", "up"},
         established' \in BOOLEAN, udp' \in BOOLEAN
  PROVE  Core'
<1>1. s \in live => Has(down[s], Closings)
  <2>1. Has(up[s], Ends)
    BY Queues, HasTail
  <2>. QED
    BY <2>1, Queues DEF SocketInv
<1>2. SocketInv(s[2], <<>>, down[s], s \in live, FALSE, tab[s[1]].ws, tab[s[1]].gen = s[2])
  BY <1>1, Queues, SocketDropped
<1>3. /\ up' \in [Sockets -> Seq(Messages(Upward))] /\ up'[s] = <<>>
      /\ \A r \in Sockets : r # s => up'[r] = up[r]
  <2>1. up \in [Sockets -> Seq(Messages(Upward))]
    BY Queues
  <2>. QED
    BY <2>1, UpCleared
<1>4. held \subseteq {s} /\ (s \in held') = FALSE
  BY DEF Core, OneHandle
<1>5. \A r \in Sockets : r # s => SocketInv(r[2], up'[r], down'[r], r \in live, r \in held',
                                            tab[r[1]].ws, tab[r[1]].gen = r[2])
  <2>1. \A r \in Sockets : r # s => (r \in held') = (r \in held)
    OBVIOUS
  <2>. QED
    BY <1>3, <2>1, OthersKeep
<1>6. SocketInv(s[2], up'[s], down'[s], s \in live, s \in held',
                tab[s[1]].ws, tab[s[1]].gen = s[2])
  BY <1>2, <1>3, <1>4
<1>7. SignallingTypeOK' /\ OneHandle' /\ held' \subseteq Sockets
  BY <1>4 DEF Core, SignallingTypeOK, OneHandle, WiresTypeOK
<1>8. down' \in [Sockets -> Seq(Messages(Downward))]
  BY Queues
<1>. QED
  BY <1>3, <1>5, <1>6, <1>7, <1>8, DeviceFrame

LEMMA DeviceStepKeeps ==
  ASSUME Core, NEW s \in Sockets, DeviceStep(s)
  PROVE  Core'
<1>0. UNCHANGED browser
  BY DEF DeviceStep
<1>1. CASE RefuseBusy(s)
  BY <1>0, <1>1, RefuseStep DEF RefuseBusy, Heads, Asks, Closings
<1>2. CASE Accept(s)
  BY <1>0, <1>2, AcceptStep
<1>3. CASE Evict(s)
  BY <1>0, <1>3, EvictStep
<1>4. CASE HandleOffer(s)
  BY <1>0, <1>4, HandleOfferStep
<1>5. CASE ReadClose(s)
  BY <1>0, <1>5, ConnectionEnds
     DEF ReadClose, Heads, Ends, LetGo, Core, WiresTypeOK, SignallingTypeOK
<1>6. CASE ItsDisconnect(s)
  <2>1. s = itsHandle /\ itsHandle # NoSocket
    BY <1>6, SocketParts DEF ItsDisconnect, Core, OneHandle
  <2>. QED
    BY <1>0, <1>6, <2>1, ConnectionEnds
       DEF ItsDisconnect, SessionTeardown, Heads, Ends, Core, WiresTypeOK, SignallingTypeOK
<1>. QED
  BY <1>1, <1>2, <1>3, <1>4, <1>5, <1>6 DEF DeviceStep

LEMMA BreaksStep ==
  ASSUME Core, NEW s \in Sockets, Breaks(s)
  PROVE  Core'
<1> DEFINE bye == <<Note("lost")>>
           v == IF s \in held THEN Append(up[s], Note("gone")) ELSE <<>>
<1>1. /\ s \in live
      /\ up' = IF s \in held THEN ToDevice(s, Note("gone")) ELSE Cleared(up, s)
      /\ down' = ToBrowser(down, s, bye)
      /\ UNCHANGED <<live, held, peer, itsHandle, dtls, established, udp, browser>>
  BY DEF Breaks, device
<1>2. SocketInv(s[2], v, down[s] \o bye, s \in live, s \in held,
                tab[s[1]].ws, tab[s[1]].gen = s[2])
  BY <1>1, Queues, SocketBroken
<1>3. Note("gone") \in Messages(Upward) /\ Note("lost") \in Messages(Downward)
  BY Notes DEF Upward, Downward, Closings
<1>4. bye \in Seq(Messages(Downward))
  BY <1>3
<1>5. /\ up \in [Sockets -> Seq(Messages(Upward))] /\ up[s] \in Seq(Messages(Upward))
      /\ down \in [Sockets -> Seq(Messages(Downward))] /\ down[s] \in Seq(Messages(Downward))
  BY Queues
<1>6. v \in Seq(Messages(Upward))
  BY <1>3, <1>5
<1>7. up' = [up EXCEPT ![s] = v]
  BY <1>1 DEF ToDevice, Reachable, Cleared
<1> HIDE DEF bye, v
<1>8. /\ up' \in [Sockets -> Seq(Messages(Upward))] /\ up'[s] = v
      /\ \A r \in Sockets : r # s => up'[r] = up[r]
  BY <1>5, <1>6, <1>7
<1>9. /\ down' \in [Sockets -> Seq(Messages(Downward))] /\ down'[s] = down[s] \o bye
      /\ \A r \in Sockets : r # s => down'[r] = down[r]
  <2>1. down[s] \o bye \in Seq(Messages(Downward))
    BY <1>4, <1>5
  <2>. QED
    BY <1>1, <1>5, <2>1 DEF ToBrowser
<1>10. \A r \in Sockets : r # s => SocketInv(r[2], up'[r], down'[r], r \in live, r \in held',
                                             tab[r[1]].ws, tab[r[1]].gen = r[2])
  BY <1>1, <1>8, <1>9, OthersKeep
<1>11. SocketInv(s[2], up'[s], down'[s], s \in live, s \in held',
                 tab[s[1]].ws, tab[s[1]].gen = s[2])
  BY <1>1, <1>2, <1>8, <1>9
<1>12. SignallingTypeOK' /\ OneHandle' /\ held' \subseteq Sockets /\ peer' \in Sockets \cup {NoSocket}
  BY <1>1 DEF Core, SignallingTypeOK, OneHandle, WiresTypeOK
<1>. QED
  BY <1>1, <1>8, <1>9, <1>10, <1>11, <1>12, DeviceFrame

LEMMA FoundOutStep ==
  ASSUME Core, NEW s \in Sockets, FoundOut(s)
  PROVE  Core'
<1> DEFINE v == Append(up[s], Note("gone"))
<1>1. /\ s \in held /\ s \notin live /\ up' = [up EXCEPT ![s] = v]
      /\ UNCHANGED <<down, live, held, peer, itsHandle, dtls, established, udp, browser>>
  BY DEF FoundOut, device, ToDevice, Reachable
<1>2. Note("gone") \in Messages(Upward) /\ Note("gone").kind = "gone"
  BY Notes DEF Upward
<1>3. SocketInv(s[2], v, down[s], s \in live, s \in held, tab[s[1]].ws, tab[s[1]].gen = s[2])
  BY <1>1, <1>2, Queues, DeviceTold DEF Asks
<1>4. v \in Seq(Messages(Upward))
  BY <1>3 DEF SocketInv
<1>5. up \in [Sockets -> Seq(Messages(Upward))] /\ down' \in [Sockets -> Seq(Messages(Downward))]
  BY <1>1, Queues
<1> HIDE DEF v
<1>6. /\ up' \in [Sockets -> Seq(Messages(Upward))] /\ up'[s] = v
      /\ \A r \in Sockets : r # s => up'[r] = up[r]
  BY <1>1, <1>4, <1>5
<1>7. \A r \in Sockets : r # s => SocketInv(r[2], up'[r], down'[r], r \in live, r \in held',
                                            tab[r[1]].ws, tab[r[1]].gen = r[2])
  BY <1>1, <1>6, OthersKeep
<1>8. SocketInv(s[2], up'[s], down'[s], s \in live, s \in held',
                tab[s[1]].ws, tab[s[1]].gen = s[2])
  BY <1>1, <1>3, <1>6
<1>9. SignallingTypeOK' /\ OneHandle' /\ held' \subseteq Sockets /\ peer' \in Sockets \cup {NoSocket}
  BY <1>1 DEF Core, SignallingTypeOK, OneHandle, WiresTypeOK
<1>. QED
  BY <1>1, <1>5, <1>6, <1>7, <1>8, <1>9, DeviceFrame

-----------------------------------------------------------------------------
(* The steps of a tab. *)

LEMMA TabParts ==
  ASSUME Core, NEW t \in Tabs
  PROVE  /\ PageInv(tab[t]) /\ tab[t] \in Page /\ tab \in [Tabs -> Page]
         /\ awaiting \in [Tabs -> SUBSET Gens]
         /\ HasSocket(t) => Mine(t) \in Sockets
         /\ \A s \in Sockets : s[1] = t /\ s[2] = tab[t].gen => s = Mine(t)
         /\ \A s \in Sockets : s = Mine(t) => s[1] = t /\ s[2] = tab[t].gen
<1>1. PageInv(tab[t]) /\ tab[t] \in Page /\ tab \in [Tabs -> Page]
      /\ awaiting \in [Tabs -> SUBSET Gens]
  BY DEF Core, PagesOK, BrowserTypeOK
<1>2. HasSocket(t) => tab[t].gen \in Gens
  BY <1>1 DEF HasSocket, PageInv
<1>. QED
  BY <1>1, <1>2, SocketParts DEF Mine, Sockets

\* What a step of tab t, whose page becomes p, has to be shown to keep.
LEMMA BrowserFrame ==
  ASSUME Core, UNCHANGED <<held, device>>, NEW t \in Tabs, NEW p, PageInv(p), Becomes(t, p),
         awaiting' \in [Tabs -> SUBSET Gens],
         up' \in [Sockets -> Seq(Messages(Upward))],
         down' \in [Sockets -> Seq(Messages(Downward))],
         live' \subseteq Sockets, peer' \in Sockets \cup {NoSocket},
         \A r \in Sockets : r[1] # t => /\ up'[r] = up[r] /\ down'[r] = down[r]
                                        /\ (r \in live') = (r \in live),
         \A r \in Sockets : r[1] = t =>
             SocketInv(r[2], up'[r], down'[r], r \in live', r \in held, p.ws, p.gen = r[2])
  PROVE  Core'
<1>1. tab \in [Tabs -> Page] /\ p \in Page
  BY TabParts DEF PageInv
<1>2. tab' \in [Tabs -> Page] /\ tab'[t] = p /\ \A q \in Tabs : q # t => tab'[q] = tab[q]
  BY <1>1 DEF Becomes
<1>3. WiresTypeOK' /\ SignallingTypeOK' /\ BrowserTypeOK' /\ OneHandle'
  BY <1>2 DEF Core, WiresTypeOK, SignallingTypeOK, BrowserTypeOK, OneHandle, device
<1>4. PagesOK'
  BY <1>2 DEF Core, PagesOK
<1>5. SocketsOK'
  <2> SUFFICES ASSUME NEW r \in Sockets
               PROVE  SocketInv(r[2], up'[r], down'[r], r \in live', r \in held',
                                tab'[r[1]].ws, tab'[r[1]].gen = r[2])
    BY DEF SocketsOK
  <2>1. r[1] \in Tabs
    BY SocketParts
  <2>2. CASE r[1] = t
    BY <1>2, <2>2
  <2>3. CASE r[1] # t
    <3>1. tab'[r[1]] = tab[r[1]] /\ up'[r] = up[r] /\ down'[r] = down[r]
          /\ (r \in live') = (r \in live) /\ held' = held
      BY <1>2, <2>1, <2>3
    <3>. QED
      BY <3>1, Queues
  <2>. QED
    BY <2>2, <2>3
<1>. QED
  BY <1>3, <1>4, <1>5 DEF Core

\* A step of a tab that changes its page only.
LEMMA PageFrame ==
  ASSUME Core, UNCHANGED <<wires, device>>, NEW t \in Tabs, NEW p, PageInv(p), Becomes(t, p),
         awaiting' \in [Tabs -> SUBSET Gens], p.ws = tab[t].ws, p.gen = tab[t].gen
  PROVE  Core'
<1>1. /\ up' \in [Sockets -> Seq(Messages(Upward))]
      /\ down' \in [Sockets -> Seq(Messages(Downward))]
      /\ live' \subseteq Sockets /\ peer' \in Sockets \cup {NoSocket}
  BY DEF Core, WiresTypeOK, wires
<1>2. \A r \in Sockets : up'[r] = up[r] /\ down'[r] = down[r] /\ (r \in live') = (r \in live)
  BY DEF wires
<1>3. \A r \in Sockets : r[1] = t =>
         SocketInv(r[2], up'[r], down'[r], r \in live', r \in held, p.ws, p.gen = r[2])
  BY <1>2 DEF Core, SocketsOK
<1>4. UNCHANGED held
  BY DEF wires
<1>. QED
  BY <1>1, <1>2, <1>3, <1>4, BrowserFrame, SMTT(90)

\* No socket of the tab but its current one is live.
LEMMA NotLive ==
  ASSUME Core, NEW t \in Tabs, NEW r \in Sockets, r[1] = t, r \in live
  PROVE  r = Mine(t) /\ HasSocket(t)
<1>1. tab[t].gen = r[2] /\ tab[t].ws \in {"opening", "open"}
  BY Queues DEF SocketInv
<1>. QED
  BY <1>1, TabParts DEF HasSocket

\* What the tab leaves behind when its socket is closed, or nothing changes.
LEMMA LeftBehind ==
  ASSUME Core, NEW t \in Tabs, HasSocket(t), NEW m \in Messages(Upward), m.kind \in Ends
  PROVE  LET s == Mine(t)
         IN  /\ ToDevice(s, m) \in [Sockets -> Seq(Messages(Upward))]
             /\ \A r \in Sockets : r # s => ToDevice(s, m)[r] = up[r]
             /\ \A x : SocketInv(s[2], ToDevice(s, m)[s], down[s], FALSE, s \in held, x, FALSE)
<1> DEFINE s == Mine(t)
           v == Append(up[s], m)
<1>1. s \in Sockets
  BY TabParts
<1> HIDE DEF s
<1>2. \A x : SocketInv(s[2], up[s], down[s], FALSE, s \in held, x, FALSE)
  BY <1>1, Queues, SocketPassed
<1>3. \A x : SocketInv(s[2], v, down[s], FALSE, s \in held, x, FALSE)
  BY <1>2, DeviceTold DEF Ends, Asks
<1>4. v \in Seq(Messages(Upward)) /\ up \in [Sockets -> Seq(Messages(Upward))]
  BY <1>1, <1>3, Queues DEF SocketInv
<1> HIDE DEF v
<1>5. ToDevice(s, m) = IF Reachable(s) THEN [up EXCEPT ![s] = v] ELSE up
  BY DEF ToDevice, v
<1>6. /\ ToDevice(s, m) \in [Sockets -> Seq(Messages(Upward))]
      /\ \A r \in Sockets : r # s => ToDevice(s, m)[r] = up[r]
      /\ ToDevice(s, m)[s] = IF Reachable(s) THEN v ELSE up[s]
  BY <1>1, <1>4, <1>5
<1>7. \A x : SocketInv(s[2], ToDevice(s, m)[s], down[s], FALSE, s \in held, x, FALSE)
  BY <1>2, <1>3, <1>6
<1>. QED
  BY <1>6, <1>7 DEF s

LEMMA SocketsLeft ==
  ASSUME Core, NEW t \in Tabs
  PROVE  /\ UpWithout(t) \in [Sockets -> Seq(Messages(Upward))]
         /\ DownWithout(t) \in [Sockets -> Seq(Messages(Downward))]
         /\ \A r \in Sockets : r # Mine(t) \/ ~HasSocket(t) =>
               UpWithout(t)[r] = up[r] /\ DownWithout(t)[r] = down[r]
         /\ \A r \in Sockets : r[1] = t => \A x :
               SocketInv(r[2], UpWithout(t)[r], DownWithout(t)[r], FALSE, r \in held, x, FALSE)
<1>0. \A r \in Sockets : \A x : SocketInv(r[2], up[r], down[r], FALSE, r \in held, x, FALSE)
  BY Queues, SocketPassed
<1>1. CASE ~HasSocket(t)
  BY <1>0, <1>1 DEF UpWithout, DownWithout, Core, WiresTypeOK
<1>2. CASE HasSocket(t)
  <2> DEFINE s == Mine(t)
             m == Goodbye(t)
             e == Undelivered(t)
  <2>1. m \in Messages(Upward) /\ m.kind \in Ends
    BY Notes DEF Goodbye, Ends, Upward
  <2>2. s \in Sockets
    BY <1>2, TabParts
  <2>3. /\ UpWithout(t) = ToDevice(s, m) /\ DownWithout(t) = [down EXCEPT ![s] = e]
        /\ e = <<>> \/ (down[s] # <<>> /\ e = <<Head(down[s])>>)
    BY <1>2 DEF UpWithout, DownWithout, Undelivered, Heads
  <2> HIDE DEF m, e
  <2>4. /\ ToDevice(s, m) \in [Sockets -> Seq(Messages(Upward))]
        /\ \A r \in Sockets : r # s => ToDevice(s, m)[r] = up[r]
        /\ \A x : SocketInv(s[2], ToDevice(s, m)[s], down[s], FALSE, s \in held, x, FALSE)
    BY <1>2, <2>1, LeftBehind
  <2> HIDE DEF s
  <2>5. \A x : SocketInv(s[2], ToDevice(s, m)[s], e, FALSE, s \in held, x, FALSE)
    <3> SUFFICES ASSUME NEW x
                 PROVE  SocketInv(s[2], ToDevice(s, m)[s], e, FALSE, s \in held, x, FALSE)
      OBVIOUS
    <3>. QED
      BY <2>3, <2>4, SocketLeft
  <2>6. e \in Seq(Messages(Downward)) /\ down \in [Sockets -> Seq(Messages(Downward))]
    BY <2>2, <2>5, Queues DEF SocketInv
  <2>7. /\ DownWithout(t) \in [Sockets -> Seq(Messages(Downward))] /\ DownWithout(t)[s] = e
        /\ \A r \in Sockets : r # s => DownWithout(t)[r] = down[r]
    BY <2>2, <2>3, <2>6
  <2>8. /\ UpWithout(t) \in [Sockets -> Seq(Messages(Upward))]
        /\ \A r \in Sockets : r # s => UpWithout(t)[r] = up[r]
        /\ \A x : SocketInv(s[2], UpWithout(t)[s], DownWithout(t)[s], FALSE, s \in held, x, FALSE)
    BY <2>3, <2>4, <2>5, <2>7
  <2>. QED
    BY <1>0, <1>2, <2>7, <2>8 DEF s
<1>. QED
  BY <1>1, <1>2

\* A tab gives its socket up.
LEMMA CloseSocketStep ==
  ASSUME Core, UNCHANGED device, NEW t \in Tabs, NEW p, PageInv(p), Becomes(t, p),
         p.ws = "none", p.gen = 0, CloseSocket(t), awaiting' \in [Tabs -> SUBSET Gens]
  PROVE  Core'
<1>1. /\ up' = UpWithout(t) /\ down' = DownWithout(t) /\ live' = live \ {Mine(t)}
      /\ UNCHANGED <<held, peer>>
  BY DEF CloseSocket
<1>2. /\ up' \in [Sockets -> Seq(Messages(Upward))]
      /\ down' \in [Sockets -> Seq(Messages(Downward))]
      /\ live' \subseteq Sockets /\ peer' \in Sockets \cup {NoSocket}
  BY <1>1, SocketsLeft DEF Core, WiresTypeOK
<1>3. \A r \in Sockets : r[1] # t => /\ up'[r] = up[r] /\ down'[r] = down[r]
                                     /\ (r \in live') = (r \in live)
  <2> SUFFICES ASSUME NEW r \in Sockets, r[1] # t
               PROVE  up'[r] = up[r] /\ down'[r] = down[r] /\ (r \in live') = (r \in live)
    OBVIOUS
  <2>1. r # Mine(t)
    BY TabParts
  <2>2. UpWithout(t)[r] = up[r] /\ DownWithout(t)[r] = down[r]
    BY <2>1, SocketsLeft
  <2>. QED
    BY <1>1, <2>1, <2>2
<1>4. \A r \in Sockets : r[1] = t =>
         SocketInv(r[2], up'[r], down'[r], r \in live', r \in held, p.ws, p.gen = r[2])
  <2> SUFFICES ASSUME NEW r \in Sockets, r[1] = t
               PROVE  SocketInv(r[2], up'[r], down'[r], r \in live', r \in held, p.ws, p.gen = r[2])
    OBVIOUS
  <2>1. (r \in live') = FALSE
    BY <1>1, NotLive
  <2>2. (p.gen = r[2]) = FALSE
    BY SocketParts, WiresAssumption
  <2>. QED
    <3>1. SocketInv(r[2], UpWithout(t)[r], DownWithout(t)[r], FALSE, r \in held, p.ws, FALSE)
      BY SocketsLeft
    <3>. QED
      BY <1>1, <2>1, <2>2, <3>1
<1>. QED
  BY <1>1, <1>2, <1>3, <1>4, BrowserFrame

\* A tab opens its next socket.
LEMMA OpenSignalingStep ==
  ASSUME Core, UNCHANGED device, NEW t \in Tabs, NEW kind \in Asks, OpenSignaling(t, kind)
  PROVE  Core'
<1>1. PICK g \in Gens :
        /\ IsFresh(t, g)
        /\ Becomes(t, [TornDown(tab[t]) EXCEPT !.want = TRUE, !.timer = FALSE,
                           !.state = "connecting", !.gen = g, !.ws = "opening"])
        /\ up' = [UpWithout(t) EXCEPT ![<<t, g>>] = <<Note(kind)>>]
        /\ down' = DownWithout(t)
        /\ live' = (live \ {Mine(t)}) \cup {<<t, g>>}
        /\ UNCHANGED <<held, peer, awaiting>>
  BY DEF OpenSignaling, Lowest
<1> DEFINE s == <<t, g>>
           p == [TornDown(tab[t]) EXCEPT !.want = TRUE, !.timer = FALSE,
                     !.state = "connecting", !.gen = g, !.ws = "opening"]
           q == <<Note(kind)>>
<1>2. s \in Sockets /\ s[1] = t /\ s[2] = g /\ (s # Mine(t) \/ ~HasSocket(t))
  BY <1>1 DEF Sockets, IsFresh, Mine
<1>3. s \notin held /\ down[s] = <<>>
  BY <1>1 DEF IsFresh
<1>4. PageInv(p) /\ p.ws = "opening" /\ p.gen = g
  <2>1. TornDown(tab[t]) \in Page
    BY TabParts, TornDownPage
  <2>2. /\ p \in Page /\ p.ws = "opening" /\ p.gen = g /\ p.want = TRUE /\ p.timer = FALSE
        /\ p.state = "connecting"
    BY <2>1 DEF Page, SessionState
  <2> HIDE DEF p
  <2>. QED
    BY <2>2 DEF PageInv, Parked
<1>5. SocketInv(g, q, <<>>, TRUE, FALSE, "opening", TRUE)
  BY SocketAsks
<1>6. q \in Seq(Messages(Upward))
  BY <1>5 DEF SocketInv
<1>7. Becomes(t, p) /\ up' = [UpWithout(t) EXCEPT ![s] = q] /\ down' = DownWithout(t)
      /\ live' = (live \ {Mine(t)}) \cup {s} /\ UNCHANGED <<held, peer, awaiting>>
  BY <1>1
<1> HIDE DEF p, q, s
<1>8. /\ UpWithout(t) \in [Sockets -> Seq(Messages(Upward))]
      /\ DownWithout(t) \in [Sockets -> Seq(Messages(Downward))]
  BY SocketsLeft
<1>9. /\ up' \in [Sockets -> Seq(Messages(Upward))] /\ up'[s] = q
      /\ \A r \in Sockets : r # s => up'[r] = UpWithout(t)[r]
      /\ down' \in [Sockets -> Seq(Messages(Downward))]
      /\ live' \subseteq Sockets /\ peer' \in Sockets \cup {NoSocket}
      /\ awaiting' \in [Tabs -> SUBSET Gens]
  BY <1>2, <1>6, <1>7, <1>8 DEF Core, WiresTypeOK, BrowserTypeOK
<1>10. \A r \in Sockets : r[1] # t => /\ up'[r] = up[r] /\ down'[r] = down[r]
                                      /\ (r \in live') = (r \in live)
  <2> SUFFICES ASSUME NEW r \in Sockets, r[1] # t
               PROVE  up'[r] = up[r] /\ down'[r] = down[r] /\ (r \in live') = (r \in live)
    OBVIOUS
  <2>1. r # Mine(t) /\ r # s
    BY <1>2, TabParts
  <2>2. UpWithout(t)[r] = up[r] /\ DownWithout(t)[r] = down[r]
    BY <2>1, SocketsLeft
  <2>. QED
    BY <1>7, <1>9, <2>1, <2>2
<1>11. \A r \in Sockets : r[1] = t =>
          SocketInv(r[2], up'[r], down'[r], r \in live', r \in held, p.ws, p.gen = r[2])
  <2> SUFFICES ASSUME NEW r \in Sockets, r[1] = t
               PROVE  SocketInv(r[2], up'[r], down'[r], r \in live', r \in held, p.ws, p.gen = r[2])
    OBVIOUS
  <2>1. CASE r = s
    <3>1. DownWithout(t)[s] = down[s]
      BY <1>2, SocketsLeft
    <3>2. (s \in live') = TRUE /\ (s \in held) = FALSE /\ (p.gen = s[2]) = TRUE
      BY <1>2, <1>3, <1>4, <1>7
    <3>. QED
      BY <1>2, <1>3, <1>4, <1>5, <1>7, <1>9, <2>1, <3>1, <3>2
  <2>2. CASE r # s
    <3>1. SocketInv(r[2], UpWithout(t)[r], DownWithout(t)[r], FALSE, r \in held, p.ws, FALSE)
      BY SocketsLeft
    <3>2. (r \in live') = FALSE
      BY <1>7, <2>2, NotLive
    <3>3. (p.gen = r[2]) = FALSE
      BY <1>2, <1>4, <2>2, SocketParts
    <3>. QED
      BY <1>7, <1>9, <2>2, <3>1, <3>2, <3>3
  <2>. QED
    BY <2>1, <2>2
<1>. QED
  BY <1>4, <1>7, <1>9, <1>10, <1>11, BrowserFrame

LEMMA WsOpenStep ==
  ASSUME Core, UNCHANGED device, NEW t \in Tabs, NEW g \in Gens, WsOpen(t, g)
  PROVE  Core'
<1> DEFINE s == <<t, g>>
<1>1. s \in Sockets /\ s[1] = t /\ s[2] = g
  BY DEF Sockets
<1>2. /\ down[s] # <<>> /\ Head(down[s]).kind = "open" /\ down' = Taken(down, s)
      /\ UNCHANGED <<up, live, held, peer>>
  BY DEF WsOpen, Heads
<1> HIDE DEF s
<1>3. SocketInv(g, up[s], Tail(down[s]), s \in live, s \in held, tab[t].ws, tab[t].gen = g)
  BY <1>1, <1>2, Queues, BrowserTakes DEF Closings
<1>4. /\ down' \in [Sockets -> Seq(Messages(Downward))] /\ down'[s] = Tail(down[s])
      /\ \A r \in Sockets : r # s => down'[r] = down[r]
  <2>1. Tail(down[s]) \in Seq(Messages(Downward)) /\ down \in [Sockets -> Seq(Messages(Downward))]
    BY <1>1, <1>3, Queues DEF SocketInv
  <2>. QED
    BY <1>1, <1>2, <2>1 DEF Taken
<1>5. /\ up' \in [Sockets -> Seq(Messages(Upward))] /\ live' \subseteq Sockets
      /\ peer' \in Sockets \cup {NoSocket}
  BY <1>2 DEF Core, WiresTypeOK
<1>6. \A r \in Sockets : r[1] # t => /\ up'[r] = up[r] /\ down'[r] = down[r]
                                     /\ (r \in live') = (r \in live)
  BY <1>1, <1>2, <1>4
<1>7. PageInv(tab[t]) /\ tab[t] \in Page
  BY TabParts
<1>8. CASE g = tab[t].gen
  <2> DEFINE p == [tab[t] EXCEPT !.ws = "open", !.timer = FALSE, !.pc = "new", !.dc = "connecting"]
  <2>1. /\ tab[t].ws = "opening"
        /\ SocketInv(g, up[s], Tail(down[s]), s \in live, s \in held, "open", TRUE)
    <3>1. (tab[t].gen = g) = TRUE
      BY <1>8
    <3>2. SocketInv(g, up[s], down[s], s \in live, s \in held, tab[t].ws, TRUE)
      BY <1>1, <3>1, Queues
    <3>. QED
      BY <1>2, <3>2, SocketOpens
  <2>2. Becomes(t, p) /\ awaiting' = [awaiting EXCEPT ![t] = @ \cup {g}]
    BY <1>8 DEF WsOpen
  <2>3. /\ p \in Page /\ p.ws = "open" /\ p.gen = tab[t].gen /\ p.want = tab[t].want
        /\ p.timer = FALSE /\ p.state = tab[t].state
    BY <1>7 DEF Page
  <2> HIDE DEF p
  <2>4. PageInv(p)
    BY <1>7, <2>1, <2>3 DEF PageInv
  <2>5. awaiting' \in [Tabs -> SUBSET Gens]
    BY <2>2, TabParts
  <2>6. \A r \in Sockets : r[1] = t =>
           SocketInv(r[2], up'[r], down'[r], r \in live', r \in held, p.ws, p.gen = r[2])
    <3> SUFFICES ASSUME NEW r \in Sockets, r[1] = t
                 PROVE  SocketInv(r[2], up'[r], down'[r], r \in live', r \in held,
                                  p.ws, p.gen = r[2])
      OBVIOUS
    <3>1. CASE r = s
      <4>1. (p.gen = s[2]) = TRUE
        BY <1>1, <1>8, <2>3
      <4>. QED
        BY <1>1, <1>2, <1>4, <2>1, <2>3, <3>1, <4>1
    <3>2. CASE r # s
      <4>1. SocketInv(r[2], up[r], down[r], FALSE, r \in held, "open", FALSE)
        BY Queues, SocketPassed
      <4>2. (p.gen = r[2]) = FALSE /\ r # Mine(t)
        BY <1>1, <1>8, <2>3, <3>2, SocketParts, TabParts DEF s
      <4>3. (r \in live') = FALSE
        BY <1>2, <4>2, NotLive
      <4>. QED
        BY <1>2, <1>4, <2>3, <3>2, <4>1, <4>2, <4>3
    <3>. QED
      BY <3>1, <3>2
  <2>. QED
    BY <1>2, <1>4, <1>5, <1>6, <2>2, <2>4, <2>5, <2>6, BrowserFrame
<1>9. CASE g # tab[t].gen
  <2>1. tab' = tab /\ awaiting' = awaiting
    BY <1>9 DEF WsOpen, browser
  <2>2. Becomes(t, tab[t]) /\ awaiting' \in [Tabs -> SUBSET Gens]
    BY <2>1, TabParts DEF Becomes
  <2>3. \A r \in Sockets : r[1] = t =>
           SocketInv(r[2], up'[r], down'[r], r \in live', r \in held,
                     tab[t].ws, tab[t].gen = r[2])
    <3> SUFFICES ASSUME NEW r \in Sockets, r[1] = t
                 PROVE  SocketInv(r[2], up'[r], down'[r], r \in live', r \in held,
                                  tab[t].ws, tab[t].gen = r[2])
      OBVIOUS
    <3>1. CASE r = s
      BY <1>1, <1>2, <1>3, <1>4, <3>1
    <3>2. CASE r # s
      <4>1. down'[r] = down[r] /\ up'[r] = up[r] /\ live' = live
        BY <1>2, <1>4, <3>2
      <4>. QED
        BY <4>1, Queues
    <3>. QED
      BY <3>1, <3>2
  <2>. QED
    BY <1>2, <1>4, <1>5, <1>6, <1>7, <2>2, <2>3, BrowserFrame
<1>. QED
  BY <1>8, <1>9

LEMMA SendOfferStep ==
  ASSUME Core, UNCHANGED device, NEW t \in Tabs, NEW g \in Gens, SendOffer(t, g)
  PROVE  Core'
<1> DEFINE s == Mine(t)
           m == Sdp("offer", g)
           v == Append(up[s], m)
<1>1. /\ awaiting' = [awaiting EXCEPT ![t] = @ \ {g}]
      /\ UNCHANGED <<down, live, held, peer, tab>>
      /\ up' = up \/ (g = tab[t].gen /\ HasSocket(t) /\ up' = [up EXCEPT ![s] = v])
  BY DEF SendOffer, Current, HasSocket, ToDevice
<1>2. Becomes(t, tab[t]) /\ PageInv(tab[t]) /\ awaiting' \in [Tabs -> SUBSET Gens]
  BY <1>1, TabParts DEF Becomes
<1>3. CASE up' = up
  BY <1>1, <1>2, <1>3, PageFrame DEF wires
<1>4. CASE g = tab[t].gen /\ HasSocket(t) /\ up' = [up EXCEPT ![s] = v]
  <2>1. s \in Sockets /\ s[1] = t /\ s[2] = g
    BY <1>4, TabParts DEF Mine
  <2>2. m \in Messages(Upward) /\ m.kind = "offer" /\ m.of = g
    BY Notes
  <2> HIDE DEF s, m
  <2>3. SocketInv(s[2], up[s], down[s], s \in live, s \in held, tab[t].ws, tab[t].gen = s[2])
    BY <2>1, Queues
  <2>4. SocketInv(s[2], v, down[s], s \in live, s \in held, tab[t].ws, tab[t].gen = s[2])
    BY <2>1, <2>2, <2>3, DeviceTold DEF Asks, Ends
  <2>5. v \in Seq(Messages(Upward)) /\ up \in [Sockets -> Seq(Messages(Upward))]
    BY <2>1, <2>4, Queues DEF SocketInv
  <2> HIDE DEF v
  <2>6. /\ up' \in [Sockets -> Seq(Messages(Upward))] /\ up'[s] = v
        /\ \A r \in Sockets : r # s => up'[r] = up[r]
    BY <1>4, <2>1, <2>5
  <2>7. \A r \in Sockets : r[1] = t =>
           SocketInv(r[2], up'[r], down'[r], r \in live', r \in held,
                     tab[t].ws, tab[t].gen = r[2])
    <3> SUFFICES ASSUME NEW r \in Sockets, r[1] = t
                 PROVE  SocketInv(r[2], up'[r], down'[r], r \in live', r \in held,
                                  tab[t].ws, tab[t].gen = r[2])
      OBVIOUS
    <3>1. CASE r = s
      BY <1>1, <2>4, <2>6, <3>1
    <3>2. CASE r # s
      <4>1. down'[r] = down[r] /\ up'[r] = up[r] /\ live' = live
        BY <1>1, <2>6, <3>2
      <4>. QED
        BY <4>1, Queues
    <3>. QED
      BY <3>1, <3>2
  <2>8. \A r \in Sockets : r[1] # t => up'[r] = up[r]
    BY <2>1, <2>6
  <2>9. /\ down' \in [Sockets -> Seq(Messages(Downward))] /\ live' \subseteq Sockets
        /\ peer' \in Sockets \cup {NoSocket}
    BY <1>1 DEF Core, WiresTypeOK
  <2>. QED
    BY <1>1, <1>2, <2>6, <2>7, <2>8, <2>9, BrowserFrame
<1>. QED
  BY <1>1, <1>3, <1>4

\* An event of the tab's own socket.
LEMMA SocketEventFrame ==
  ASSUME Core, UNCHANGED <<up, held, peer, device, awaiting>>, NEW t \in Tabs, HasSocket(t),
         NEW p, PageInv(p), Becomes(t, p), p.gen = tab[t].gen, NEW d,
         down' = [down EXCEPT ![Mine(t)] = d],
         \A r \in Sockets : r # Mine(t) => (r \in live') = (r \in live), live' \subseteq Sockets,
         SocketInv(Mine(t)[2], up[Mine(t)], d, Mine(t) \in live', Mine(t) \in held,
                   p.ws, TRUE)
  PROVE  Core'
<1> DEFINE s == Mine(t)
<1>1. s \in Sockets /\ s[1] = t /\ s[2] = tab[t].gen
  BY TabParts DEF Mine
<1>2. d \in Seq(Messages(Downward)) /\ down \in [Sockets -> Seq(Messages(Downward))]
  BY <1>1, Queues DEF SocketInv
<1>3. \A r \in Sockets : r # s => r \notin live \/ r[1] # t
  BY NotLive
<1>4. SocketInv(s[2], up[s], d, s \in live', s \in held, p.ws, TRUE)
  OBVIOUS
<1>5. down' = [down EXCEPT ![s] = d]
      /\ \A r \in Sockets : r # s => (r \in live') = (r \in live)
  OBVIOUS
<1> HIDE DEF s
<1>6. /\ down' \in [Sockets -> Seq(Messages(Downward))] /\ down'[s] = d
      /\ \A r \in Sockets : r # s => down'[r] = down[r]
  BY <1>1, <1>2, <1>5
<1>7. \A r \in Sockets : r[1] = t =>
         SocketInv(r[2], up'[r], down'[r], r \in live', r \in held, p.ws, p.gen = r[2])
  <2> SUFFICES ASSUME NEW r \in Sockets, r[1] = t
               PROVE  SocketInv(r[2], up'[r], down'[r], r \in live', r \in held,
                                p.ws, p.gen = r[2])
    OBVIOUS
  <2>1. CASE r = s
    <3>1. (p.gen = s[2]) = TRUE
      BY <1>1
    <3>. QED
      BY <1>4, <1>6, <2>1, <3>1
  <2>2. CASE r # s
    <3>1. SocketInv(r[2], up[r], down[r], FALSE, r \in held, p.ws, FALSE)
      BY Queues, SocketPassed
    <3>2. (p.gen = r[2]) = FALSE
      BY <1>1, <2>2, SocketParts
    <3>3. (r \in live') = FALSE
      BY <1>3, <1>5, <2>2
    <3>. QED
      BY <1>6, <2>2, <3>1, <3>2, <3>3
  <2>. QED
    BY <2>1, <2>2
<1>8. \A r \in Sockets : r[1] # t => /\ up'[r] = up[r] /\ down'[r] = down[r]
                                     /\ (r \in live') = (r \in live)
  BY <1>1, <1>5, <1>6
<1>9. /\ up' \in [Sockets -> Seq(Messages(Upward))] /\ peer' \in Sockets \cup {NoSocket}
      /\ awaiting' \in [Tabs -> SUBSET Gens]
  BY DEF Core, WiresTypeOK, BrowserTypeOK
<1>. QED
  BY <1>6, <1>7, <1>8, <1>9, BrowserFrame

LEMMA WsAnswerStep ==
  ASSUME Core, UNCHANGED device, NEW t \in Tabs, WsAnswer(t)
  PROVE  Core'
<1> DEFINE s == Mine(t)
           p == [tab[t] EXCEPT !.pc = IF @ = "new" THEN "answered" ELSE @]
<1>1. /\ HasSocket(t) /\ down[s] # <<>> /\ Head(down[s]).kind = "answer"
      /\ down' = [down EXCEPT ![s] = Tail(down[s])] /\ Becomes(t, p)
      /\ UNCHANGED <<up, live, held, peer, awaiting>>
  BY DEF WsAnswer, HasSocket, Heads, Taken
<1>2. /\ p \in Page /\ p.ws = tab[t].ws /\ p.gen = tab[t].gen /\ p.state = tab[t].state
      /\ p.want = tab[t].want /\ p.timer = tab[t].timer
      /\ p.pc = "none" <=> tab[t].pc = "none"
  BY TabParts DEF Page
<1> HIDE DEF p
<1>3. PageInv(p)
  BY <1>2, TabParts, SamePage
<1>4. s \in Sockets /\ s[1] = t /\ s[2] = tab[t].gen
  BY <1>1, TabParts DEF Mine
<1>5. live' \subseteq Sockets /\ live' = live
  BY <1>1 DEF Core, WiresTypeOK
<1> HIDE DEF s
<1>6. SocketInv(s[2], up[s], down[s], s \in live, s \in held, tab[t].ws, TRUE)
  <2>1. (tab[t].gen = s[2]) = TRUE
    BY <1>4
  <2>. QED
    BY <1>4, <2>1, Queues
<1>7. SocketInv(s[2], up[s], Tail(down[s]), s \in live, s \in held, tab[t].ws, TRUE)
  BY <1>1, <1>6, BrowserTakes DEF Closings
<1>. QED
  BY <1>1, <1>2, <1>3, <1>5, <1>7, SocketEventFrame DEF s

LEMMA WsCloseStep ==
  ASSUME Core, UNCHANGED device, NEW t \in Tabs, WsClose(t)
  PROVE  Core'
<1> DEFINE s == Mine(t)
           p == ClosedWith(tab[t], Head(down[s]).kind)
<1>1. /\ HasSocket(t) /\ Head(down[s]).kind \in Closings
      /\ down' = [down EXCEPT ![s] = <<>>] /\ Becomes(t, p) /\ live' = live \ {s}
      /\ UNCHANGED <<up, held, peer, awaiting>>
  BY DEF WsClose, Heads, Cleared
<1>2. PageInv(p) /\ p.ws = "closed" /\ p.gen = tab[t].gen
  BY <1>1, TabParts, ClosedPage DEF HasSocket
<1> HIDE DEF p
<1>3. s \in Sockets /\ s[1] = t /\ s[2] = tab[t].gen
  BY <1>1, TabParts DEF Mine
<1>4. live' \subseteq Sockets /\ (\A r \in Sockets : r # s => (r \in live') = (r \in live))
      /\ (s \in live') = FALSE
  BY <1>1 DEF Core, WiresTypeOK
<1> HIDE DEF s
<1>5. SocketInv(s[2], up[s], <<>>, FALSE, s \in held, "closed", TRUE)
  <2>1. (tab[t].gen = s[2]) = TRUE
    BY <1>3
  <2>2. SocketInv(s[2], up[s], down[s], s \in live, s \in held, tab[t].ws, TRUE)
    BY <1>3, <2>1, Queues
  <2>. QED
    BY <2>2, SocketEnds
<1>6. SocketInv(s[2], up[s], <<>>, s \in live', s \in held, p.ws, TRUE)
  BY <1>2, <1>4, <1>5
<1>. QED
  BY <1>1, <1>2, <1>4, <1>6, SocketEventFrame DEF s

\* Steps that change neither the page's socket nor its state.
LEMMA QuietStep ==
  ASSUME Core, UNCHANGED <<wires, device>>, NEW t \in Tabs, NEW p \in Page, Becomes(t, p),
         p.ws = tab[t].ws, p.gen = tab[t].gen, p.state = tab[t].state,
         p.want = tab[t].want, p.timer = tab[t].timer, p.pc = tab[t].pc,
         awaiting' = awaiting
  PROVE  Core'
<1>1. PageInv(p) /\ awaiting' \in [Tabs -> SUBSET Gens]
  BY TabParts, SamePage
<1>. QED
  BY <1>1, PageFrame

LEMMA PcConnectedStep ==
  ASSUME Core, UNCHANGED device, NEW t \in Tabs, PcConnected(t)
  PROVE  Core'
<1> DEFINE p == [tab[t] EXCEPT !.pc = "connected", !.state = "connected"]
<1>1. tab[t].pc = "answered" /\ Becomes(t, p) /\ UNCHANGED <<wires, awaiting>>
  BY DEF PcConnected
<1>2. /\ p \in Page /\ p.ws = tab[t].ws /\ p.gen = tab[t].gen /\ p.state = "connected"
      /\ p.want = tab[t].want /\ p.timer = tab[t].timer
  <2>1. tab[t] \in Page
    BY TabParts
  <2>. QED
    BY <2>1 DEF Page, SessionState
<1> HIDE DEF p
<1>3. PageInv(p) /\ awaiting' \in [Tabs -> SUBSET Gens]
  BY <1>1, <1>2, TabParts DEF PageInv, Parked
<1>. QED
  BY <1>1, <1>2, <1>3, PageFrame

LEMMA WantedStep ==
  ASSUME Core, UNCHANGED device, NEW t \in Tabs, Engaged(tab[t]),
         Becomes(t, [tab[t] EXCEPT !.want = TRUE]), UNCHANGED <<wires, awaiting>>
  PROVE  Core'
<1> DEFINE p == [tab[t] EXCEPT !.want = TRUE]
<1>1. /\ p \in Page /\ p.ws = tab[t].ws /\ p.gen = tab[t].gen /\ p.state = tab[t].state
      /\ p.want = TRUE /\ p.timer = tab[t].timer /\ p.pc = tab[t].pc
  <2>1. tab[t] \in Page
    BY TabParts
  <2>. QED
    BY <2>1 DEF Page
<1>2. Becomes(t, p)
  OBVIOUS
<1> HIDE DEF p
<1>3. PageInv(p) /\ awaiting' \in [Tabs -> SUBSET Gens]
  BY <1>1, TabParts DEF PageInv, Engaged, Parked
<1>. QED
  BY <1>1, <1>2, <1>3, PageFrame

LEMMA DcOpenStep ==
  ASSUME Core, UNCHANGED <<itsHandle, dtls, udp>>, established' = TRUE, NEW t \in Tabs, DcOpen(t)
  PROVE  Core'
<1> DEFINE p == [tab[t] EXCEPT !.dc = "open", !.ever = TRUE]
<1>1. Becomes(t, p) /\ UNCHANGED <<up, down, live, held, peer, awaiting>>
  BY DEF DcOpen
<1>2. /\ p \in Page /\ p.ws = tab[t].ws /\ p.gen = tab[t].gen /\ p.state = tab[t].state
      /\ p.want = tab[t].want /\ p.timer = tab[t].timer /\ p.pc = tab[t].pc
  <2>1. tab[t] \in Page
    BY TabParts
  <2>. QED
    BY <2>1 DEF Page
<1> HIDE DEF p
<1>3. PageInv(p)
  BY <1>2, TabParts, SamePage
<1>4. tab \in [Tabs -> Page]
  BY TabParts
<1>5. tab' \in [Tabs -> Page] /\ tab'[t] = p /\ \A q \in Tabs : q # t => tab'[q] = tab[q]
  BY <1>1, <1>2, <1>4 DEF Becomes
<1>6. \A q \in Tabs : tab'[q].ws = tab[q].ws /\ tab'[q].gen = tab[q].gen
  BY <1>2, <1>5
<1>7. PagesOK'
  BY <1>3, <1>5 DEF Core, PagesOK
<1>8. SocketsOK'
  <2> SUFFICES ASSUME NEW r \in Sockets
               PROVE  SocketInv(r[2], up[r], down[r], r \in live, r \in held,
                                tab'[r[1]].ws, tab'[r[1]].gen = r[2])
    BY <1>1 DEF SocketsOK
  <2>1. tab'[r[1]].ws = tab[r[1]].ws /\ tab'[r[1]].gen = tab[r[1]].gen
    BY <1>6, SocketParts
  <2>. QED
    BY <2>1, Queues
<1>9. WiresTypeOK' /\ SignallingTypeOK' /\ BrowserTypeOK' /\ OneHandle'
  BY <1>1, <1>5 DEF Core, WiresTypeOK, SignallingTypeOK, BrowserTypeOK, OneHandle
<1>. QED
  BY <1>7, <1>8, <1>9 DEF Core

\* The link is found down, on a page that differs from the tab's in its channel only.
LEMMA LinkDownStep ==
  ASSUME Core, UNCHANGED <<device, awaiting>>, NEW t \in Tabs, NEW page \in Page,
         page.ws = tab[t].ws, page.gen = tab[t].gen, page.state = tab[t].state,
         page.want = tab[t].want, page.timer = tab[t].timer, page.pc = tab[t].pc,
         EnterLinkDown(t, page)
  PROVE  Core'
<1> DEFINE p == [page EXCEPT !.linkDown = TRUE]
<1>1. \/ Becomes(t, Refreshed(p)) /\ CloseSocket(t) /\ page.want
      \/ Becomes(t, p) /\ UNCHANGED wires
  BY DEF EnterLinkDown, Refreshes
<1>2. /\ p \in Page /\ p.ws = tab[t].ws /\ p.gen = tab[t].gen /\ p.state = tab[t].state
      /\ p.want = tab[t].want /\ p.timer = tab[t].timer /\ p.pc = tab[t].pc
  BY DEF Page
<1> HIDE DEF p
<1>3. PageInv(p) /\ awaiting' \in [Tabs -> SUBSET Gens]
  BY <1>2, TabParts, SamePage
<1>4. CASE Becomes(t, Refreshed(p)) /\ CloseSocket(t) /\ page.want
  <2>1. PageInv(Refreshed(p)) /\ Refreshed(p).ws = "none" /\ Refreshed(p).gen = 0
    BY <1>2, <1>3, <1>4, RefreshedPage
  <2>. QED
    BY <1>3, <1>4, <2>1, CloseSocketStep
<1>5. CASE Becomes(t, p) /\ UNCHANGED wires
  BY <1>2, <1>3, <1>5, PageFrame
<1>. QED
  BY <1>1, <1>4, <1>5

LEMMA DcCloseStep ==
  ASSUME Core, UNCHANGED device, NEW t \in Tabs, DcClose(t)
  PROVE  Core'
<1> DEFINE p == [tab[t] EXCEPT !.dc = "none"]
<1>1. /\ EnterLinkDown(t, p) \/ (Becomes(t, p) /\ UNCHANGED wires)
      /\ awaiting' = awaiting
  BY DEF DcClose
<1>2. /\ p \in Page /\ p.ws = tab[t].ws /\ p.gen = tab[t].gen /\ p.state = tab[t].state
      /\ p.want = tab[t].want /\ p.timer = tab[t].timer /\ p.pc = tab[t].pc
  BY TabParts DEF Page
<1> HIDE DEF p
<1>. QED
  BY <1>1, <1>2, LinkDownStep, QuietStep

LEMMA HeartbeatStep ==
  ASSUME Core, UNCHANGED device, NEW t \in Tabs, Heartbeat(t)
  PROVE  Core'
BY TabParts, LinkDownStep DEF Heartbeat

LEMMA CloseStep ==
  ASSUME Core, UNCHANGED device, NEW t \in Tabs, Close(t)
  PROVE  Core'
<1> DEFINE p == [TornDown(tab[t]) EXCEPT !.want = FALSE, !.timer = FALSE, !.state = "idle"]
<1>1. TornDown(tab[t]) \in Page /\ TornDown(tab[t]).ws = "none" /\ TornDown(tab[t]).gen = 0
      /\ TornDown(tab[t]).pc = "none"
  BY TabParts, TornDownPage
<1>2. /\ p \in Page /\ p.ws = "none" /\ p.gen = 0 /\ p.pc = "none" /\ p.want = FALSE /\ p.timer = FALSE
      /\ p.state = "idle"
  BY <1>1 DEF Page, SessionState
<1>3. Becomes(t, p) /\ CloseSocket(t) /\ awaiting' \in [Tabs -> SUBSET Gens]
  BY TabParts DEF Close
<1> HIDE DEF p
<1>4. PageInv(p)
  BY <1>2 DEF PageInv
<1>. QED
  BY <1>2, <1>3, <1>4, CloseSocketStep

LEMMA PcFailedStep ==
  ASSUME Core, UNCHANGED device, NEW t \in Tabs, PcFailed(t)
  PROVE  Core'
<1>1. /\ PageInv(Failed(tab[t])) /\ Failed(tab[t]).ws = "none" /\ Failed(tab[t]).gen = 0
  BY TabParts, FailedPage
<1>2. Becomes(t, Failed(tab[t])) /\ CloseSocket(t) /\ awaiting' \in [Tabs -> SUBSET Gens]
  BY TabParts DEF PcFailed
<1>. QED
  BY <1>1, <1>2, CloseSocketStep

LEMMA TimerStep ==
  ASSUME Core, UNCHANGED device, NEW t \in Tabs, TimerFires(t)
  PROVE  Core'
<1>1. tab[t].want
  BY TabParts DEF TimerFires, PageInv
<1>. QED
  BY <1>1, OpenSignalingStep DEF TimerFires, Asks

\* The page goes.
LEMMA GoneStep ==
  ASSUME Core, UNCHANGED <<held, device>>, NEW t \in Tabs, Gone(t),
         peer' \in Sockets \cup {NoSocket},
         up' = up \/ (HasSocket(t) /\ up' = ToDevice(Mine(t), Note("gone")))
  PROVE  Core'
<1>1. /\ Becomes(t, NewPage) /\ awaiting' = [awaiting EXCEPT ![t] = {}]
      /\ live' = live \ {Mine(t)}
      /\ down' = [s \in Sockets |-> IF s[1] = t THEN <<>> ELSE down[s]]
  BY DEF Gone
<1>2. NewPage \in Page /\ NewPage.ws = "none" /\ NewPage.gen = 0 /\ PageInv(NewPage)
  BY DEF NewPage, Page, SessionState, PageInv
<1>3. awaiting' \in [Tabs -> SUBSET Gens] /\ live' \subseteq Sockets
  BY <1>1, TabParts DEF Core, WiresTypeOK
<1>4. /\ down' \in [Sockets -> Seq(Messages(Downward))]
      /\ \A r \in Sockets : r[1] = t => down'[r] = <<>>
      /\ \A r \in Sockets : r[1] # t => down'[r] = down[r]
  <2>1. <<>> \in Seq(Messages(Downward)) /\ down \in [Sockets -> Seq(Messages(Downward))]
    BY DEF Core, WiresTypeOK
  <2>. QED
    BY <1>1, <2>1
<1>5. Note("gone") \in Messages(Upward) /\ Note("gone").kind \in Ends
  BY Notes DEF Upward, Ends
<1>6. /\ up' \in [Sockets -> Seq(Messages(Upward))]
      /\ \A r \in Sockets : r # Mine(t) => up'[r] = up[r]
      /\ \A r \in Sockets : r[1] = t => \A x :
            SocketInv(r[2], up'[r], down[r], FALSE, r \in held, x, FALSE)
  <2>0. \A r \in Sockets : \A x : SocketInv(r[2], up[r], down[r], FALSE, r \in held, x, FALSE)
    BY Queues, SocketPassed
  <2>1. CASE up' = up
    BY <2>0, <2>1 DEF Core, WiresTypeOK
  <2>2. CASE HasSocket(t) /\ up' = ToDevice(Mine(t), Note("gone"))
    <3> DEFINE s == Mine(t)
               v == ToDevice(s, Note("gone"))
    <3>1. /\ v \in [Sockets -> Seq(Messages(Upward))]
          /\ \A r \in Sockets : r # s => v[r] = up[r]
          /\ \A x : SocketInv(s[2], v[s], down[s], FALSE, s \in held, x, FALSE)
      BY <1>5, <2>2, LeftBehind
    <3>2. up' = v
      BY <2>2
    <3> HIDE DEF v, s
    <3>3. \A r \in Sockets : r # s => up'[r] = up[r]
      BY <3>1, <3>2
    <3>4. \A r \in Sockets : r[1] = t => \A x :
              SocketInv(r[2], up'[r], down[r], FALSE, r \in held, x, FALSE)
      BY <2>0, <3>1, <3>2
    <3>. QED
      BY <3>1, <3>2, <3>3, <3>4 DEF s
  <2>. QED
    BY <2>1, <2>2
<1>7. \A r \in Sockets : r[1] = t =>
         SocketInv(r[2], up'[r], down'[r], r \in live', r \in held,
                   NewPage.ws, NewPage.gen = r[2])
  <2> SUFFICES ASSUME NEW r \in Sockets, r[1] = t
               PROVE  SocketInv(r[2], up'[r], down'[r], r \in live', r \in held,
                                NewPage.ws, NewPage.gen = r[2])
    OBVIOUS
  <2>1. (r \in live') = FALSE
    BY <1>1, NotLive
  <2>2. (NewPage.gen = r[2]) = FALSE
    BY <1>2, SocketParts, WiresAssumption
  <2>3. SocketInv(r[2], up'[r], down[r], FALSE, r \in held, NewPage.ws, FALSE)
    BY <1>6
  <2>4. SocketInv(r[2], up'[r], <<>>, FALSE, r \in held, NewPage.ws, FALSE)
    BY <2>3, SocketLeft
  <2>. QED
    BY <1>4, <2>1, <2>2, <2>4
<1>8. \A r \in Sockets : r[1] # t => /\ up'[r] = up[r] /\ down'[r] = down[r]
                                     /\ (r \in live') = (r \in live)
  <2> SUFFICES ASSUME NEW r \in Sockets, r[1] # t
               PROVE  up'[r] = up[r] /\ down'[r] = down[r] /\ (r \in live') = (r \in live)
    OBVIOUS
  <2>1. r # Mine(t)
    BY TabParts
  <2>. QED
    BY <1>1, <1>4, <1>6, <2>1
<1>. QED
  BY <1>1, <1>2, <1>3, <1>4, <1>6, <1>7, <1>8, BrowserFrame

LEMMA TabStepKeeps ==
  ASSUME Core, NEW t \in Tabs, SocketEvent(t) \/ LinkEvent(t) \/ LinkEnds(t) \/ UserStep(t)
  PROVE  Core'
<1>1. CASE SocketEvent(t)
  BY <1>1, WsAnswerStep, WsCloseStep, WsOpenStep, TimerStep, SendOfferStep DEF SocketEvent
<1>2. CASE LinkEvent(t)
  <2>1. CASE Handshake(t)
    <3>1. Mine(t) \in Sockets \cup {NoSocket}
      BY <2>1, TabParts DEF Handshake, PageInv, Mine, Sockets
    <3>. QED
      BY <2>1, <3>1, TransportFrame DEF Handshake, DtlsConnected, Core, SignallingTypeOK
  <2>2. CASE PcUp(t)
    BY <2>2, PcConnectedStep DEF PcUp
  <2>3. CASE ChannelUp(t)
    BY <2>3, DcOpenStep DEF ChannelUp
  <2>4. CASE Resynced(t)
    <3> DEFINE p == [tab[t] EXCEPT !.linkDown = FALSE]
    <3>1. tab[t] \in Page
      BY TabParts
    <3>2. /\ p \in Page /\ p.ws = tab[t].ws /\ p.gen = tab[t].gen /\ p.state = tab[t].state
          /\ p.want = tab[t].want /\ p.timer = tab[t].timer /\ p.pc = tab[t].pc
      BY <3>1 DEF Page
    <3>3. Becomes(t, p) /\ UNCHANGED <<wires, device, awaiting>>
      BY <2>4 DEF Resynced, DumpEnd
    <3> HIDE DEF p
    <3>. QED
      BY <3>2, <3>3, QuietStep
  <2>. QED
    BY <1>2, <2>1, <2>2, <2>3, <2>4 DEF LinkEvent
<1>3. CASE LinkEnds(t)
  BY <1>3, PcFailedStep, DcCloseStep, HeartbeatStep DEF LinkEnds, PcDown, ChannelDown, Silence
<1>4. CASE UserStep(t)
  <2>1. CASE Connect(t) /\ UNCHANGED device
    <3>1. CASE OpenSignaling(t, "ask")
      BY <2>1, <3>1, OpenSignalingStep DEF Asks
    <3>2. CASE Engaged(tab[t]) /\ Becomes(t, [tab[t] EXCEPT !.want = TRUE])
               /\ UNCHANGED <<wires, awaiting>>
      BY <2>1, <3>2, WantedStep
    <3>. QED
      BY <2>1, <3>1, <3>2 DEF Connect
  <2>2. CASE TakeOver(t) /\ UNCHANGED device
    BY <2>2, OpenSignalingStep DEF TakeOver, Asks
  <2>3. CASE Close(t) /\ UNCHANGED device
    BY <2>3, CloseStep
  <2>4. CASE Leave(t) /\ UNCHANGED device
    <3>1. peer' \in Sockets \cup {NoSocket}
      BY <2>4 DEF Leave, Core, WiresTypeOK
    <3>. QED
      BY <2>4, <3>1, GoneStep DEF Leave
  <2>. QED
    BY <1>4, <2>1, <2>2, <2>3, <2>4 DEF UserStep
<1>. QED
  BY <1>1, <1>2, <1>3, <1>4

LEMMA EnvironmentStepKeeps ==
  ASSUME Core, EnvironmentStep \/ NetworkBack
  PROVE  Core'
<1>1. ASSUME NEW s \in Sockets, Breaks(s) PROVE Core'
  BY <1>1, BreaksStep
<1>2. ASSUME NEW s \in Sockets, Expired(s) PROVE Core'
  BY <1>2, RefuseStep DEF Expired, RefuseAuth, Asks, Closings
<1>3. ASSUME NEW s \in Sockets, FoundOut(s) PROVE Core'
  BY <1>3, FoundOutStep
<1>4. ASSUME NEW t \in Tabs, Vanished(t) PROVE Core'
  <2>1. Gone(t) /\ UNCHANGED <<up, held, device>> /\ peer' \in Sockets \cup {NoSocket}
    BY <1>4 DEF Vanished, Vanish, Core, WiresTypeOK
  <2>. QED
    BY <2>1, GoneStep
<1>5. ASSUME NEW t \in Tabs, HeadsDown(t) PROVE Core'
  BY <1>5, HeartbeatStep DEF HeadsDown
<1>6. CASE Blackout \/ NobodySends
  BY <1>6, TransportFrame
     DEF Blackout, NobodySends, Inactivity, FreshTransport, Core, SignallingTypeOK
<1>7. CASE PeerClosed
  BY <1>7, TransportFrame DEF PeerClosed, CloseNotify, FreshTransport, Core, SignallingTypeOK
<1>8. CASE NetworkLost
  BY <1>8, TransportFrame DEF NetworkLost, NetworkDown, Core, SignallingTypeOK
<1>9. CASE NetworkBack
  BY <1>9, TransportFrame
     DEF NetworkBack, NetworkUp, wires, Core, SignallingTypeOK, WiresTypeOK
<1>. QED
  BY <1>1, <1>2, <1>3, <1>4, <1>5, <1>6, <1>7, <1>8, <1>9 DEF EnvironmentStep

LEMMA CoreInit == Init => Core
<1> SUFFICES ASSUME Init PROVE Core
  OBVIOUS
<1>1. /\ up = [s \in Sockets |-> <<>>] /\ down = [s \in Sockets |-> <<>>]
      /\ live = {} /\ held = {} /\ peer = NoSocket /\ itsHandle = NoSocket
      /\ dtls = "off" /\ established = FALSE /\ udp = TRUE
      /\ tab = [t \in Tabs |-> NewPage] /\ awaiting = [t \in Tabs |-> {}]
  BY DEF Init, WiresInit, SignallingInit, BrowserInit
<1>2. NewPage \in Page /\ NewPage.ws = "none" /\ NewPage.gen = 0 /\ PageInv(NewPage)
  BY DEF NewPage, Page, SessionState, PageInv
<1>3. <<>> \in Seq(Messages(Upward)) /\ <<>> \in Seq(Messages(Downward))
  OBVIOUS
<1>4. WiresTypeOK /\ SignallingTypeOK /\ BrowserTypeOK /\ OneHandle /\ PagesOK
  BY <1>1, <1>2, <1>3
     DEF WiresTypeOK, SignallingTypeOK, BrowserTypeOK, OneHandle, PagesOK
<1>5. SocketsOK
  <2> SUFFICES ASSUME NEW s \in Sockets
               PROVE  SocketInv(s[2], up[s], down[s], s \in live, s \in held,
                                tab[s[1]].ws, tab[s[1]].gen = s[2])
    BY DEF SocketsOK
  <2>1. /\ up[s] = <<>> /\ down[s] = <<>> /\ s \notin live /\ s \notin held
        /\ tab[s[1]].ws = "none"
    BY <1>1, <1>2, SocketParts
  <2>2. \A K, k, g : ~Has(<<>>, K) /\ OnlyFirst(<<>>, K) /\ Fits(<<>>, k, g)
    BY EmptyFacts
  <2>. QED
    BY <1>3, <2>1, <2>2 DEF SocketInv
<1>. QED
  BY <1>4, <1>5 DEF Core

LEMMA CoreStep == Core /\ [Next]_vars => Core'
<1> SUFFICES ASSUME Core, [Next]_vars PROVE Core'
  OBVIOUS
<1>1. CASE Next
  BY <1>1, DeviceStepKeeps, TabStepKeeps, EnvironmentStepKeeps DEF Next, DeviceRuns
<1>2. CASE UNCHANGED vars
  BY <1>2 DEF vars, wires, device, browser, Core, WiresTypeOK, SignallingTypeOK, BrowserTypeOK,
              OneHandle, SocketsOK, PagesOK
<1>. QED
  BY <1>1, <1>2

-----------------------------------------------------------------------------
(* The theorems. *)

BudgetsOK == faults \in 0 .. MaxFaults /\ takeOvers \in 0 .. MaxTakeOvers

LEMMA BudgetsStep ==
  ASSUME BudgetsOK, [Next]_vars
  PROVE  BudgetsOK'
<1>1. MaxFaults \in Nat /\ MaxTakeOvers \in Nat
  BY SessionAssumption
<1>2. CASE UNCHANGED budgets
  BY <1>2 DEF BudgetsOK, budgets
<1>3. CASE Fault
  BY <1>1, <1>3 DEF BudgetsOK, Fault
<1>4. CASE takeOvers > 0 /\ takeOvers' = takeOvers - 1 /\ UNCHANGED faults
  BY <1>1, <1>4 DEF BudgetsOK
<1>5. ASSUME NEW t \in Tabs, SocketEvent(t) \/ LinkEvent(t) \/ LinkEnds(t) PROVE BudgetsOK'
  BY <1>2, <1>5 DEF SocketEvent, LinkEvent, LinkEnds, Handshake, PcUp, ChannelUp, Resynced,
                    PcDown, ChannelDown, Silence, budgets
<1>6. ASSUME NEW t \in Tabs, UserStep(t) PROVE BudgetsOK'
  BY <1>2, <1>3, <1>4, <1>6 DEF UserStep
<1>7. CASE DeviceRuns
  BY <1>2, <1>7 DEF DeviceRuns, DeviceStep
<1>8. CASE EnvironmentStep \/ NetworkBack
  BY <1>2, <1>3, <1>8 DEF EnvironmentStep, NetworkBack, Breaks, Expired, FoundOut, Vanished,
                          HeadsDown, Blackout, NetworkLost, NobodySends, PeerClosed
<1>9. CASE UNCHANGED vars
  BY <1>2, <1>9 DEF vars
<1>. QED
  BY <1>5, <1>6, <1>7, <1>8, <1>9 DEF Next

Inv == Core /\ BudgetsOK

LEMMA InvAlways == Spec => []Inv
<1>1. Init => Inv
  BY CoreInit, SessionAssumption DEF Inv, BudgetsOK, Init
<1>2. Inv /\ [Next]_vars => Inv'
  BY CoreStep, BudgetsStep DEF Inv
<1>. QED
  BY <1>1, <1>2, PTL DEF Spec

\* The variables keep their types, so no more faults and take-overs happen than the
\* budgets allow.
THEOREM TypeCorrect == Spec => []TypeOK
<1>1. Inv => TypeOK
  BY DEF Inv, Core, BudgetsOK, TypeOK
<1>. QED
  BY <1>1, InvAlways, PTL

\* However many tabs ask, are evicted, break or vanish: the device holds at most one
\* signalling connection and it is the one it answers on (webrtc_task.cpp:851-940).
THEOREM OneHandleAlways == Spec => []OneHandle
<1>1. Inv => OneHandle
  BY DEF Inv, Core
<1>. QED
  BY <1>1, InvAlways, PTL

\* No offer and no answer travels on the socket of another generation, although the
\* browser's message handler tests no generation (webrtc-session.ts:200, :264-284).
THEOREM SdpFollows == Spec => []SdpFollowsSocket
<1>1. Inv => SdpFollowsSocket
  BY DEF Inv, Core, SocketsOK, SocketInv, Fits, SdpFollowsSocket
<1>. QED
  BY <1>1, InvAlways, PTL

\* A socket its tab takes for open is held by the device, or the device has still to
\* hear of it, or its end is under way (webrtc_task.cpp:851-940).
THEOREM SocketsAgreeAlways == Spec => []SocketsAgree
<1>1. ASSUME Inv PROVE SocketsAgree
  <2> SUFFICES ASSUME NEW t \in Tabs, HasSocket(t)
               PROVE  Mine(t) \in held \/ Asking(Mine(t)) \/ EndComing(Mine(t))
    BY DEF SocketsAgree
  <2>1. Mine(t) \in Sockets /\ Mine(t)[1] = t /\ Mine(t)[2] = tab[t].gen
    BY <1>1, TabParts DEF Inv, Mine
  <2>2. SocketInv(Mine(t)[2], up[Mine(t)], down[Mine(t)], Mine(t) \in live, Mine(t) \in held,
                  tab[t].ws, tab[t].gen = Mine(t)[2])
    BY <1>1, <2>1, Queues DEF Inv
  <2>3. Mine(t) \in live
    BY <2>1, <2>2 DEF SocketInv, HasSocket
  <2>4. Mine(t) \in held \/ Has(up[Mine(t)], Asks) \/ Has(down[Mine(t)], Closings)
    BY <2>2, <2>3 DEF SocketInv
  <2>. QED
    BY <2>4 DEF Has, Asks, Asking, EndComing
<1>. QED
  BY <1>1, InvAlways, PTL

\* A tab that was refused, evicted, sent to log in or closed has no reconnect pending
\* and no socket: tabs never fight over the session (webrtc-session.ts:122-129).
THEOREM NoAutoReconnectAlways == Spec => []NoAutoReconnect
<1>1. Inv => NoAutoReconnect
  BY DEF Inv, Core, PagesOK, PageInv, NoAutoReconnect, HasSocket
<1>. QED
  BY <1>1, InvAlways, PTL

\* A tab that wants a session and shows "connecting" or "error" has a socket or a
\* reconnect pending (webrtc-session.ts:122-129, :247-251).
THEOREM NeverStrandedAlways == Spec => []NeverStranded
<1>1. Inv => NeverStranded
  BY DEF Inv, Core, PagesOK, PageInv, NeverStranded, HasSocket
<1>. QED
  BY <1>1, InvAlways, PTL
=============================================================================
