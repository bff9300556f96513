-------------------------- MODULE SctpOutboundProofs --------------------------
(***************************************************************************)
(* Proofs about SctpOutbound for every pool, window, stream set, message   *)
(* size and number of TSNs: what a reliable stream was given is never      *)
(* lost, and never skipped by a FORWARD-TSN; the pool keeps its capacity,  *)
(* and the numbers are used without a gap.                                 *)
(***************************************************************************)
EXTENDS SctpOutbound, FiniteSetTheorems, WellFoundedInduction, SequenceTheorems, TLAPS

-----------------------------------------------------------------------------
(* The least and the greatest element of a set of TSNs.                    *)

\* The intervals 0..x are finite, and the finite sets are well founded under
\* strict inclusion: among the intervals of a set of numbers one is minimal.
LEMMA MinIsLeast ==
  ASSUME NEW S \in SUBSET Nat, S # {}
  PROVE  Min(S) \in S /\ \A y \in S : Min(S) <= y
<1>. DEFINE T == {0..x : x \in S}
<1>1. T \subseteq FiniteSubsetsOf(Nat) /\ T # {}
  <2>1. \A x \in S : IsFiniteSet(0..x) /\ 0..x \subseteq Nat
    <3>. TAKE x \in S
    <3>. QED
      BY FS_Interval
  <2>. QED
    BY <2>1 DEF FiniteSubsetsOf
<1>2. PICK I \in T : \A J \in T : ~ (<<J, I>> \in StrictSubsetOrdering(Nat))
  <2>. HIDE DEF T
  <2>. QED
    BY <1>1, FS_StrictSubsetOrderingWellFounded, WFMin
<1>3. PICK x \in S : I = 0..x
  BY <1>2
<1>4. \A y \in S : x <= y
  <2>1. SUFFICES ASSUME NEW y \in S, y < x
                 PROVE  FALSE
    OBVIOUS
  <2>2. 0..y \subseteq 0..x /\ x \in 0..x /\ x \notin 0..y
    BY <2>1
  <2>3. <<0..y, I>> \in StrictSubsetOrdering(Nat)
    BY <1>3, <2>2 DEF StrictSubsetOrdering
  <2>. QED
    BY <1>2, <2>3
<1>. QED
  BY <1>4 DEF Min

LEMMA MaxIsGreatest ==
  ASSUME NEW n \in Nat, NEW S \in SUBSET (0..n), S # {}
  PROVE  Max(S) \in S /\ \A y \in S : Max(S) >= y
<1>. DEFINE T == {n - x : x \in S}
<1>1. T \in SUBSET Nat /\ T # {}
  <2>1. \A x \in S : n - x \in Nat
    OBVIOUS
  <2>. QED
    BY <2>1
<1>2. Min(T) \in T /\ \A y \in T : Min(T) <= y
  BY <1>1, MinIsLeast
<1>3. PICK x \in S : Min(T) = n - x
  BY <1>2
<1>4. \A y \in S : x >= y
  BY <1>2, <1>3
<1>. QED
  BY <1>4 DEF Max

LEMMA MaxOfTwo ==
  ASSUME NEW a \in Nat, NEW b \in Nat
  PROVE  Max({a, b}) = IF a >= b THEN a ELSE b
<1>1. {a, b} \in SUBSET (0..(a + b)) /\ a + b \in Nat
  OBVIOUS
<1>2. Max({a, b}) \in {a, b} /\ \A y \in {a, b} : Max({a, b}) >= y
  BY <1>1, MaxIsGreatest
<1>. QED
  BY <1>2

-----------------------------------------------------------------------------
(* Type correctness.                                                       *)

\* Messages keep their numbers when another is appended.
LEMMA AppendKeeps ==
  ASSUME Typed, NEW m \in Message, msgs' = Append(msgs, m)
  PROVE  /\ msgs' \in Seq(Message)
         /\ DOMAIN msgs \subseteq DOMAIN msgs'
         /\ \A i \in DOMAIN msgs : msgs'[i] = msgs[i]
         /\ DOMAIN msgs' = DOMAIN msgs \cup {Len(msgs) + 1}
         /\ msgs'[Len(msgs) + 1] = m
         /\ Len(msgs) + 1 \in Nat \ {0} /\ Len(msgs) + 1 \notin DOMAIN msgs
  BY DEF Typed

LEMMA NumbersTyped ==
  ASSUME Typed, NEW i \in DOMAIN msgs
  PROVE  /\ msgs[i] \in Message /\ i \in Nat \ {0}
         /\ msgs[i].first \in Nat \ {0} /\ msgs[i].last \in Nat \ {0}
         /\ TsnsOf(i) \subseteq Tsns
<1>1. msgs[i] \in Message /\ i \in Nat \ {0}
  BY DEF Typed
<1>2. msgs[i].first \in 1..MaxTsn /\ msgs[i].last \in 1..MaxTsn
  BY <1>1 DEF Message, Tsns
<1>. QED
  BY <1>1, <1>2, SenderAssumption DEF TsnsOf, Tsns

\* A message sctpSend numbers is within the bounds of the instance.
LEMMA NewMessageTyped ==
  ASSUME Typed, NEW s \in Streams, NEW ssn \in 0..(SsnMod - 1), NEW n \in 1..MaxFrags,
         NEW ack \in BOOLEAN, myTsn + n - 1 <= MaxTsn
  PROVE  NewMessage(s, ssn, n, ack) \in Message
<1>1. myTsn \in Nat /\ n \in Nat /\ myTsn >= 1 /\ n >= 1 /\ MaxTsn \in Nat
  BY SenderAssumption DEF Typed
<1>2. myTsn \in Tsns /\ myTsn + n - 1 \in Tsns
  BY <1>1 DEF Tsns
<1>. QED
  BY <1>2 DEF NewMessage, Message

\* The bounds a step's arithmetic needs.
LEMMA Bounds ==
  ASSUME Typed
  PROVE  /\ MaxTsn \in Nat /\ Window \in Nat /\ SsnMod \in Nat /\ 0 \in 0..(SsnMod - 1)
         /\ myTsn \in Nat /\ myTsn >= 1 /\ myTsn <= MaxTsn + 1
         /\ peerRwnd \in Nat /\ peerRwnd <= Window
         /\ sackCum \in Nat /\ pendingFwd \in Nat /\ skip \in Nat
  BY SenderAssumption DEF Typed

LEMMA ChannelTyped ==
  ASSUME Typed, NEW s \in Streams, NEW ssn \in 0..(SsnMod - 1),
         NEW state \in {"new", "open", "closed"}
  PROVE  LET Table == [Streams -> [state : {"new", "open", "closed"}, ssn : 0..(SsnMod - 1)]]
         IN  /\ [chan EXCEPT ![s] = [state |-> state, ssn |-> ssn]] \in Table
             /\ [chan EXCEPT ![s].ssn = ssn] \in Table
             /\ [chan EXCEPT ![s].state = state] \in Table
             /\ chan[s].ssn \in 0..(SsnMod - 1)
  BY DEF Typed

LEMMA NextSsnTyped == \A n \in Nat : NextSsn(n) \in 0..(SsnMod - 1)
  BY SenderAssumption DEF NextSsn

\* No two entries share a slot.
Apart(p) == \A e, f \in p : e.slot = f.slot => e = f

\* What sctpRetransmit leaves of a pool p, and what it keeps: every entry that is
\* not covered by the cumulative point and whose retransmissions are not limited.
LEMMA RetransmitKeeps ==
  ASSUME Typed, NEW p \in SUBSET pool, NEW cum \in Nat, NEW gaps \in SUBSET Tsns, NEW up \in BOOLEAN,
         Retransmit(p, cum, gaps, up)
  PROVE  /\ pool' \subseteq Entry
         /\ \A f \in pool' : f.tries <= MaxRexmit /\ \E e \in p : f.msg = e.msg
         /\ \A e \in p : msgs[e.msg].last > cum /\ (msgs[e.msg].sid \in Reliable \/ msgs[e.msg].ack)
                         => \E f \in pool' : f.msg = e.msg
         /\ wire' \subseteq Tsns
<1>. DEFINE Again(e) == IF Counted(e) /\ Burst(p, e, cum, gaps) # {} THEN [e EXCEPT !.tries = @ + 1] ELSE e
            R == Retained(p, cum, gaps)
<1>1. \A e \in p : e \in Entry /\ e.msg \in DOMAIN msgs /\ e.tries \in Nat /\ e.tries <= MaxRexmit
  BY DEF Typed, Entry
<1>3. \A i \in DOMAIN msgs : TsnsOf(i) \subseteq Tsns
  BY NumbersTyped
<1>4. \A e \in p : msgs[e.msg].last > cum /\ (msgs[e.msg].sid \in Reliable \/ msgs[e.msg].ack)
                   => Stays(e, cum)
  BY DEF Stays, Exhausted
<1>5. CASE up
  <2>1. \A e \in R : e \in p /\ (Reached(p, e, cum, gaps) => ~Exhausted(e))
    BY DEF Retained, Stays
  <2>2. \A e \in R : Burst(p, e, cum, gaps) # {} => Reached(p, e, cum, gaps)
    <3>. SUFFICES ASSUME NEW e \in R, NEW t \in Burst(p, e, cum, gaps)
                  PROVE  Reached(p, e, cum, gaps)
      OBVIOUS
    <3>. DEFINE A == Ahead(p, e, cum, gaps)
                B == {u \in Missing(e, cum, gaps) : u < t}
    <3>1. Cardinality(A \cup B) < MaxBurst
      BY DEF Burst
    <3>2. A \cup B \subseteq Tsns
      BY <1>1, <1>3, <2>1 DEF Ahead, Missing
    <3>3. IsFiniteSet(A \cup B)
      <4>1. IsFiniteSet(1..MaxTsn)
        BY FS_Interval, SenderAssumption
      <4>. HIDE DEF A, B
      <4>. QED
        BY <3>2, <4>1, FS_Subset DEF Tsns
    <3>4. A \in SUBSET (A \cup B)
      OBVIOUS
    <3>. HIDE DEF A, B
    <3>5. /\ IsFiniteSet(A) /\ Cardinality(A) <= Cardinality(A \cup B)
          /\ Cardinality(A) \in Nat /\ Cardinality(A \cup B) \in Nat
      BY <3>3, <3>4, FS_Subset, FS_CardinalityType
    <3>6. Cardinality(A) < MaxBurst
      BY <3>1, <3>5, SenderAssumption
    <3>. QED
      BY <3>6 DEF Reached, A
  <2>3. \A e \in R : /\ Again(e) \in Entry /\ Again(e).msg = e.msg
                     /\ Again(e).slot = e.slot /\ Again(e).tries <= MaxRexmit
    <3>. SUFFICES ASSUME NEW e \in R
                  PROVE  /\ Again(e) \in Entry /\ Again(e).msg = e.msg
                         /\ Again(e).slot = e.slot /\ Again(e).tries <= MaxRexmit
      OBVIOUS
    <3>1. CASE Counted(e) /\ Burst(p, e, cum, gaps) # {}
      <4>1. ~Exhausted(e) /\ e \in p
        BY <2>1, <2>2, <3>1
      <4>2. e.tries < MaxRexmit
        BY <1>1, <3>1, <4>1, SenderAssumption DEF Exhausted, Counted
      <4>. QED
        BY <1>1, <3>1, <4>1, <4>2, SenderAssumption DEF Entry
    <3>2. CASE ~(Counted(e) /\ Burst(p, e, cum, gaps) # {})
      BY <1>1, <2>1, <3>2
    <3>. QED
      BY <3>1, <3>2
  <2>4. pool' = {Again(e) : e \in R}
    BY <1>5 DEF Retransmit, AfterResend
  <2>5. Resent(p, cum, gaps) \subseteq Tsns
    BY <1>1, <1>3, <2>1 DEF Resent, Burst, Missing
  <2>6. wire' \subseteq Tsns
    BY <1>5, <2>5 DEF Retransmit, Typed
  <2>7. \A e \in p : msgs[e.msg].last > cum /\ (msgs[e.msg].sid \in Reliable \/ msgs[e.msg].ack)
                     => e \in R
    BY <1>4 DEF Retained
  <2>. HIDE DEF Again, R
  <2>. QED
    BY <2>1, <2>3, <2>4, <2>6, <2>7
<1>6. CASE ~up
  <2>1. pool' = {e \in p : Stays(e, cum)} /\ wire' = wire
    BY <1>6 DEF Retransmit
  <2>. QED
    BY <1>1, <1>4, <2>1 DEF Typed
<1>. QED
  BY <1>5, <1>6

\* It moves no entry to another slot.
LEMMA RetransmitApart ==
  ASSUME Typed, NEW p \in SUBSET pool, NEW cum \in Nat, NEW gaps \in SUBSET Tsns, NEW up \in BOOLEAN,
         Retransmit(p, cum, gaps, up)
  PROVE  Apart(pool')
<1>. DEFINE Again(e) == IF Counted(e) /\ Burst(p, e, cum, gaps) # {} THEN [e EXCEPT !.tries = @ + 1] ELSE e
            R == Retained(p, cum, gaps)
<1>1. \A e \in p : e \in Entry
  BY DEF Typed
<1>2. Apart(p)
  BY DEF Typed, Apart
<1>3. CASE up
  <2>1. pool' = {Again(e) : e \in R}
    BY <1>3 DEF Retransmit, AfterResend
  <2>2. \A e \in R : e \in p /\ Again(e).slot = e.slot
    BY <1>1 DEF Retained, Entry
  <2>. HIDE DEF Again, R
  <2>. SUFFICES ASSUME NEW e \in R, NEW f \in R, Again(e).slot = Again(f).slot
                PROVE  Again(e) = Again(f)
    BY <2>1 DEF Apart
  <2>3. e.slot = f.slot /\ e \in p /\ f \in p
    BY <2>2
  <2>. QED
    BY <1>2, <2>3 DEF Apart
<1>4. CASE ~up
  BY <1>2, <1>4 DEF Retransmit, Apart
<1>. QED
  BY <1>3, <1>4

\* The FORWARD-TSN value rexmitComputeForwardTsn finds: below every entry, and
\* below the next TSN when the messages are.
LEMMA AdvanceBelowPool ==
  ASSUME Typed, NEW p \in SUBSET pool
  PROVE  /\ AdvanceTo(p) \in 0..MaxTsn
         /\ \A e \in p : AdvanceTo(p) < msgs[e.msg].first
         /\ (\A m \in DOMAIN msgs : msgs[m].first < myTsn) => AdvanceTo(p) < myTsn
<1>. DEFINE S == {msgs[e.msg].first : e \in p}
<1>1. \A e \in p : e.msg \in DOMAIN msgs /\ msgs[e.msg].first \in 1..MaxTsn
  BY NumbersTyped DEF Typed, Message, Tsns
<1>2. myTsn \in 1..(MaxTsn + 1) /\ MaxTsn \in Nat
  BY SenderAssumption DEF Typed
<1>3. CASE p = {}
  BY <1>2, <1>3 DEF AdvanceTo
<1>4. CASE p # {}
  <2>1. S \in SUBSET Nat /\ S # {}
    BY <1>1, <1>2, <1>4
  <2>2. Min(S) \in S /\ \A y \in S : Min(S) <= y
    BY <2>1, MinIsLeast
  <2>3. AdvanceTo(p) = Min(S) - 1
    BY <1>4 DEF AdvanceTo
  <2>4. PICK e \in p : Min(S) = msgs[e.msg].first
    BY <2>2
  <2>5. Min(S) \in 1..MaxTsn
    BY <1>1, <2>4
  <2>6. \A f \in p : Min(S) <= msgs[f.msg].first
    BY <2>2
  <2>7. (\A m \in DOMAIN msgs : msgs[m].first < myTsn) => Min(S) < myTsn
    BY <1>1, <2>4
  <2>. HIDE DEF S
  <2>. QED
    BY <1>1, <1>2, <2>3, <2>5, <2>6, <2>7
<1>. QED
  BY <1>3, <1>4

\* The peer's cumulative point covers only what it has or was told to skip.
LEMMA PeerCumSound ==
  ASSUME Typed
  PROVE  /\ PeerCum \in 0..MaxTsn
         /\ \A t \in 1..PeerCum : t \in got \/ t <= skip
<1>. DEFINE S == {n \in 0..MaxTsn : \A t \in 1..n : t \in got \/ t <= skip}
<1>1. MaxTsn \in Nat /\ S \in SUBSET (0..MaxTsn) /\ 0 \in S
  BY SenderAssumption
<1>2. Max(S) \in S
  BY <1>1, MaxIsGreatest
<1>. QED
  BY <1>2 DEF PeerCum

THEOREM InitTyped == Init => Typed
<1>. SUFFICES ASSUME Init PROVE Typed
  OBVIOUS
<1>1. MaxTsn \in Nat /\ Window \in Nat /\ 0 \in 0..(SsnMod - 1)
  BY SenderAssumption
<1>2. msgs \in Seq(Message)
  BY DEF Init
<1>3. chan \in [Streams -> [state : {"new", "open", "closed"}, ssn : 0..(SsnMod - 1)]]
  BY <1>1 DEF Init
<1>4. /\ myTsn \in 1..(MaxTsn + 1) /\ peerRwnd \in 0..Window
      /\ sackCum \in 0..MaxTsn /\ pendingFwd \in 0..MaxTsn /\ skip \in 0..MaxTsn
  BY <1>1 DEF Init
<1>. QED
  BY <1>2, <1>3, <1>4 DEF Init, Typed

\* The entry of the message about to be appended, in slot i.
EntryIn(i) == [slot |-> i, msg |-> Len(msgs) + 1, tries |-> 0]

\* A message appended with or without its entry in the pool.
LEMMA AppendTyped ==
  ASSUME Typed, NEW m \in Message, msgs' = Append(msgs, m),
         pool' \in Placed \cup {pool}
  PROVE  /\ msgs' \in Seq(Message)
         /\ pool' \subseteq Entry /\ Apart(pool')
         /\ \A e \in pool' : e.msg \in DOMAIN msgs' /\ e.tries <= MaxRexmit
<1>1. CASE pool' = pool
  BY <1>1, AppendKeeps, SenderAssumption DEF Typed, Apart
<1>2. ASSUME NEW i \in FreeSlots, pool' = pool \cup {EntryIn(i)}
      PROVE  /\ pool' \subseteq Entry /\ Apart(pool')
             /\ \A e \in pool' : e.msg \in DOMAIN msgs' /\ e.tries <= MaxRexmit
  <2>1. i \in Slots /\ \A e \in pool : e.slot # i
    BY DEF FreeSlots
  <2>2. /\ EntryIn(i) \in Entry /\ EntryIn(i).slot = i
        /\ EntryIn(i).msg = Len(msgs) + 1 /\ EntryIn(i).tries = 0
    BY <2>1, AppendKeeps DEF EntryIn, Entry
  <2>3. Apart(pool')
    BY <1>2, <2>1, <2>2 DEF Typed, Apart
  <2>. QED
    BY <1>2, <2>2, <2>3, AppendKeeps, SenderAssumption DEF Typed
<1>. QED
  BY <1>1, <1>2, AppendKeeps DEF Placed, EntryIn

\* The message a step numbers starts at the next TSN.
LEMMA OpenMessage ==
  ASSUME Typed, NEW s \in Streams, OpenChannel(s)
  PROVE  LET m == NewMessage(s, 0, 1, TRUE)
         IN  /\ m \in Message /\ msgs' = Append(msgs, m)
             /\ m.sid = s /\ m.ack /\ m.first = myTsn /\ m.last = myTsn
             /\ myTsn' = myTsn + 1
<1>. DEFINE m == NewMessage(s, 0, 1, TRUE)
<1>1. 1 \in 1..MaxFrags /\ myTsn + 1 - 1 <= MaxTsn
  BY Bounds, SenderAssumption DEF OpenChannel
<1>2. m \in Message
  BY <1>1, Bounds, NewMessageTyped
<1>3. msgs' = Append(msgs, m) /\ myTsn' = myTsn + 1
  BY DEF OpenChannel
<1>4. m.sid = s /\ m.ack /\ m.first = myTsn /\ m.last = myTsn
  BY Bounds DEF NewMessage
<1>. QED
  BY <1>2, <1>3, <1>4

LEMMA SendMessage ==
  ASSUME Typed, NEW s \in Streams, NEW n \in 1..MaxFrags, NEW k \in 0..n, Send(s, n, k)
  PROVE  LET m == NewMessage(s, IF s \in Ordered THEN chan[s].ssn ELSE 0, n, FALSE)
         IN  /\ m \in Message /\ msgs' = Append(msgs, m)
             /\ m.sid = s /\ ~m.ack /\ m.first = myTsn /\ m.last = myTsn + n - 1
             /\ myTsn' = myTsn + n /\ n \in Nat /\ n >= 1
<1>. DEFINE ssn == IF s \in Ordered THEN chan[s].ssn ELSE 0
            m == NewMessage(s, ssn, n, FALSE)
<1>1. ssn \in 0..(SsnMod - 1)
  BY Bounds DEF Typed
<1>2. myTsn + n - 1 <= MaxTsn /\ myTsn' = myTsn + n /\ msgs' = Append(msgs, m)
  BY DEF Send
<1>3. m.sid = s /\ m.ack = FALSE /\ m.first = myTsn /\ m.last = myTsn + n - 1
  BY DEF NewMessage
<1>4. m \in Message
  <2>. HIDE DEF ssn
  <2>. QED
    BY <1>1, <1>2, NewMessageTyped
<1>5. n \in Nat /\ n >= 1
  BY SenderAssumption
<1>. QED
  BY <1>2, <1>3, <1>4, <1>5

LEMMA StepTyped == Typed /\ [Next]_vars => Typed'
<1>. SUFFICES ASSUME Typed, [Next]_vars PROVE Typed'
  OBVIOUS
<1>. USE SenderAssumption
<1>1. ASSUME NEW s \in Streams, OpenChannel(s) PROVE Typed'
  <2>1. chan' \in [Streams -> [state : {"new", "open", "closed"}, ssn : 0..(SsnMod - 1)]]
    <3>1. NextSsn(0) \in 0..(SsnMod - 1)
      BY NextSsnTyped
    <3>. QED
      BY <1>1, <3>1, ChannelTyped DEF OpenChannel
  <2>2. NewMessage(s, 0, 1, TRUE) \in Message
    BY <1>1, OpenMessage
  <2>3. pool' \in Placed \cup {pool}
    BY <1>1 DEF OpenChannel, Inserted
  <2>4. /\ msgs' \in Seq(Message) /\ pool' \subseteq Entry /\ Apart(pool')
        /\ \A e \in pool' : e.msg \in DOMAIN msgs' /\ e.tries <= MaxRexmit
    BY <1>1, <2>2, <2>3, AppendTyped DEF OpenChannel
  <2>5. myTsn' \in 1..(MaxTsn + 1) /\ wire' \subseteq Tsns
    <3>1. myTsn \in Tsns
      BY <1>1, Bounds DEF OpenChannel, Tsns
    <3>2. wire' \subseteq wire \cup {myTsn}
      BY <1>1 DEF OpenChannel
    <3>. QED
      BY <1>1, <3>1, <3>2 DEF OpenChannel, Typed, Tsns
  <2>. QED
    BY <1>1, <2>1, <2>4, <2>5 DEF OpenChannel, Typed, Apart, peer
<1>2. ASSUME NEW s \in Streams, NEW n \in 1..MaxFrags, BackOff(s, n) PROVE Typed'
  <2>1. chan' \in [Streams -> [state : {"new", "open", "closed"}, ssn : 0..(SsnMod - 1)]]
    <3>1. (IF s \in Ordered /\ NextSsn(chan[s].ssn) = 0 THEN 0 ELSE chan[s].ssn) \in 0..(SsnMod - 1)
      BY Bounds DEF Typed
    <3>. QED
      BY <1>2, <3>1, ChannelTyped DEF BackOff
  <2>. QED
    BY <1>2, <2>1 DEF BackOff, Typed, network, peer
<1>3. ASSUME NEW s \in Streams, NEW n \in 1..MaxFrags, NEW k \in 0..n, Send(s, n, k)
      PROVE  Typed'
  <2>1. chan' \in [Streams -> [state : {"new", "open", "closed"}, ssn : 0..(SsnMod - 1)]]
    <3>1. chan[s].ssn \in 0..(SsnMod - 1)
      BY DEF Typed
    <3>2. NextSsn(chan[s].ssn) \in 0..(SsnMod - 1)
      BY <3>1, NextSsnTyped
    <3>3. (IF s \in Ordered THEN NextSsn(chan[s].ssn) ELSE chan[s].ssn) \in 0..(SsnMod - 1)
      BY <3>1, <3>2
    <3>. QED
      BY <1>3, <3>3, ChannelTyped DEF Send
  <2>2. NewMessage(s, IF s \in Ordered THEN chan[s].ssn ELSE 0, n, FALSE) \in Message
    BY <1>3, SendMessage
  <2>3. pool' \in Placed \cup {pool}
    BY <1>3 DEF Send, Inserted
  <2>4. /\ msgs' \in Seq(Message) /\ pool' \subseteq Entry /\ Apart(pool')
        /\ \A e \in pool' : e.msg \in DOMAIN msgs' /\ e.tries <= MaxRexmit
    BY <1>3, <2>2, <2>3, AppendTyped DEF Send
  <2>5. n \in Nat /\ n >= 1 /\ k \in Nat /\ k <= n
    BY SenderAssumption
  <2>6. n <= peerRwnd /\ myTsn + n - 1 <= MaxTsn
    BY <1>3 DEF Send, Fits
  <2>7. myTsn' = myTsn + n /\ peerRwnd' = peerRwnd - n
    BY <1>3 DEF Send
  <2>8. myTsn' \in 1..(MaxTsn + 1) /\ peerRwnd' \in 0..Window
    BY <2>5, <2>6, <2>7, Bounds
  <2>9. wire' \subseteq Tsns
    <3>1. (myTsn .. myTsn + k - 1) \subseteq Tsns
      BY <2>5, <2>6, Bounds DEF Tsns
    <3>. QED
      BY <1>3, <3>1 DEF Send, Typed
  <2>. QED
    BY <1>3, <2>1, <2>4, <2>8, <2>9 DEF Send, Typed, Apart, peer
<1>4. ASSUME NEW k \in sacks, NEW up \in BOOLEAN, RecvSack(k, up) PROVE Typed'
  <2>. DEFINE left == {e \in pool : ~AckedBy(e, k.cum, k.gaps)}
  <2>1. k \in Sack
    BY DEF Typed
  <2>2. k.cum \in 0..MaxTsn /\ k.gaps \subseteq Tsns /\ k.rwnd \in 0..Window
    BY <2>1, SenderAssumption DEF Sack
  <2>3. /\ pool' \subseteq Entry /\ Apart(pool') /\ wire' \subseteq Tsns
        /\ \A e \in pool' : e.msg \in DOMAIN msgs /\ e.tries <= MaxRexmit
    <3>1. CASE k.gaps = {}
      BY <1>4, <3>1 DEF RecvSack, Typed, Apart
    <3>2. CASE k.gaps # {}
      <4>1. Retransmit(left, k.cum, k.gaps, up)
        BY <1>4, <3>2 DEF RecvSack
      <4>2. left \in SUBSET pool /\ k.cum \in Nat /\ k.gaps \in SUBSET Tsns
        BY <2>2, Bounds
      <4>. HIDE DEF left
      <4>3. /\ pool' \subseteq Entry
            /\ \A f \in pool' : f.tries <= MaxRexmit /\ \E e \in left : f.msg = e.msg
        BY <4>1, <4>2, RetransmitKeeps
      <4>4. wire' \subseteq Tsns
        BY <4>1, <4>2, RetransmitKeeps
      <4>5. Apart(pool')
        BY <4>1, <4>2, RetransmitApart
      <4>. QED
        BY <4>2, <4>3, <4>4, <4>5 DEF Typed
    <3>. QED
      BY <3>1, <3>2
  <2>. QED
    BY <1>4, <2>2, <2>3 DEF RecvSack, Typed, Apart, peer
<1>5. ASSUME NEW up \in BOOLEAN, Rto(up) PROVE Typed'
  <2>1. Retransmit(pool, sackCum, sackGaps, up)
    BY <1>5 DEF Rto
  <2>2. sackCum \in Nat /\ sackGaps \in SUBSET Tsns
    BY Bounds DEF Typed
  <2>3. /\ pool' \subseteq Entry /\ wire' \subseteq Tsns
        /\ \A f \in pool' : f.tries <= MaxRexmit /\ \E e \in pool : f.msg = e.msg
    BY <2>1, <2>2, RetransmitKeeps
  <2>4. Apart(pool')
    BY <2>1, <2>2, RetransmitApart
  <2>. QED
    BY <1>5, <2>3, <2>4 DEF Rto, Typed, Apart, peer
<1>6. ASSUME NEW up \in BOOLEAN, SendForward(up) PROVE Typed'
  <2>1. pendingFwd \in Tsns /\ 0 \in 0..MaxTsn
    BY <1>6, Bounds DEF SendForward, Typed, Tsns
  <2>2. fwdWire' \subseteq Tsns /\ pendingFwd' \in 0..MaxTsn
    BY <1>6, <2>1 DEF SendForward, Typed
  <2>. QED
    BY <1>6, <2>2 DEF SendForward, Typed, peer
<1>7. ASSUME NEW s \in Streams, CloseChannel(s) PROVE Typed'
  <2>. DEFINE left == {e \in pool : msgs[e.msg].sid # s}
  <2>1. /\ pool' = left
        /\ chan' = [chan EXCEPT ![s].state = "closed"]
        /\ pendingFwd' \in {pendingFwd, AdvanceTo(left)}
    <3>1. pool \ {e \in pool : msgs[e.msg].sid = s} = left
      OBVIOUS
    <3>. QED
      BY <1>7, <3>1 DEF CloseChannel
  <2>2. AdvanceTo(left) \in 0..MaxTsn
    <3>1. left \in SUBSET pool
      OBVIOUS
    <3>. HIDE DEF left
    <3>. QED
      BY <3>1, AdvanceBelowPool
  <2>3. chan' \in [Streams -> [state : {"new", "open", "closed"}, ssn : 0..(SsnMod - 1)]]
    BY <2>1, Bounds, ChannelTyped
  <2>4. left \subseteq pool
    OBVIOUS
  <2>. HIDE DEF left
  <2>. QED
    BY <1>7, <2>1, <2>2, <2>3, <2>4 DEF CloseChannel, Typed, network, peer
<1>8. CASE Lose
  BY <1>8 DEF Lose, Typed, sender, peer
<1>9. ASSUME NEW t \in Tsns, PeerRecv(t) PROVE Typed'
  BY <1>9 DEF PeerRecv, Typed, sender
<1>10. ASSUME NEW n \in Tsns, PeerRecvForward(n) PROVE Typed'
  <2>1. skip' \in 0..MaxTsn
    <3>1. skip' = IF skip >= n THEN skip ELSE n
      BY <1>10, Bounds, MaxOfTwo DEF PeerRecvForward, Tsns
    <3>. QED
      BY <3>1 DEF Typed, Tsns
  <2>. QED
    BY <1>10, <2>1 DEF PeerRecvForward, Typed, sender
<1>11. ASSUME NEW r \in Reports, PeerSack(r) PROVE Typed'
  <2>1. [cum |-> PeerCum, gaps |-> {t \in got : t > PeerCum}, rwnd |-> r] \in Sack
    BY PeerCumSound DEF Sack, Typed
  <2>2. due' \in {"nothing", "window", "sack"}
    BY <1>11 DEF PeerSack
  <2>. QED
    BY <1>11, <2>1, <2>2 DEF PeerSack, Typed, sender
<1>12. CASE Expire
  BY <1>12 DEF Expire, Typed, network, peer
<1>13. CASE UNCHANGED vars
  BY <1>13 DEF vars, sender, network, peer, Typed
<1>. QED
  BY <1>1, <1>2, <1>3, <1>4, <1>5, <1>6, <1>7, <1>8, <1>9, <1>10, <1>11, <1>12, <1>13 DEF Next

-----------------------------------------------------------------------------
(* The inductive invariant.                                                *)

\* Messages were numbered before the next TSN, and belong to streams that have
\* been opened; no FORWARD-TSN passes what was numbered.
Numbered ==
  /\ \A m \in DOMAIN msgs :
       /\ msgs[m].first <= msgs[m].last /\ msgs[m].last < myTsn
       /\ chan[msgs[m].sid].state # "new"
  /\ \A n \in fwdWire \cup {pendingFwd, skip} : n < myTsn

\* What a SACK says the peer has, the peer has, or was told to skip.
Credible(cum, gaps) ==
  /\ \A t \in 1..cum : t \in got \/ t <= skip
  /\ gaps \subseteq got

\* That holds of every SACK in flight and of the last one the sender heard.
SacksCredible ==
  /\ \A k \in sacks : Credible(k.cum, k.gaps)
  /\ clock # "unset" => Credible(sackCum, sackGaps)

SenderInv ==
  Typed /\ Numbered /\ SacksCredible /\ ReliableHeld /\ ForwardSkipsNothingNeeded

\* Whatever the step, the peer loses nothing, messages keep their numbers, and a
\* stream is opened once.
LEMMA NothingUndone ==
  ASSUME Typed, [Next]_vars
  PROVE  /\ got \subseteq got' /\ skip \in Nat /\ skip' \in Nat /\ skip <= skip'
         /\ \A m \in DOMAIN msgs : m \in DOMAIN msgs' /\ msgs'[m] = msgs[m]
         /\ \A s \in Streams : /\ chan'[s].state = "open" => chan[s].state \in {"new", "open"}
                               /\ chan[s].state # "new" => chan'[s].state # "new"
<1>1. Typed'
  BY StepTyped
<1>2. skip \in Nat /\ skip' \in Nat
  BY <1>1, SenderAssumption DEF Typed
<1>3. ASSUME NEW s \in Streams, OpenChannel(s)
      PROVE  /\ UNCHANGED <<got, skip>>
             /\ \A m \in DOMAIN msgs : m \in DOMAIN msgs' /\ msgs'[m] = msgs[m]
             /\ \A r \in Streams : r = s \/ chan'[r] = chan[r]
             /\ chan[s].state = "new" /\ chan'[s].state = "open"
  <2>1. \A m \in DOMAIN msgs : m \in DOMAIN msgs' /\ msgs'[m] = msgs[m]
    BY <1>3, OpenMessage, AppendKeeps
  <2>. QED
    BY <1>3, <2>1 DEF OpenChannel, Typed, peer
<1>4. ASSUME NEW s \in Streams, NEW n \in 1..MaxFrags, NEW k \in 0..n, Send(s, n, k)
      PROVE  /\ UNCHANGED <<got, skip>>
             /\ \A m \in DOMAIN msgs : m \in DOMAIN msgs' /\ msgs'[m] = msgs[m]
             /\ \A r \in Streams : chan'[r].state = chan[r].state
  <2>1. \A m \in DOMAIN msgs : m \in DOMAIN msgs' /\ msgs'[m] = msgs[m]
    BY <1>4, SendMessage, AppendKeeps
  <2>. QED
    BY <1>4, <2>1 DEF Send, Typed, peer
<1>5. ASSUME NEW s \in Streams, NEW n \in 1..MaxFrags, BackOff(s, n)
      PROVE  /\ UNCHANGED <<got, skip, msgs>>
             /\ \A r \in Streams : chan'[r].state = chan[r].state
  BY <1>5 DEF BackOff, Typed, peer
<1>6. ASSUME NEW s \in Streams, CloseChannel(s)
      PROVE  /\ UNCHANGED <<got, skip, msgs>>
             /\ \A r \in Streams : r = s \/ chan'[r] = chan[r]
             /\ chan[s].state = "open" /\ chan'[s].state = "closed"
  BY <1>6 DEF CloseChannel, Typed, peer
<1>7. ASSUME NEW t \in Tsns, PeerRecv(t)
      PROVE  got \subseteq got' /\ UNCHANGED <<skip, msgs, chan>>
  BY <1>7 DEF PeerRecv, sender
<1>8. ASSUME NEW n \in Tsns, PeerRecvForward(n)
      PROVE  skip <= skip' /\ UNCHANGED <<got, msgs, chan>>
  <2>1. n \in Nat
    BY SenderAssumption DEF Tsns
  <2>. QED
    BY <1>2, <1>8, <2>1, MaxOfTwo DEF PeerRecvForward, sender
<1>9. ASSUME \/ \E k \in sacks, up \in BOOLEAN : RecvSack(k, up)
             \/ \E up \in BOOLEAN : Rto(up) \/ SendForward(up)
             \/ Expire \/ Lose \/ (\E r \in Reports : PeerSack(r)) \/ UNCHANGED vars
      PROVE  UNCHANGED <<got, skip, msgs, chan>>
  BY <1>9 DEF RecvSack, Rto, SendForward, Expire, Lose, PeerSack, vars, sender, peer
<1>. QED
  BY <1>2, <1>3, <1>4, <1>5, <1>6, <1>7, <1>8, <1>9 DEF Next

\* A message that is owed after the step and existed before it was owed before it.
LEMMA OwedBefore ==
  ASSUME Typed, Numbered, [Next]_vars, NEW m \in DOMAIN msgs, Guaranteed(m)'
  PROVE  Guaranteed(m) /\ (Arrived(m) => Arrived(m)')
<1>1. msgs'[m] = msgs[m] /\ m \in DOMAIN msgs' /\ got \subseteq got'
  BY NothingUndone
<1>2. msgs[m].sid \in Streams
  BY NumbersTyped DEF Message
<1>3. Guaranteed(m)
  BY <1>1, <1>2, NothingUndone DEF Guaranteed, Numbered
<1>. QED
  BY <1>1, <1>3 DEF Arrived, TsnsOf

LEMMA ForwardsTyped ==
  ASSUME Typed
  PROVE  \A n \in fwdWire \cup {pendingFwd, skip} : n \in Nat
<1>1. \A n \in fwdWire : n \in Nat
  BY SenderAssumption, SMTT(30) DEF Typed, Tsns
<1>. QED
  BY <1>1, Bounds

LEMMA StepNumbered ==
  ASSUME Typed, Numbered, [Next]_vars
  PROVE  Numbered'
<1>. USE Bounds
<1>1. ASSUME NEW s \in Streams, OpenChannel(s) PROVE Numbered'
  <2>1. PICK m \in Message : /\ msgs' = Append(msgs, m) /\ myTsn' = myTsn + 1
                             /\ m.sid = s /\ m.first = myTsn /\ m.last = myTsn
    BY <1>1, OpenMessage
  <2>2. \A i \in DOMAIN msgs' : (i \in DOMAIN msgs /\ msgs'[i] = msgs[i]) \/ msgs'[i] = m
    BY <2>1, AppendKeeps
  <2>3. \A r \in Streams : chan[r].state # "new" \/ r = s => chan'[r].state # "new"
    BY <1>1 DEF OpenChannel, Typed
  <2>4. \A i \in DOMAIN msgs : msgs[i].sid \in Streams /\ msgs[i].last \in Nat
    BY NumbersTyped DEF Message
  <2>5. \A j \in fwdWire' \cup {pendingFwd', skip'} : j < myTsn'
    <3>1. UNCHANGED <<fwdWire, pendingFwd, skip>>
      BY <1>1 DEF OpenChannel, peer
    <3>. QED
      BY <2>1, <3>1, Bounds, ForwardsTyped DEF Numbered
  <2>6. \A i \in DOMAIN msgs' :
          msgs'[i].first <= msgs'[i].last /\ msgs'[i].last < myTsn' /\ chan'[msgs'[i].sid].state # "new"
    <3>. TAKE i \in DOMAIN msgs'
    <3>1. CASE i \in DOMAIN msgs /\ msgs'[i] = msgs[i]
      <4>1. /\ msgs[i].first <= msgs[i].last /\ msgs[i].last < myTsn
            /\ chan[msgs[i].sid].state # "new"
        BY <3>1 DEF Numbered
      <4>2. msgs[i].last \in Nat /\ myTsn \in Nat /\ myTsn' \in Nat /\ myTsn < myTsn'
        BY <2>1, <2>4, <3>1, Bounds, SMTT(30)
      <4>3. msgs[i].last < myTsn'
        BY <4>1, <4>2
      <4>4. chan'[msgs[i].sid].state # "new"
        BY <2>3, <2>4, <3>1, <4>1
      <4>. QED
        BY <3>1, <4>1, <4>3, <4>4
    <3>2. CASE msgs'[i] = m
      BY <2>1, <2>3, <3>2, Bounds, SMTT(30)
    <3>. QED
      BY <2>2, <3>1, <3>2
  <2>. QED
    BY <2>5, <2>6 DEF Numbered
<1>2. ASSUME NEW s \in Streams, NEW n \in 1..MaxFrags, NEW k \in 0..n, Send(s, n, k)
      PROVE  Numbered'
  <2>1. PICK m \in Message : /\ msgs' = Append(msgs, m) /\ myTsn' = myTsn + n /\ n \in Nat /\ n >= 1
                             /\ m.sid = s /\ m.first = myTsn /\ m.last = myTsn + n - 1
    BY <1>2, SendMessage, ZenonT(40)
  <2>2. \A i \in DOMAIN msgs' : (i \in DOMAIN msgs /\ msgs'[i] = msgs[i]) \/ msgs'[i] = m
    BY <2>1, AppendKeeps
  <2>3. \A r \in Streams : chan'[r].state = chan[r].state
    BY <1>2 DEF Send, Typed
  <2>4. \A i \in DOMAIN msgs : msgs[i].sid \in Streams /\ msgs[i].last \in Nat
    BY NumbersTyped DEF Message
  <2>5. \A j \in fwdWire' \cup {pendingFwd', skip'} : j < myTsn'
    <3>1. UNCHANGED <<fwdWire, pendingFwd, skip>>
      BY <1>2 DEF Send, peer
    <3>. QED
      BY <2>1, <3>1, Bounds, ForwardsTyped, SMTT(30) DEF Numbered
  <2>6. chan[s].state # "new"
    BY <1>2 DEF Send
  <2>7. \A i \in DOMAIN msgs' :
          msgs'[i].first <= msgs'[i].last /\ msgs'[i].last < myTsn' /\ chan'[msgs'[i].sid].state # "new"
    <3>. TAKE i \in DOMAIN msgs'
    <3>1. CASE i \in DOMAIN msgs /\ msgs'[i] = msgs[i]
      <4>1. /\ msgs[i].first <= msgs[i].last /\ msgs[i].last < myTsn
            /\ chan[msgs[i].sid].state # "new"
        BY <3>1 DEF Numbered
      <4>2. msgs[i].last \in Nat /\ myTsn \in Nat /\ myTsn' \in Nat /\ myTsn < myTsn'
        <5>1. myTsn' = myTsn + n /\ n \in Nat /\ n >= 1 /\ myTsn \in Nat
          BY <2>1, Bounds
        <5>2. msgs[i].last \in Nat
          BY <2>4, <3>1
        <5>. QED
          BY <5>1, <5>2
      <4>3. msgs[i].last < myTsn'
        BY <4>1, <4>2
      <4>4. chan'[msgs[i].sid].state # "new"
        BY <2>3, <2>4, <3>1, <4>1
      <4>. QED
        BY <3>1, <4>1, <4>3, <4>4
    <3>2. CASE msgs'[i] = m
      <4>1. m.first <= m.last /\ m.last < myTsn'
        BY <2>1, Bounds, SMTT(30)
      <4>2. chan'[m.sid].state # "new"
        BY <2>1, <2>3, <2>6
      <4>. QED
        BY <3>2, <4>1, <4>2
    <3>. QED
      BY <2>2, <3>1, <3>2
  <2>. QED
    BY <2>5, <2>7 DEF Numbered
<1>3. ASSUME NEW s \in Streams, CloseChannel(s) PROVE Numbered'
  <2>. DEFINE left == {e \in pool : msgs[e.msg].sid # s}
  <2>1. pool \ {e \in pool : msgs[e.msg].sid = s} = left /\ left \in SUBSET pool
    OBVIOUS
  <2>2. pendingFwd' \in {pendingFwd, AdvanceTo(left)}
    BY <1>3, <2>1 DEF CloseChannel
  <2>3. \A m \in DOMAIN msgs : msgs[m].first < myTsn
    BY NumbersTyped DEF Numbered
  <2>. HIDE DEF left
  <2>4. AdvanceTo(left) < myTsn
    BY <2>1, <2>3, AdvanceBelowPool
  <2>5. \A m \in DOMAIN msgs : chan'[msgs[m].sid].state # "new"
    BY <1>3, NumbersTyped, NothingUndone DEF Numbered, Message
  <2>. QED
    BY <1>3, <2>2, <2>4, <2>5 DEF CloseChannel, Numbered, network, peer
<1>4. ASSUME NEW s \in Streams, NEW n \in 1..MaxFrags, BackOff(s, n) PROVE Numbered'
  <2>1. \A m \in DOMAIN msgs : chan'[msgs[m].sid].state # "new"
    BY <1>4, NumbersTyped, NothingUndone DEF Numbered, Message
  <2>. QED
    BY <1>4, <2>1 DEF BackOff, Numbered, network, peer
<1>5. ASSUME NEW up \in BOOLEAN, SendForward(up) PROVE Numbered'
  BY <1>5 DEF SendForward, Numbered, peer
<1>6. ASSUME NEW n \in Tsns, PeerRecvForward(n) PROVE Numbered'
  <2>1. skip' = IF skip >= n THEN skip ELSE n
    <3>1. n \in Nat
      BY SenderAssumption DEF Tsns
    <3>. QED
      BY <1>6, <3>1, MaxOfTwo DEF PeerRecvForward
  <2>. QED
    BY <1>6, <2>1 DEF PeerRecvForward, Numbered, sender
<1>7. ASSUME \/ \E k \in sacks, up \in BOOLEAN : RecvSack(k, up)
             \/ \E up \in BOOLEAN : Rto(up)
             \/ Expire \/ Lose \/ (\E t \in Tsns : PeerRecv(t)) \/ (\E r \in Reports : PeerSack(r))
             \/ UNCHANGED vars
      PROVE  Numbered'
  <2>1. UNCHANGED <<msgs, chan, myTsn, pendingFwd, skip>> /\ fwdWire' \subseteq fwdWire
    BY <1>7 DEF RecvSack, Rto, Expire, Lose, PeerRecv, PeerSack, vars, sender, network, peer
  <2>. QED
    BY <2>1 DEF Numbered
<1>. QED
  BY <1>1, <1>2, <1>3, <1>4, <1>5, <1>6, <1>7 DEF Next

\* What a SACK says stays true: the peer does not renege.
LEMMA StepCredible ==
  ASSUME Typed, SacksCredible, [Next]_vars
  PROVE  SacksCredible'
<1>1. \A cum \in Nat : \A gaps : Credible(cum, gaps) => Credible(cum, gaps)'
  <2>1. got \subseteq got' /\ skip \in Nat /\ skip' \in Nat /\ skip <= skip'
    BY NothingUndone
  <2>. QED
    BY <2>1 DEF Credible
<1>2. \A k \in sacks : k.cum \in Nat
  BY SenderAssumption DEF Typed, Sack
<1>3. ASSUME NEW r \in Reports, PeerSack(r) PROVE SacksCredible'
  <2>. DEFINE k == [cum |-> PeerCum, gaps |-> {t \in got : t > PeerCum}, rwnd |-> r]
  <2>1. sacks' = sacks \cup {k} /\ UNCHANGED <<clock, sackCum, sackGaps>>
    BY <1>3 DEF PeerSack, sender
  <2>2. Credible(k.cum, k.gaps) /\ k.cum \in Nat
    BY PeerCumSound, SenderAssumption DEF Credible
  <2>. HIDE DEF k
  <2>. QED
    BY <1>1, <1>2, <2>1, <2>2, Bounds DEF SacksCredible
<1>4. ASSUME NEW k \in sacks, NEW up \in BOOLEAN, RecvSack(k, up) PROVE SacksCredible'
  <2>1. sacks' \subseteq sacks /\ sackCum' = k.cum /\ sackGaps' = k.gaps
    BY <1>4 DEF RecvSack
  <2>2. \A j \in sacks : Credible(j.cum, j.gaps)'
    BY <1>1, <1>2 DEF SacksCredible
  <2>3. Credible(k.cum, k.gaps)'
    BY <2>2
  <2>4. Credible(sackCum, sackGaps)'
    BY <2>1, <2>3 DEF Credible
  <2>. QED
    BY <2>1, <2>2, <2>4 DEF SacksCredible
<1>5. CASE /\ sacks' \subseteq sacks /\ UNCHANGED <<sackCum, sackGaps>>
           /\ (clock' # "unset" => clock # "unset")
  <2>1. \A j \in sacks : Credible(j.cum, j.gaps)'
    BY <1>1, <1>2 DEF SacksCredible
  <2>2. clock' # "unset" => Credible(sackCum, sackGaps)'
    <3>1. PICK c \in Nat, g \in SUBSET Tsns : c = sackCum /\ g = sackGaps
      BY Bounds DEF Typed
    <3>2. c = sackCum' /\ g = sackGaps'
      BY <1>5, <3>1
    <3>3. clock' # "unset" => Credible(c, g)'
      BY <1>1, <1>5, <3>1 DEF SacksCredible
    <3>. QED
      BY <3>2, <3>3 DEF Credible
  <2>3. \A j \in sacks' : Credible(j.cum, j.gaps)'
    BY <1>5, <2>1
  <2>. QED
    BY <2>2, <2>3 DEF SacksCredible
<1>6. ASSUME \/ \E s \in Streams : OpenChannel(s) \/ CloseChannel(s)
             \/ \E s \in Streams, n \in 1..MaxFrags : BackOff(s, n) \/ \E k \in 0..n : Send(s, n, k)
             \/ \E up \in BOOLEAN : Rto(up) \/ SendForward(up)
             \/ Expire \/ Lose \/ (\E t \in Tsns : PeerRecv(t) \/ PeerRecvForward(t)) \/ UNCHANGED vars
      PROVE  /\ sacks' \subseteq sacks /\ UNCHANGED <<sackCum, sackGaps>>
             /\ (clock' # "unset" => clock # "unset")
  BY <1>6 DEF OpenChannel, CloseChannel, BackOff, Send, Rto, SendForward, Expire, Lose, PeerRecv,
              PeerRecvForward, vars, sender, network
<1>. QED
  BY <1>3, <1>4, <1>5, <1>6 DEF Next

\* A message freed by a credible SACK is at the peer.
LEMMA AckedArrived ==
  ASSUME SenderInv, NEW m \in DOMAIN msgs, Guaranteed(m), NEW cum \in Nat, NEW gaps,
         Credible(cum, gaps), msgs[m].last <= cum \/ TsnsOf(m) \subseteq gaps
  PROVE  Arrived(m)
<1>1. CASE TsnsOf(m) \subseteq gaps
  BY <1>1 DEF Credible, Arrived
<1>2. CASE msgs[m].last <= cum
  <2>1. SUFFICES ASSUME NEW t \in TsnsOf(m) PROVE t \in got
    BY DEF Arrived
  <2>2. t \in 1..cum
    BY <1>2, NumbersTyped DEF SenderInv, TsnsOf
  <2>3. t \in got \/ t <= skip
    BY <2>2 DEF Credible
  <2>. QED
    BY <2>3 DEF SenderInv, ForwardSkipsNothingNeeded
<1>. QED
  BY <1>1, <1>2

\* A retransmission keeps the entry of a guaranteed message, or the peer has it.
LEMMA RetransmitHolds ==
  ASSUME SenderInv, NEW m \in DOMAIN msgs, Guaranteed(m),
         NEW p \in SUBSET pool, NEW e \in p, e.msg = m,
         NEW cum \in Nat, NEW gaps \in SUBSET Tsns, NEW up \in BOOLEAN,
         Credible(cum, gaps), Retransmit(p, cum, gaps, up)
  PROVE  Held(m)' \/ Arrived(m)
<1>1. Typed
  BY DEF SenderInv
<1>2. msgs[m].sid \in Reliable
  BY DEF Guaranteed
<1>3. CASE msgs[m].last > cum
  <2>1. \A f \in p : msgs[f.msg].last > cum /\ (msgs[f.msg].sid \in Reliable \/ msgs[f.msg].ack)
                      => \E g \in pool' : g.msg = f.msg
    BY <1>1, RetransmitKeeps
  <2>2. \E g \in pool' : g.msg = m
    BY <1>2, <1>3, <2>1
  <2>. QED
    BY <2>2 DEF Held
<1>4. CASE ~ (msgs[m].last > cum)
  BY <1>1, <1>4, NumbersTyped, AckedArrived
<1>. QED
  BY <1>3, <1>4

\* An entry of a guaranteed message leaves the pool only when the peer has it.
LEMMA EntryKept ==
  ASSUME SenderInv, [Next]_vars, NEW m \in DOMAIN msgs, Guaranteed(m), Guaranteed(m)', Held(m)
  PROVE  Held(m)' \/ Arrived(m)
<1>. USE DEF SenderInv
<1>1. PICK e \in pool : e.msg = m
  BY DEF Held
<1>2. msgs[m].sid \in Reliable /\ msgs[m].sid \in Streams
  BY NumbersTyped DEF Guaranteed, Message
<1>3. ASSUME NEW k \in sacks, NEW up \in BOOLEAN, RecvSack(k, up) PROVE Held(m)' \/ Arrived(m)
  <2>. DEFINE left == {f \in pool : ~AckedBy(f, k.cum, k.gaps)}
  <2>1. k.cum \in Nat /\ k.gaps \in SUBSET Tsns /\ Credible(k.cum, k.gaps)
    BY SenderAssumption DEF Typed, Sack, SacksCredible
  <2>2. CASE AckedBy(e, k.cum, k.gaps)
    BY <1>1, <2>1, <2>2, AckedArrived DEF AckedBy
  <2>3. CASE ~AckedBy(e, k.cum, k.gaps) /\ k.gaps = {}
    BY <1>1, <1>3, <2>3 DEF RecvSack, Held
  <2>4. CASE ~AckedBy(e, k.cum, k.gaps) /\ k.gaps # {}
    <3>1. Retransmit(left, k.cum, k.gaps, up) /\ left \in SUBSET pool /\ e \in left
      BY <1>3, <2>4 DEF RecvSack
    <3>. HIDE DEF left
    <3>. QED
      BY <1>1, <2>1, <3>1, RetransmitHolds
  <2>. QED
    BY <2>2, <2>3, <2>4
<1>4. ASSUME NEW up \in BOOLEAN, Rto(up) PROVE Held(m)' \/ Arrived(m)
  <2>1. Retransmit(pool, sackCum, sackGaps, up) /\ clock # "unset"
    BY <1>4 DEF Rto
  <2>2. sackCum \in Nat /\ sackGaps \in SUBSET Tsns /\ Credible(sackCum, sackGaps)
    BY <2>1, Bounds DEF Typed, SacksCredible
  <2>. QED
    BY <1>1, <2>1, <2>2, RetransmitHolds
<1>5. ASSUME NEW s \in Streams, CloseChannel(s) PROVE Held(m)'
  <2>1. msgs'[m] = msgs[m]
    BY NothingUndone
  <2>2. chan'[s].state = "closed"
    BY <1>5 DEF CloseChannel, Typed
  <2>3. msgs[m].sid # s
    BY <2>1, <2>2 DEF Guaranteed
  <2>. QED
    BY <1>1, <1>5, <2>3 DEF CloseChannel, Held
<1>6. ASSUME NEW s \in Streams, OpenChannel(s) PROVE Held(m)'
  BY <1>1, <1>6 DEF OpenChannel, Inserted, Placed, Held
<1>7. ASSUME NEW s \in Streams, NEW n \in 1..MaxFrags, NEW k \in 0..n, Send(s, n, k) PROVE Held(m)'
  <2>1. pool \subseteq pool'
    BY <1>7 DEF Send, Inserted, Placed
  <2>. QED
    BY <1>1, <2>1 DEF Held
<1>8. ASSUME \/ \E s \in Streams, n \in 1..MaxFrags : BackOff(s, n)
             \/ \E up \in BOOLEAN : SendForward(up)
             \/ Expire \/ Lose \/ (\E t \in Tsns : PeerRecv(t) \/ PeerRecvForward(t))
             \/ (\E r \in Reports : PeerSack(r)) \/ UNCHANGED vars
      PROVE  Held(m)'
  <2>1. pool' = pool
    BY <1>8 DEF BackOff, SendForward, Expire, Lose, PeerRecv, PeerRecvForward, PeerSack, vars, sender
  <2>. QED
    BY <1>1, <2>1 DEF Held
<1>. QED
  BY <1>3, <1>4, <1>5, <1>6, <1>7, <1>8 DEF Next

LEMMA StepHeld ==
  ASSUME SenderInv, [Next]_vars
  PROVE  ReliableHeld'
<1>. SUFFICES ASSUME NEW m \in DOMAIN msgs', Guaranteed(m)'
              PROVE  Arrived(m)' \/ Held(m)'
  BY DEF ReliableHeld
<1>1. CASE m \in DOMAIN msgs
  <2>1. Guaranteed(m) /\ (Arrived(m) => Arrived(m)')
    BY <1>1, OwedBefore DEF SenderInv
  <2>2. Arrived(m) \/ Held(m)
    BY <1>1, <2>1 DEF SenderInv, ReliableHeld
  <2>. QED
    BY <1>1, <2>1, <2>2, EntryKept
<1>2. CASE m \notin DOMAIN msgs
  <2>1. ASSUME NEW s \in Streams, OpenChannel(s) PROVE FALSE
    <3>1. PICK c \in Message : msgs' = Append(msgs, c) /\ c.ack
      BY <2>1, OpenMessage DEF SenderInv
    <3>2. msgs'[m] = c
      BY <1>2, <3>1, AppendKeeps DEF SenderInv
    <3>. QED
      BY <3>1, <3>2 DEF Guaranteed
  <2>2. ASSUME NEW s \in Streams, NEW n \in 1..MaxFrags, NEW k \in 0..n, Send(s, n, k)
        PROVE  Held(m)'
    <3>1. PICK c \in Message : msgs' = Append(msgs, c) /\ c.sid = s
      BY <2>2, SendMessage DEF SenderInv
    <3>2. m = Len(msgs) + 1 /\ msgs'[m] = c
      BY <1>2, <3>1, AppendKeeps DEF SenderInv
    <3>3. s \in Reliable
      BY <3>1, <3>2 DEF Guaranteed
    <3>4. pool' \in Placed
      BY <2>2, <3>3 DEF Send
    <3>5. PICK i \in FreeSlots : pool' = pool \cup {EntryIn(i)}
      BY <3>4 DEF Placed, EntryIn
    <3>6. EntryIn(i) \in pool' /\ EntryIn(i).msg = m
      BY <3>2, <3>5 DEF EntryIn
    <3>. QED
      BY <3>6 DEF Held
  <2>3. ASSUME \/ \E k \in sacks, up \in BOOLEAN : RecvSack(k, up)
               \/ \E s \in Streams : CloseChannel(s)
               \/ \E s \in Streams, n \in 1..MaxFrags : BackOff(s, n)
               \/ \E up \in BOOLEAN : Rto(up) \/ SendForward(up)
               \/ Expire \/ Lose \/ (\E t \in Tsns : PeerRecv(t) \/ PeerRecvForward(t))
               \/ (\E r \in Reports : PeerSack(r)) \/ UNCHANGED vars
        PROVE  FALSE
    <3>1. msgs' = msgs
      BY <2>3 DEF RecvSack, CloseChannel, BackOff, Rto, SendForward, Expire, Lose, PeerRecv,
                  PeerRecvForward, PeerSack, vars
    <3>. QED
      BY <1>2, <3>1
  <2>. QED
    BY <2>1, <2>2, <2>3 DEF Next
<1>. QED
  BY <1>1, <1>2

\* Where the FORWARD-TSN values after a step come from.
LEMMA ForwardsAfter ==
  ASSUME Typed, [Next]_vars, NEW n \in fwdWire' \cup {pendingFwd', skip'}
  PROVE  \/ n \in fwdWire \cup {pendingFwd, skip} \cup {0}
         \/ \E s \in Streams : /\ CloseChannel(s)
                               /\ n = AdvanceTo({e \in pool : msgs[e.msg].sid # s})
<1>. DEFINE Before == fwdWire \cup {pendingFwd, skip} \cup {0}
<1>1. ASSUME NEW s \in Streams, CloseChannel(s)
      PROVE  n \in Before \/ n = AdvanceTo({e \in pool : msgs[e.msg].sid # s})
  <2>1. pool \ {e \in pool : msgs[e.msg].sid = s} = {e \in pool : msgs[e.msg].sid # s}
    OBVIOUS
  <2>. QED
    BY <1>1, <2>1 DEF CloseChannel, network, peer
<1>2. ASSUME NEW up \in BOOLEAN, SendForward(up) PROVE n \in Before
  BY <1>2 DEF SendForward, peer
<1>3. ASSUME NEW t \in Tsns, PeerRecvForward(t) PROVE n \in Before
  <2>1. t \in Nat
    BY SenderAssumption DEF Tsns
  <2>. QED
    BY <1>3, <2>1, Bounds, MaxOfTwo DEF PeerRecvForward, sender
<1>4. ASSUME \/ \E k \in sacks, up \in BOOLEAN : RecvSack(k, up)
             \/ \E s \in Streams : OpenChannel(s)
             \/ \E s \in Streams, j \in 1..MaxFrags : BackOff(s, j) \/ \E k \in 0..j : Send(s, j, k)
             \/ \E up \in BOOLEAN : Rto(up)
             \/ Expire \/ Lose \/ (\E t \in Tsns : PeerRecv(t))
             \/ (\E r \in Reports : PeerSack(r)) \/ UNCHANGED vars
      PROVE  n \in Before
  <2>1. fwdWire' \subseteq fwdWire /\ UNCHANGED <<pendingFwd, skip>>
    BY <1>4 DEF RecvSack, OpenChannel, BackOff, Send, Rto, Expire, Lose, PeerRecv, PeerSack, vars,
                sender, network, peer
  <2>. QED
    BY <2>1
<1>. QED
  BY <1>1, <1>2, <1>3, <1>4 DEF Next

LEMMA StepForward ==
  ASSUME SenderInv, [Next]_vars
  PROVE  ForwardSkipsNothingNeeded'
<1>. SUFFICES ASSUME NEW m \in DOMAIN msgs', Guaranteed(m)',
                     NEW n \in fwdWire' \cup {pendingFwd', skip'},
                     NEW t \in TsnsOf(m)', t <= n
              PROVE  t \in got'
  BY DEF ForwardSkipsNothingNeeded
<1>. USE DEF SenderInv
<1>1. Typed' /\ t \in Nat \ {0}
  <2>1. Typed'
    BY StepTyped
  <2>2. msgs'[m] \in Message
    BY <2>1 DEF Typed
  <2>3. msgs'[m].first \in 1..MaxTsn /\ msgs'[m].last \in 1..MaxTsn
    BY <2>2 DEF Message, Tsns
  <2>4. t \in msgs'[m].first .. msgs'[m].last
    BY DEF TsnsOf
  <2>. QED
    BY <2>1, <2>3, <2>4, SenderAssumption
<1>2. CASE m \in DOMAIN msgs
  <2>1. Guaranteed(m) /\ (Arrived(m) => Arrived(m)') /\ msgs'[m] = msgs[m] /\ got \subseteq got'
    BY <1>2, OwedBefore, NothingUndone
  <2>2. t \in TsnsOf(m)
    BY <2>1 DEF TsnsOf
  <2>3. CASE n \in fwdWire \cup {pendingFwd, skip}
    BY <1>2, <2>1, <2>2, <2>3 DEF ForwardSkipsNothingNeeded
  <2>4. CASE n = 0
    BY <1>1, <2>4
  <2>5. ASSUME NEW s \in Streams, CloseChannel(s),
               n = AdvanceTo({e \in pool : msgs[e.msg].sid # s})
        PROVE  t \in got'
    <3>. DEFINE left == {e \in pool : msgs[e.msg].sid # s}
    <3>1. n \in 0..MaxTsn /\ \A e \in left : n < msgs[e.msg].first
      <4>1. left \in SUBSET pool /\ n = AdvanceTo(left)
        BY <2>5
      <4>. HIDE DEF left
      <4>. QED
        BY <4>1, AdvanceBelowPool
    <3>2. msgs[m].sid # s
      BY <2>1, <2>5 DEF CloseChannel, Guaranteed, Typed
    <3>3. ~Held(m)
      <4>1. SUFFICES ASSUME NEW e \in pool, e.msg = m PROVE FALSE
        BY DEF Held
      <4>2. n < msgs[m].first
        BY <3>1, <3>2, <4>1
      <4>. QED
        BY <1>1, <1>2, <2>2, <3>1, <4>2, NumbersTyped, SenderAssumption DEF TsnsOf
    <3>4. Arrived(m)'
      BY <1>2, <2>1, <3>3 DEF ReliableHeld
    <3>. QED
      BY <3>4 DEF Arrived
  <2>. QED
    BY <2>3, <2>4, <2>5, ForwardsAfter
<1>3. CASE m \notin DOMAIN msgs
  <2>. DEFINE Fresh == msgs'[m].first = myTsn /\ UNCHANGED <<fwdWire, pendingFwd, skip>>
  <2>1. ASSUME NEW s \in Streams, OpenChannel(s) PROVE Fresh
    <3>1. PICK c \in Message : msgs' = Append(msgs, c) /\ c.first = myTsn
      BY <2>1, OpenMessage
    <3>. QED
      BY <1>3, <2>1, <3>1, AppendKeeps DEF OpenChannel, peer
  <2>2. ASSUME NEW s \in Streams, NEW j \in 1..MaxFrags, NEW k \in 0..j, Send(s, j, k)
        PROVE  Fresh
    <3>1. PICK c \in Message : msgs' = Append(msgs, c) /\ c.first = myTsn
      BY <2>2, SendMessage
    <3>. QED
      BY <1>3, <2>2, <3>1, AppendKeeps DEF Send, peer
  <2>3. ASSUME \/ \E k \in sacks, up \in BOOLEAN : RecvSack(k, up)
               \/ \E s \in Streams : CloseChannel(s)
               \/ \E s \in Streams, j \in 1..MaxFrags : BackOff(s, j)
               \/ \E up \in BOOLEAN : Rto(up) \/ SendForward(up)
               \/ Expire \/ Lose \/ (\E u \in Tsns : PeerRecv(u) \/ PeerRecvForward(u))
               \/ (\E r \in Reports : PeerSack(r)) \/ UNCHANGED vars
        PROVE  FALSE
    <3>1. msgs' = msgs
      BY <2>3 DEF RecvSack, CloseChannel, BackOff, Rto, SendForward, Expire, Lose, PeerRecv,
                  PeerRecvForward, PeerSack, vars
    <3>. QED
      BY <1>3, <3>1
  <2>4. Fresh
    BY <2>1, <2>2, <2>3 DEF Next
  <2>5. n < myTsn /\ n \in Nat
    BY <2>4, ForwardsTyped DEF Numbered
  <2>6. myTsn <= t
    BY <1>1, <2>4, Bounds DEF TsnsOf
  <2>. QED
    BY <1>1, <2>5, <2>6, Bounds
<1>. QED
  BY <1>2, <1>3

-----------------------------------------------------------------------------
(* What is sent is held, and never skipped: as theorems.                   *)

LEMMA InitInv == Init => SenderInv
<1>. SUFFICES ASSUME Init PROVE SenderInv
  OBVIOUS
<1>1. Typed
  BY InitTyped
<1>2. DOMAIN msgs = {}
  BY DEF Init
<1>. QED
  BY <1>1, <1>2 DEF Init, SenderInv, Numbered, SacksCredible, ReliableHeld, ForwardSkipsNothingNeeded

LEMMA StepInv == SenderInv /\ [Next]_vars => SenderInv'
  BY StepTyped, StepNumbered, StepCredible, StepHeld, StepForward DEF SenderInv

\* A message of a reliable stream is never lost: it is in the retransmission pool
\* until the peer has every chunk of it, whatever the order and age of the SACKs
\* that free entries, and whatever the quota, the slots, the window, the allocator
\* and the transport refuse.
THEOREM NothingLost == Spec => []ReliableHeld
<1>1. SenderInv => ReliableHeld
  BY DEF SenderInv
<1>. QED
  BY <1>1, InitInv, StepInv, PTL DEF Spec

\* No FORWARD-TSN the sender ever stages covers a chunk of a reliable stream that
\* the peer still needs.
THEOREM NothingNeededSkipped == Spec => []ForwardSkipsNothingNeeded
<1>1. SenderInv => ForwardSkipsNothingNeeded
  BY DEF SenderInv
<1>. QED
  BY <1>1, InitInv, StepInv, PTL DEF Spec

-----------------------------------------------------------------------------
(* The capacity of the pool.                                               *)

\* The TSNs of the messages a set of entries holds.
TsnsIn(p) == UNION {TsnsOf(e.msg) : e \in p}

PoolFits == Cardinality(TsnsIn(pool)) <= PoolBytes

LEMMA TsnsFinite ==
  ASSUME Typed, NEW p \in SUBSET pool
  PROVE  IsFiniteSet(TsnsIn(p)) /\ TsnsIn(p) \subseteq TsnsIn(pool)
<1>1. \A e \in pool : TsnsOf(e.msg) \subseteq Tsns
  BY NumbersTyped DEF Typed
<1>2. TsnsIn(p) \subseteq TsnsIn(pool) /\ TsnsIn(pool) \subseteq 1..MaxTsn
  BY <1>1 DEF TsnsIn, Tsns
<1>3. IsFiniteSet(1..MaxTsn)
  BY FS_Interval, SenderAssumption
<1>. QED
  BY <1>2, <1>3, FS_Subset

\* Entries are freed, or replaced by entries for the same messages.
LEMMA FewerFit ==
  ASSUME Typed, PoolFits, msgs' = msgs, \A f \in pool' : \E e \in pool : f.msg = e.msg
  PROVE  PoolFits'
<1>1. IsFiniteSet(TsnsIn(pool))
  BY TsnsFinite
<1>2. TsnsIn(pool)' \subseteq TsnsIn(pool)
  BY DEF TsnsIn, TsnsOf
<1>3. IsFiniteSet(TsnsIn(pool)') /\ Cardinality(TsnsIn(pool)') <= Cardinality(TsnsIn(pool))
  BY <1>1, <1>2, FS_Subset
<1>4. Cardinality(TsnsIn(pool)') \in Nat /\ Cardinality(TsnsIn(pool)) \in Nat
  BY <1>1, <1>3, FS_CardinalityType
<1>. QED
  BY <1>3, <1>4, SenderAssumption DEF PoolFits

\* A message with its entry, if there is room, or without.
LEMMA InsertFits ==
  ASSUME Typed, PoolFits, NEW m \in Message, msgs' = Append(msgs, m), NEW n \in Nat, n >= 1,
         m.first = myTsn, m.last = myTsn + n - 1, NEW quota \in 0..PoolBytes,
         pool' = pool \/ (Room(quota, n) /\ pool' \in Placed)
  PROVE  PoolFits'
<1> DEFINE U == TsnsIn(pool)
           V == m.first .. m.last
<1>1. IsFiniteSet(U) /\ Cardinality(U) \in Nat /\ Cardinality(U) <= PoolBytes
  BY TsnsFinite, FS_CardinalityType DEF PoolFits
<1>2. IsFiniteSet(V) /\ Cardinality(V) = n
  <2>1. PICK a \in Nat : a = myTsn
    BY Bounds
  <2>2. V = a .. (a + n - 1)
    BY <2>1
  <2>3. a \in Int /\ a + n - 1 \in Int /\ a + n - 1 >= a /\ (a + n - 1) - a + 1 = n
    OBVIOUS
  <2>4. IsFiniteSet(a .. (a + n - 1)) /\ Cardinality(a .. (a + n - 1)) = (a + n - 1) - a + 1
    BY <2>3, FS_Interval
  <2>. QED
    BY <2>2, <2>3, <2>4
<1>3. \A e \in pool : TsnsOf(e.msg)' = TsnsOf(e.msg)
  BY AppendKeeps DEF Typed, TsnsOf
<1>4. CASE pool' = pool
  <2>1. TsnsIn(pool)' = U
    BY <1>3, <1>4 DEF TsnsIn
  <2>. QED
    BY <1>1, <2>1 DEF PoolFits
<1>5. CASE Room(quota, n) /\ pool' \in Placed
  <2>1. PICK f : f.msg = Len(msgs) + 1 /\ pool' = pool \cup {f}
    <3>1. PICK i \in FreeSlots : pool' = pool \cup {EntryIn(i)}
      BY <1>5 DEF Placed, EntryIn
    <3>2. EntryIn(i).msg = Len(msgs) + 1
      BY DEF EntryIn
    <3>. QED
      BY <3>1, <3>2
  <2>2. msgs'[f.msg].first .. msgs'[f.msg].last = V
    BY <2>1, AppendKeeps
  <2>3. TsnsIn(pool)' = UNION {msgs'[e.msg].first .. msgs'[e.msg].last : e \in pool \cup {f}}
    BY <2>1 DEF TsnsIn, TsnsOf
  <2>4. U = UNION {msgs'[e.msg].first .. msgs'[e.msg].last : e \in pool}
    BY <1>3 DEF TsnsIn, TsnsOf
  <2>5. n + Cardinality(U) <= quota
    BY <1>5 DEF Room, Used, TsnsIn
  <2> HIDE DEF U, V
  <2>6. TsnsIn(pool)' = U \cup V
    BY <2>2, <2>3, <2>4
  <2>7. IsFiniteSet(U \cap V) /\ Cardinality(U \cap V) \in Nat
    BY <1>1, FS_Intersection, FS_CardinalityType
  <2>8. Cardinality(U \cup V) = Cardinality(U) + n - Cardinality(U \cap V)
    BY <1>1, <1>2, FS_Union
  <2>9. Cardinality(TsnsIn(pool)') <= PoolBytes
    BY <1>1, <2>5, <2>6, <2>7, <2>8, SenderAssumption
  <2>. QED
    BY <2>9 DEF PoolFits
<1>. QED
  BY <1>4, <1>5

LEMMA StepFits == Typed /\ PoolFits /\ [Next]_vars => PoolFits'
<1>. SUFFICES ASSUME Typed, PoolFits, [Next]_vars PROVE PoolFits'
  OBVIOUS
<1>1. ASSUME NEW s \in Streams, OpenChannel(s) PROVE PoolFits'
  <2>1. PICK m \in Message : msgs' = Append(msgs, m) /\ m.first = myTsn /\ m.last = myTsn
    BY <1>1, OpenMessage
  <2>2. pool' = pool \/ (Room(PoolBytes, 1) /\ pool' \in Placed)
    BY <1>1 DEF OpenChannel, Inserted
  <2>3. myTsn = myTsn + 1 - 1 /\ PoolBytes \in 0..PoolBytes
    BY Bounds, SenderAssumption
  <2>. QED
    BY <2>1, <2>2, <2>3, InsertFits
<1>2. ASSUME NEW s \in Streams, NEW n \in 1..MaxFrags, NEW k \in 0..n, Send(s, n, k)
      PROVE  PoolFits'
  <2>1. PICK m \in Message : /\ msgs' = Append(msgs, m) /\ m.first = myTsn
                             /\ m.last = myTsn + n - 1 /\ n \in Nat /\ n >= 1
    BY <1>2, SendMessage, ZenonT(40)
  <2>2. pool' = pool \/ (Room(Quota(s), n) /\ pool' \in Placed)
    BY <1>2 DEF Send, Inserted, Fits
  <2>3. Quota(s) \in 0..PoolBytes
    BY SenderAssumption DEF Quota
  <2>. QED
    BY <2>1, <2>2, <2>3, InsertFits
<1>3. ASSUME NEW k \in sacks, NEW up \in BOOLEAN, RecvSack(k, up) PROVE PoolFits'
  <2> DEFINE left == {e \in pool : ~AckedBy(e, k.cum, k.gaps)}
  <2>1. msgs' = msgs /\ (pool' = left \/ Retransmit(left, k.cum, k.gaps, up))
    BY <1>3 DEF RecvSack
  <2>2. k.cum \in Nat /\ k.gaps \in SUBSET Tsns
    BY SenderAssumption DEF Typed, Sack
  <2>3. left \in SUBSET pool
    OBVIOUS
  <2> HIDE DEF left
  <2>4. \A f \in pool' : \E e \in pool : f.msg = e.msg
    <3>1. CASE pool' = left
      BY <2>3, <3>1
    <3>2. CASE Retransmit(left, k.cum, k.gaps, up)
      <4>1. \A f \in pool' : f.tries <= MaxRexmit /\ \E e \in left : f.msg = e.msg
        BY <2>2, <2>3, <3>2, RetransmitKeeps
      <4>. QED
        BY <2>3, <4>1
    <3>. QED
      BY <2>1, <3>1, <3>2
  <2>. QED
    BY <2>1, <2>4, FewerFit
<1>4. ASSUME NEW up \in BOOLEAN, Rto(up) PROVE PoolFits'
  <2>1. msgs' = msgs /\ Retransmit(pool, sackCum, sackGaps, up)
    BY <1>4 DEF Rto
  <2>2. sackCum \in Nat /\ sackGaps \in SUBSET Tsns
    BY SenderAssumption DEF Typed
  <2>3. \A f \in pool' : f.tries <= MaxRexmit /\ \E e \in pool : f.msg = e.msg
    BY <2>1, <2>2, RetransmitKeeps
  <2>. QED
    BY <2>1, <2>3, FewerFit
<1>5. ASSUME NEW s \in Streams, CloseChannel(s) PROVE PoolFits'
  <2>1. msgs' = msgs /\ pool' \subseteq pool
    BY <1>5 DEF CloseChannel
  <2>. QED
    BY <2>1, FewerFit
<1>6. ASSUME \/ \E s \in Streams, n \in 1..MaxFrags : BackOff(s, n)
             \/ \E up \in BOOLEAN : SendForward(up)
             \/ Expire \/ Lose \/ (\E t \in Tsns : PeerRecv(t) \/ PeerRecvForward(t))
             \/ (\E r \in Reports : PeerSack(r)) \/ UNCHANGED vars
      PROVE  PoolFits'
  <2>1. msgs' = msgs /\ pool' = pool
    BY <1>6 DEF BackOff, SendForward, Expire, Lose, PeerRecv, PeerRecvForward, PeerSack, vars, sender
  <2>. QED
    BY <2>1, FewerFit
<1>. QED
  BY <1>1, <1>2, <1>3, <1>4, <1>5, <1>6 DEF Next

-----------------------------------------------------------------------------
(* The numbers are used without a gap.                                     *)

\* How many of the first n messages of q belong to stream s.
Count(q, s, n) == Cardinality({i \in 1..n : q[i].sid = s})

\* Each message starts where the one before it ended, the next one at myTsn.
Chained ==
  /\ \A m \in DOMAIN msgs : msgs[m].first = IF m = 1 THEN 1 ELSE msgs[m - 1].last + 1
  /\ myTsn = IF msgs = <<>> THEN 1 ELSE msgs[Len(msgs)].last + 1
  /\ Len(msgs) < myTsn

\* The messages of an ordered stream, and the one it sends next, carry the number
\* of those before them, until the counter is about to wrap.
InTurn ==
  /\ \A m \in DOMAIN msgs :
       msgs[m].sid \in Ordered /\ Count(msgs, msgs[m].sid, m - 1) < SsnMod - 1
         => msgs[m].ssn = Count(msgs, msgs[m].sid, m - 1)
  /\ \A s \in Ordered :
       Count(msgs, s, Len(msgs)) < SsnMod - 1 => chan[s].ssn = Count(msgs, s, Len(msgs))

\* No ordered stream has carried 2^16 messages yet.
BeforeWrap == \A s \in Ordered : Count(msgs, s, Len(msgs)) < SsnMod

LEMMA CountTyped == \A q, s : \A n \in Nat : Count(q, s, n) \in Nat /\ Count(q, s, n) <= n
<1>. TAKE q, s
<1>. TAKE n \in Nat
<1> DEFINE S == {i \in 1..n : q[i].sid = s}
<1>1. IsFiniteSet(1..n) /\ Cardinality(1..n) = n
  <2>1. 1 \in Int /\ n \in Int /\ (1 > n => n = 0) /\ n - 1 + 1 = n
    OBVIOUS
  <2>. QED
    BY <2>1, FS_Interval
<1>2. S \in SUBSET (1..n)
  OBVIOUS
<1> HIDE DEF S
<1>3. IsFiniteSet(S) /\ Cardinality(S) <= n
  BY <1>1, <1>2, FS_Subset
<1>4. Cardinality(S) \in Nat
  BY <1>3, FS_CardinalityType
<1>. QED
  BY <1>3, <1>4 DEF Count, S

\* One more message counts once, for its own stream.
LEMMA CountNext ==
  \A q, s : \A n \in Nat :
    Count(q, s, n + 1) = IF q[n + 1].sid = s THEN Count(q, s, n) + 1 ELSE Count(q, s, n)
<1>. TAKE q, s
<1>. TAKE n \in Nat
<1> DEFINE S == {i \in 1..n : q[i].sid = s}
<1>1. IsFiniteSet(S)
  <2>1. IsFiniteSet(1..n)
    BY FS_Interval
  <2>. QED
    BY <2>1, FS_Subset
<1>2. n + 1 \notin S
  OBVIOUS
<1>3. {i \in 1..(n + 1) : q[i].sid = s} = IF q[n + 1].sid = s THEN S \cup {n + 1} ELSE S
  <2>1. 1..(n + 1) = (1..n) \cup {n + 1}
    OBVIOUS
  <2>. QED
    BY <2>1
<1> HIDE DEF S
<1>4. Cardinality(S \cup {n + 1}) = IF n + 1 \in S THEN Cardinality(S) ELSE Cardinality(S) + 1
  BY <1>1, FS_AddElement
<1>5. Count(q, s, n) = Cardinality(S)
  BY DEF Count, S
<1>6. Count(q, s, n + 1) = Cardinality(IF q[n + 1].sid = s THEN S \cup {n + 1} ELSE S)
  BY <1>3 DEF Count
<1>. QED
  BY <1>2, <1>4, <1>5, <1>6

\* The counts of the old messages are as they were.
LEMMA CountAppend ==
  ASSUME Typed, NEW m \in Message, msgs' = Append(msgs, m)
  PROVE  /\ \A s : \A n \in 0..Len(msgs) : Count(msgs', s, n) = Count(msgs, s, n)
         /\ \A s : Count(msgs', s, Len(msgs'))
                     = IF m.sid = s THEN Count(msgs, s, Len(msgs)) + 1 ELSE Count(msgs, s, Len(msgs))
<1>1. /\ msgs \in Seq(Message) /\ Len(msgs) \in Nat /\ Len(msgs') = Len(msgs) + 1
      /\ msgs'[Len(msgs) + 1] = m /\ \A i \in 1..Len(msgs) : msgs'[i] = msgs[i]
  BY DEF Typed
<1>2. \A s : \A n \in 0..Len(msgs) : Count(msgs', s, n) = Count(msgs, s, n)
  <2>. TAKE s
  <2>. TAKE n \in 0..Len(msgs)
  <2>1. \A i \in 1..n : i \in 1..Len(msgs)
    BY <1>1
  <2>2. {i \in 1..n : msgs'[i].sid = s} = {i \in 1..n : msgs[i].sid = s}
    BY <1>1, <2>1
  <2>. QED
    BY <2>2 DEF Count
<1>3. \A s : Count(msgs', s, Len(msgs) + 1)
               = IF m.sid = s THEN Count(msgs', s, Len(msgs)) + 1 ELSE Count(msgs', s, Len(msgs))
  <2>1. PICK q : q = msgs'
    OBVIOUS
  <2>2. PICK n \in Nat : n = Len(msgs)
    BY <1>1
  <2>3. \A s : Count(q, s, n + 1) = IF q[n + 1].sid = s THEN Count(q, s, n) + 1 ELSE Count(q, s, n)
    BY CountNext
  <2>4. q[n + 1] = m
    BY <1>1, <2>1, <2>2
  <2>. QED
    BY <2>1, <2>2, <2>3, <2>4
<1>4. Len(msgs) \in 0..Len(msgs)
  BY <1>1
<1>. QED
  BY <1>1, <1>2, <1>3, <1>4

LEMMA ChainGrows ==
  ASSUME Typed, Chained, NEW m \in Message, msgs' = Append(msgs, m),
         m.first = myTsn, m.last >= m.first, myTsn' = m.last + 1
  PROVE  Chained'
<1>1. /\ msgs \in Seq(Message) /\ Len(msgs) \in Nat /\ Len(msgs') = Len(msgs) + 1
      /\ DOMAIN msgs = 1..Len(msgs) /\ DOMAIN msgs' = 1..(Len(msgs) + 1)
      /\ msgs'[Len(msgs) + 1] = m /\ \A i \in 1..Len(msgs) : msgs'[i] = msgs[i]
      /\ (msgs = <<>> <=> Len(msgs) = 0) /\ msgs' # <<>>
  BY DEF Typed
<1>2. PICK L \in Nat : L = Len(msgs)
  BY <1>1
<1>3. m.first \in Nat /\ m.last \in Nat /\ myTsn \in Nat
  BY Bounds, SenderAssumption DEF Message, Tsns
<1>4. m.first = IF L = 0 THEN 1 ELSE msgs[L].last + 1
  BY <1>1, <1>2 DEF Chained
<1>5. \A i \in 1..(L + 1) : msgs'[i].first = IF i = 1 THEN 1 ELSE msgs'[i - 1].last + 1
  <2>. TAKE i \in 1..(L + 1)
  <2>1. CASE i \in 1..L
    <3>1. msgs'[i] = msgs[i] /\ msgs[i].first = IF i = 1 THEN 1 ELSE msgs[i - 1].last + 1
      BY <1>1, <1>2, <2>1 DEF Chained
    <3>2. i # 1 => i - 1 \in 1..L
      BY <2>1
    <3>3. i # 1 => msgs'[i - 1] = msgs[i - 1]
      BY <1>1, <1>2, <3>2
    <3>. QED
      BY <3>1, <3>3
  <2>2. CASE i = L + 1
    <3>1. msgs'[i] = m /\ i - 1 = L /\ (i = 1 <=> L = 0)
      BY <1>1, <1>2, <2>2
    <3>2. L # 0 => L \in 1..Len(msgs)
      BY <1>2
    <3>3. L # 0 => msgs'[L] = msgs[L]
      BY <1>1, <3>2
    <3>4. m.first = IF L = 0 THEN 1 ELSE msgs'[L].last + 1
      BY <1>4, <3>3
    <3>5. CASE i = 1
      BY <3>1, <3>4, <3>5
    <3>6. CASE i # 1
      <4>1. msgs'[i - 1] = msgs'[L] /\ L # 0
        BY <3>1, <3>6
      <4>2. msgs'[i].first = msgs'[i - 1].last + 1
        BY <3>1, <3>4, <4>1
      <4>. QED
        BY <3>6, <4>2
    <3>. QED
      BY <3>5, <3>6
  <2>3. i \in 1..L \/ i = L + 1
    OBVIOUS
  <2>. QED
    BY <2>1, <2>2, <2>3
<1>6. L + 1 < myTsn'
  <2>1. L < myTsn
    BY <1>2 DEF Chained
  <2>. QED
    BY <1>3, <2>1
<1>7. Len(msgs') = L + 1 /\ DOMAIN msgs' = 1..(L + 1) /\ msgs'[L + 1] = m
  BY <1>1, <1>2
<1>. QED
  BY <1>1, <1>5, <1>6, <1>7 DEF Chained

\* A message of stream s takes the stream's number, which moves on; those of the
\* other streams stay.
LEMMA TurnGrows ==
  ASSUME Typed, InTurn, NEW m \in Message, msgs' = Append(msgs, m),
         \A r \in Ordered \ {m.sid} : chan'[r].ssn = chan[r].ssn,
         m.sid \in Ordered /\ Count(msgs, m.sid, Len(msgs)) < SsnMod - 1
           => m.ssn = Count(msgs, m.sid, Len(msgs))
              /\ chan'[m.sid].ssn = NextSsn(Count(msgs, m.sid, Len(msgs)))
  PROVE  InTurn'
<1> DEFINE N(s) == Count(msgs, s, Len(msgs))
<1>1. /\ Len(msgs) \in Nat
      /\ \A i \in DOMAIN msgs' : (i \in 1..Len(msgs) /\ msgs'[i] = msgs[i])
                                   \/ (i = Len(msgs) + 1 /\ msgs'[i] = m)
      /\ DOMAIN msgs = 1..Len(msgs)
  BY AppendKeeps DEF Typed
<1>2. \A s : \A n \in 0..Len(msgs) : Count(msgs', s, n) = Count(msgs, s, n)
  BY CountAppend
<1>3. \A s : Count(msgs', s, Len(msgs')) = IF m.sid = s THEN N(s) + 1 ELSE N(s)
  BY CountAppend
<1>4. \A s : N(s) \in Nat
  BY <1>1, CountTyped
<1>5. SsnMod \in Nat
  BY SenderAssumption
<1>6. \A i \in DOMAIN msgs' :
        msgs'[i].sid \in Ordered /\ Count(msgs', msgs'[i].sid, i - 1) < SsnMod - 1
          => msgs'[i].ssn = Count(msgs', msgs'[i].sid, i - 1)
  <2>. TAKE i \in DOMAIN msgs'
  <2>1. CASE i \in 1..Len(msgs) /\ msgs'[i] = msgs[i]
    <3>1. i - 1 \in 0..Len(msgs)
      BY <1>1, <2>1
    <3>2. Count(msgs', msgs[i].sid, i - 1) = Count(msgs, msgs[i].sid, i - 1)
      BY <1>2, <3>1
    <3>. QED
      BY <1>1, <2>1, <3>2 DEF InTurn
  <2>2. CASE i = Len(msgs) + 1 /\ msgs'[i] = m
    <3>1. i - 1 = Len(msgs) /\ Len(msgs) \in 0..Len(msgs)
      BY <1>1, <2>2
    <3>2. Count(msgs', m.sid, i - 1) = N(m.sid)
      BY <1>2, <3>1
    <3>. QED
      BY <2>2, <3>2
  <2>. QED
    BY <1>1, <2>1, <2>2
<1>7. \A s \in Ordered : Count(msgs', s, Len(msgs')) < SsnMod - 1
                           => chan'[s].ssn = Count(msgs', s, Len(msgs'))
  <2>. TAKE s \in Ordered
  <2>1. CASE s = m.sid
    <3>1. PICK c \in Nat : c = N(s)
      BY <1>4
    <3>2. Count(msgs', s, Len(msgs')) = c + 1
      BY <1>3, <2>1, <3>1
    <3>3. c + 1 < SsnMod - 1 => NextSsn(c) = c + 1 /\ c < SsnMod - 1
      BY <1>5 DEF NextSsn
    <3>4. c < SsnMod - 1 => chan'[s].ssn = NextSsn(c)
      BY <2>1, <3>1
    <3>. QED
      BY <3>2, <3>3, <3>4
  <2>2. CASE s # m.sid
    <3>1. Count(msgs', s, Len(msgs')) = N(s) /\ chan'[s].ssn = chan[s].ssn
      BY <1>3, <2>2
    <3>. QED
      BY <3>1 DEF InTurn
  <2>. QED
    BY <2>1, <2>2
<1>. QED
  BY <1>6, <1>7 DEF InTurn

\* A stream that has not been opened has no message.
LEMMA NoneBeforeOpen ==
  ASSUME Typed, Numbered, NEW s \in Streams, chan[s].state = "new"
  PROVE  Count(msgs, s, Len(msgs)) = 0
<1>1. DOMAIN msgs = 1..Len(msgs)
  BY DEF Typed
<1>2. {i \in 1..Len(msgs) : msgs[i].sid = s} = {}
  BY <1>1 DEF Numbered
<1>. QED
  BY <1>2, FS_EmptySet DEF Count

GaplessInv == Chained /\ InTurn

LEMMA StepGapless ==
  ASSUME Typed, Numbered, GaplessInv, [Next]_vars
  PROVE  GaplessInv'
<1>0. Chained /\ InTurn /\ SsnMod \in Nat /\ Ordered \subseteq Streams
  BY SenderAssumption DEF GaplessInv
<1>1. ASSUME NEW s \in Streams, OpenChannel(s) PROVE GaplessInv'
  <2> DEFINE m == NewMessage(s, 0, 1, TRUE)
  <2>1. m \in Message /\ msgs' = Append(msgs, m) /\ m.sid = s /\ m.first = myTsn /\ m.last = myTsn
        /\ myTsn' = myTsn + 1
    BY <1>1, OpenMessage
  <2>2. m.ssn = 0 /\ Count(msgs, s, Len(msgs)) = 0
    BY <1>1, NoneBeforeOpen DEF NewMessage, OpenChannel
  <2>3. chan'[s].ssn = NextSsn(0) /\ \A r \in Streams \ {s} : chan'[r].ssn = chan[r].ssn
    BY <1>1 DEF OpenChannel, Typed
  <2> HIDE DEF m
  <2>4. PICK x \in Message : x = m
    BY <2>1
  <2>5. Chained'
    BY <1>0, <2>1, <2>4, Bounds, ChainGrows
  <2>6. InTurn'
    BY <1>0, <2>1, <2>2, <2>3, <2>4, TurnGrows
  <2>. QED
    BY <2>5, <2>6 DEF GaplessInv
<1>2. ASSUME NEW s \in Streams, NEW n \in 1..MaxFrags, NEW k \in 0..n, Send(s, n, k)
      PROVE  GaplessInv'
  <2> DEFINE ssn == IF s \in Ordered THEN chan[s].ssn ELSE 0
             m == NewMessage(s, ssn, n, FALSE)
  <2>1. /\ m \in Message /\ msgs' = Append(msgs, m) /\ m.sid = s /\ m.first = myTsn
        /\ m.last = myTsn + n - 1 /\ myTsn' = myTsn + n /\ n \in Nat /\ n >= 1
    BY <1>2, SendMessage
  <2>2. s \in Ordered => m.ssn = chan[s].ssn
    BY DEF NewMessage
  <2>3. /\ s \in Ordered => chan'[s].ssn = NextSsn(chan[s].ssn)
        /\ \A r \in Streams \ {s} : chan'[r].ssn = chan[r].ssn
    BY <1>2 DEF Send, Typed
  <2> HIDE DEF m
  <2>4. PICK x \in Message : x = m
    BY <2>1
  <2>5. m.last >= m.first /\ myTsn' = m.last + 1
    BY <2>1, Bounds, SMTT(30)
  <2>6. Chained'
    BY <1>0, <2>1, <2>4, <2>5, ChainGrows
  <2>7. s \in Ordered /\ Count(msgs, s, Len(msgs)) < SsnMod - 1
          => chan[s].ssn = Count(msgs, s, Len(msgs))
    BY <1>0 DEF InTurn
  <2>8. InTurn'
    BY <1>0, <2>1, <2>2, <2>3, <2>4, <2>7, TurnGrows
  <2>. QED
    BY <2>6, <2>8 DEF GaplessInv
<1>3. ASSUME NEW s \in Streams, NEW n \in 1..MaxFrags, BackOff(s, n) PROVE GaplessInv'
  <2>1. msgs' = msgs /\ myTsn' = myTsn
    BY <1>3 DEF BackOff
  <2>2. \A r \in Streams : chan'[r].ssn = IF r = s /\ r \in Ordered /\ NextSsn(chan[r].ssn) = 0
                                         THEN 0 ELSE chan[r].ssn
    BY <1>3 DEF BackOff, Typed
  <2>3. \A r \in Ordered : Count(msgs, r, Len(msgs)) < SsnMod - 1
                             => chan'[r].ssn = Count(msgs, r, Len(msgs))
    <3>. TAKE r \in Ordered
    <3>1. PICK c : c = Count(msgs, r, Len(msgs))
      OBVIOUS
    <3>2. c \in Nat
      BY <3>1, CountTyped DEF Typed
    <3>3. c < SsnMod - 1 => chan[r].ssn = c
      BY <1>0, <3>1 DEF InTurn
    <3>4. c < SsnMod - 1 => NextSsn(c) = c + 1 /\ c + 1 # 0
      BY <1>0, <3>2 DEF NextSsn
    <3>5. c < SsnMod - 1 => chan'[r].ssn = c
      BY <1>0, <2>2, <3>3, <3>4
    <3>. QED
      BY <3>1, <3>5
  <2>. QED
    BY <1>0, <2>1, <2>3 DEF GaplessInv, Chained, InTurn
<1>4. ASSUME NEW s \in Streams, CloseChannel(s) PROVE GaplessInv'
  <2>1. msgs' = msgs /\ myTsn' = myTsn
    BY <1>4 DEF CloseChannel
  <2>2. \A r \in Streams : chan'[r].ssn = chan[r].ssn
    BY <1>4 DEF CloseChannel, Typed
  <2>. QED
    BY <1>0, <2>1, <2>2 DEF GaplessInv, Chained, InTurn
<1>5. ASSUME \/ \E k \in sacks, up \in BOOLEAN : RecvSack(k, up)
             \/ \E up \in BOOLEAN : Rto(up) \/ SendForward(up)
             \/ Expire \/ Lose \/ (\E t \in Tsns : PeerRecv(t) \/ PeerRecvForward(t))
             \/ (\E r \in Reports : PeerSack(r)) \/ UNCHANGED vars
      PROVE  GaplessInv'
  <2>1. UNCHANGED <<msgs, chan, myTsn>>
    BY <1>5 DEF RecvSack, Rto, SendForward, Expire, Lose, PeerRecv, PeerRecvForward, PeerSack, vars, sender
  <2>. QED
    BY <1>0, <2>1 DEF GaplessInv, Chained, InTurn
<1>. QED
  BY <1>1, <1>2, <1>3, <1>4, <1>5 DEF Next

LEMMA InitGapless == Init => GaplessInv
<1>. SUFFICES ASSUME Init PROVE GaplessInv
  OBVIOUS
<1>1. msgs = <<>> /\ myTsn = 1 /\ \A s \in Streams : chan[s].ssn = 0
  BY DEF Init
<1>2. DOMAIN msgs = {} /\ Len(msgs) = 0
  BY <1>1
<1>3. Chained
  BY <1>1, <1>2 DEF Chained
<1>4. \A s : Count(msgs, s, Len(msgs)) = 0
  <2>1. \A s : {i \in 1..Len(msgs) : msgs[i].sid = s} = {}
    BY <1>2
  <2>. QED
    BY <2>1, FS_EmptySet DEF Count
<1>5. Ordered \subseteq Streams
  BY SenderAssumption
<1>. QED
  BY <1>1, <1>2, <1>3, <1>4, <1>5 DEF GaplessInv, InTurn

\* A message has fewer before it than its stream has in all.
LEMMA CountBefore ==
  ASSUME Typed, NEW m \in DOMAIN msgs
  PROVE  Count(msgs, msgs[m].sid, m - 1) < Count(msgs, msgs[m].sid, Len(msgs))
<1> DEFINE s == msgs[m].sid
           A == {i \in 1..(m - 1) : msgs[i].sid = s}
           B == {i \in 1..Len(msgs) : msgs[i].sid = s}
<1>1. Len(msgs) \in Nat /\ m \in 1..Len(msgs)
  BY DEF Typed
<1>2. A \subseteq B /\ m \in B /\ m \notin A
  BY <1>1
<1>3. IsFiniteSet(B)
  <2>1. IsFiniteSet(1..Len(msgs))
    BY <1>1, FS_Interval
  <2>. QED
    BY <2>1, FS_Subset
<1>4. PICK a \in SUBSET B : a = A
  BY <1>2
<1>5. Count(msgs, s, m - 1) = Cardinality(a) /\ Count(msgs, s, Len(msgs)) = Cardinality(B)
  BY <1>4 DEF Count
<1> HIDE DEF A, B, s
<1>6. /\ IsFiniteSet(a) /\ Cardinality(a) <= Cardinality(B)
      /\ Cardinality(B) = Cardinality(a) => B = a
  BY <1>3, FS_Subset
<1>7. Cardinality(a) \in Nat /\ Cardinality(B) \in Nat /\ a # B
  BY <1>2, <1>3, <1>4, <1>6, FS_CardinalityType
<1>8. Cardinality(a) < Cardinality(B)
  BY <1>6, <1>7
<1>. QED
  BY <1>5, <1>8 DEF s

LEMMA GaplessBeforeWrap == Typed /\ GaplessInv => (BeforeWrap => NumbersGapless)
<1>. SUFFICES ASSUME Typed, GaplessInv, BeforeWrap PROVE NumbersGapless
  OBVIOUS
<1>1. ASSUME NEW m \in DOMAIN msgs, msgs[m].sid \in Ordered
      PROVE  msgs[m].ssn = Count(msgs, msgs[m].sid, m - 1) % SsnMod
  <2>1. PICK s : s = msgs[m].sid
    OBVIOUS
  <2>2. PICK c : c = Count(msgs, s, m - 1)
    OBVIOUS
  <2>3. PICK d : d = Count(msgs, s, Len(msgs))
    OBVIOUS
  <2>4. m - 1 \in Nat /\ Len(msgs) \in Nat
    BY DEF Typed
  <2>5. c \in Nat /\ d \in Nat
    BY <2>2, <2>3, <2>4, CountTyped
  <2>6. c < d /\ d < SsnMod /\ SsnMod \in Nat
    BY <1>1, <2>1, <2>2, <2>3, CountBefore, SenderAssumption DEF BeforeWrap
  <2>7. c < SsnMod - 1 /\ c % SsnMod = c
    BY <2>5, <2>6
  <2>8. msgs[m].ssn = c
    BY <1>1, <2>1, <2>2, <2>7 DEF GaplessInv, InTurn
  <2>. QED
    BY <2>1, <2>2, <2>7, <2>8
<1>. QED
  BY <1>1 DEF NumbersGapless, GaplessInv, Chained, Count

LEMMA FewMessages ==
  ASSUME Typed, Chained, MaxTsn < SsnMod
  PROVE  BeforeWrap
<1>1. Len(msgs) \in Nat /\ Len(msgs) < myTsn /\ myTsn \in Nat /\ myTsn <= MaxTsn + 1
      /\ MaxTsn \in Nat /\ SsnMod \in Nat
  BY Bounds DEF Typed, Chained
<1>2. \A s : Count(msgs, s, Len(msgs)) \in Nat /\ Count(msgs, s, Len(msgs)) <= Len(msgs)
  BY <1>1, CountTyped
<1>3. ASSUME NEW s \in Ordered PROVE Count(msgs, s, Len(msgs)) < SsnMod
  <2>1. PICK c : c = Count(msgs, s, Len(msgs))
    OBVIOUS
  <2>2. PICK l : l = Len(msgs)
    OBVIOUS
  <2>3. c \in Nat /\ c <= l
    BY <1>2, <2>1, <2>2
  <2>4. l \in Nat /\ l < myTsn
    BY <1>1, <2>2
  <2>5. c < SsnMod
    BY <1>1, <2>3, <2>4
  <2>. QED
    BY <2>1, <2>5
<1>. QED
  BY <1>3 DEF BeforeWrap

-----------------------------------------------------------------------------
(* Capacity and numbering, as theorems.                                    *)

LEMMA InitFits == Init => PoolFits
<1>. SUFFICES ASSUME Init PROVE PoolFits
  OBVIOUS
<1>1. pool = {} /\ TsnsIn(pool) = {}
  BY DEF Init, TsnsIn
<1>2. Cardinality({}) = 0
  BY FS_EmptySet
<1>. QED
  BY <1>1, <1>2, SenderAssumption DEF PoolFits

\* No two messages are ever put into one slot of the pool, which never holds more
\* fragments than SCTP_REXMIT_POOL_BYTES, whatever the quotas of the streams, the sizes of
\* the messages and the order in which SACKs, time-outs and resets free them; and
\* every other variable keeps its shape.
THEOREM TypeCorrect == Spec => []TypeOK
<1>1. Typed /\ PoolFits => TypeOK
  BY DEF PoolFits, TypeOK, Used, TsnsIn
<1>. QED
  BY <1>1, InitTyped, InitFits, StepTyped, StepFits, PTL DEF Spec

LEMMA GaplessAlways == Spec => [](Typed /\ GaplessInv)
<1>1. Init => Typed /\ Numbered /\ GaplessInv
  BY InitInv, InitGapless DEF SenderInv
<1>2. Typed /\ Numbered /\ GaplessInv /\ [Next]_vars => (Typed /\ Numbered /\ GaplessInv)'
  BY StepTyped, StepNumbered, StepGapless
<1>. QED
  BY <1>1, <1>2, PTL DEF Spec

\* As long as no ordered stream has carried 2^16 messages, the TSNs of the
\* association and the SSNs of each ordered stream are used without a gap, however
\* often sctpSend gives its numbers back.
THEOREM GaplessUntilWrap == Spec => [](BeforeWrap => NumbersGapless)
<1>. QED
  BY GaplessAlways, GaplessBeforeWrap, PTL

\* So an association that sends fewer than 2^16 TSNs never leaves one out.
THEOREM NeverGaps ==
  ASSUME MaxTsn < SsnMod
  PROVE  Spec => []NumbersGapless
<1>1. Typed /\ GaplessInv => NumbersGapless
  BY GaplessBeforeWrap, FewMessages DEF GaplessInv
<1>. QED
  BY <1>1, GaplessAlways, PTL

=============================================================================
