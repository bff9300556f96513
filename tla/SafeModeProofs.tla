---------------------------- MODULE SafeModeProofs ----------------------------
(***************************************************************************)
(* Proofs about SafeMode, for any number of clients, any archives and any  *)
(* store: what a boot runs on and what an answered upload may rely on, as  *)
(* long as formatting the store does not fail; and what a backup holds.    *)
(***************************************************************************)
EXTENDS SafeMode, TLAPS

USE SafeModeAssumption

\* The upload being served: what came with its head, and what was fed, was sent.
Reading ==
    /\ \A c \in Clients : conn[c] = "new" => sent[c] = 0
    /\ work.pc # "idle" => work.conn \in Clients /\ conn[work.conn] # "new"
    /\ work.pc \in {"peek", "format", "mark", "feed"} =>
         work.pre <= sent[work.conn] /\ work.pos <= sent[work.conn]
    /\ work.pc \in {"peek", "format", "mark"} =>
         work.pos = 0 /\ ~work.failed /\ ~work.footer

Typed == TypeOK /\ Reading

LEMMA TypedInit == Init => Typed
<1> SUFFICES ASSUME Init PROVE Typed
  OBVIOUS
<1>1. work \in Work /\ work.pc = "idle"
  BY DEF Init, Idle, Work
<1>2. request \in [Clients -> Request] /\ \A c \in Clients : Body(c) = <<>>
  BY DEF Init, Request, Body
<1>3. \A c \in Clients : sent[c] <= Len(Body(c))
  BY <1>2 DEF Init
<1> QED BY <1>1, <1>2, <1>3 DEF Init, Typed, TypeOK, Reading, Modes, Answers

\* A body that is not empty is one of Bodies, so a sequence of tokens.
LEMMA BodyShape ==
    ASSUME TypeOK, NEW c \in Clients
    PROVE  /\ Body(c) \in Seq(Files \cup {"magic", "junk", "end"})
           /\ Body(c) # <<>> => Body(c) \in Bodies
           /\ Len(Body(c)) \in Nat
<1>1. request[c] \in Request
  BY DEF TypeOK
<1>2. Body(c) \in Bodies \cup {<<>>}
  BY <1>1 DEF Request, Body
<1>3. <<>> \in Seq(Files \cup {"magic", "junk", "end"})
  OBVIOUS
<1>4. Body(c) \in Seq(Files \cup {"magic", "junk", "end"})
  BY <1>2, <1>3
<1>5. Len(Body(c)) \in Nat
  BY <1>4
<1> QED BY <1>2, <1>4, <1>5

LEMMA AnswerTyped ==
    ASSUME TypeOK, NEW c \in Clients, NEW a \in Answers, Answer(c, a)
    PROVE  /\ told' \in [Clients -> Answers]
           /\ conn' \in [Clients -> {"new", "open", "hungup", "closed"}]
           /\ \A d \in Clients : conn'[d] = "new" => conn[d] = "new"
BY DEF Answer, TypeOK

LEMMA TypedStep == Typed /\ [Next]_vars => Typed'
<1> SUFFICES ASSUME Typed, [Next]_vars PROVE Typed'
  OBVIOUS
<1> USE DEF Typed
<1>1. CASE UNCHANGED vars
  BY <1>1 DEF vars, TypeOK, Reading, Body
<1>2. ASSUME NEW c \in Clients, SendRequest(c) PROVE Typed'
  <2>1. PICK r \in Request : request' = [request EXCEPT ![c] = r]
    BY <1>2 DEF SendRequest
  <2>2. work.pc # "idle" => work.conn # c
    BY <1>2 DEF SendRequest, Reading
  <2>3. request' \in [Clients -> Request]
    BY <2>1 DEF TypeOK
  <2>4. conn' \in [Clients -> {"new", "open", "hungup", "closed"}]
        /\ \A d \in Clients : conn'[d] = "new" => conn[d] = "new"
    BY <1>2 DEF SendRequest, TypeOK
  <2>5. \A d \in Clients : sent'[d] <= Len(Body(d)')
    <3> SUFFICES ASSUME NEW d \in Clients PROVE sent'[d] <= Len(Body(d)')
      OBVIOUS
    <3>1. CASE d # c
      BY <1>2, <2>1, <3>1 DEF SendRequest, TypeOK, Body
    <3>2. CASE d = c
      <4>1. sent'[d] = 0
        BY <1>2, <3>2 DEF SendRequest, Reading
      <4>3. Body(d)' = r.body
        BY <2>1, <3>2 DEF TypeOK, Body
      <4>4. r.body \in Seq(Files \cup {"magic", "junk", "end"})
        <5>1. r.body \in Bodies \cup {<<>>}
          BY DEF Request
        <5>2. <<>> \in Seq(Files \cup {"magic", "junk", "end"})
          OBVIOUS
        <5> QED BY <5>1, <5>2
      <4> QED BY <4>1, <4>3, <4>4
    <3> QED BY <3>1, <3>2
  <2> QED BY <1>2, <2>2, <2>3, <2>4, <2>5 DEF SendRequest, device, TypeOK, Reading
<1>3. ASSUME NEW c \in Clients, SendToken(c) PROVE Typed'
  <2>1. Len(Body(c)) \in Nat
    BY BodyShape
  <2>2. /\ sent' \in [Clients -> Nat]
        /\ \A d \in Clients : sent'[d] >= sent[d] /\ sent'[d] <= Len(Body(d))
        /\ \A d \in Clients : conn[d] = "new" => sent'[d] = sent[d]
    BY <1>3, <2>1 DEF SendToken, TypeOK
  <2>3. \A d \in Clients : Body(d)' = Body(d)
    BY <1>3 DEF SendToken, Body
  <2>4. work.pc \in {"peek", "format", "mark", "feed"} =>
          work.pre <= sent'[work.conn] /\ work.pos <= sent'[work.conn]
    <3> SUFFICES ASSUME work.pc \in {"peek", "format", "mark", "feed"}
                 PROVE  work.pre <= sent'[work.conn] /\ work.pos <= sent'[work.conn]
      OBVIOUS
    <3>1. work.conn \in Clients /\ work.pre \in Nat /\ work.pos \in Nat
      BY DEF Reading, TypeOK, Work
    <3>2. sent[work.conn] \in Nat /\ sent'[work.conn] \in Nat /\ sent'[work.conn] >= sent[work.conn]
      BY <2>2, <3>1 DEF TypeOK
    <3>3. work.pre <= sent[work.conn] /\ work.pos <= sent[work.conn]
      BY DEF Reading
    <3> QED BY <3>1, <3>2, <3>3
  <2> QED BY <1>3, <2>2, <2>3, <2>4 DEF SendToken, device, TypeOK, Reading
<1>4. ASSUME NEW c \in Clients, HangUp(c) PROVE Typed'
  BY <1>4 DEF HangUp, device, clients, TypeOK, Reading, Body
<1>5. CASE Flush
  BY <1>5 DEF Flush, device, clients, TypeOK, Reading, Body
<1>6. ASSUME Boot PROVE Typed'
  <2>1. conn' \in [Clients -> {"new", "open", "hungup", "closed"}]
    BY <1>6 DEF Boot, TypeOK
  <2>2. work' \in Work /\ work'.pc = "idle"
    BY <1>6 DEF Boot, Idle, Work
  <2> QED BY <1>6, <2>1, <2>2 DEF Boot, clients, TypeOK, Reading, Body, Modes
<1>7. ASSUME NEW m \in Modes, Ask(m) PROVE Typed'
  BY <1>7 DEF Ask, clients, TypeOK, Reading, Body
<1>8. ASSUME NEW c \in Clients, Refuse(c) \/ Cancel(c) PROVE Typed'
  <2>1. \E a \in Answers : Answer(c, a)
    BY <1>8 DEF Refuse, Cancel, Answers
  <2> QED BY <1>8, <2>1, AnswerTyped DEF Refuse, Cancel, device, clients, TypeOK, Reading, Body
<1>9. ASSUME NEW c \in Clients, BackupStart(c) PROVE Typed'
  <2>1. work' \in Work /\ work'.pc \in {"idle", "walk"} /\ (work'.pc # "idle" => work'.conn = c)
    BY <1>9, ZenonT(40) DEF BackupStart, Waiting, TypeOK, Work, Idle
  <2> QED BY <1>9, <2>1 DEF BackupStart, device, clients, TypeOK, Reading, Body
<1>10. ASSUME NEW f \in Files, BackupFile(f) PROVE Typed'
  <2>1. work' \in Work /\ work'.pc = "walk" /\ work'.conn = work.conn
    BY <1>10 DEF BackupFile, TypeOK, Work
  <2> QED BY <1>10, <2>1 DEF BackupFile, device, clients, TypeOK, Reading, Body
<1>11. CASE BackupEnd
  <2>1. \E a \in Answers : Answer(work.conn, a)
    BY <1>11 DEF BackupEnd, Answers
  <2>2. work.conn \in Clients
    BY <1>11 DEF BackupEnd, Reading
  <2>3. work' \in Work /\ work'.pc = "idle"
    BY <1>11 DEF BackupEnd, Idle, Work
  <2> QED
    BY <1>11, <2>1, <2>2, <2>3, AnswerTyped DEF BackupEnd, device, clients, TypeOK, Reading, Body
<1>12. ASSUME NEW c \in Clients, RestoreStart(c) PROVE Typed'
  <2>1. /\ told' \in [Clients -> Answers]
        /\ conn' \in [Clients -> {"new", "open", "hungup", "closed"}]
        /\ \A d \in Clients : conn'[d] = "new" => conn[d] = "new"
    BY <1>12, AnswerTyped DEF RestoreStart, Answers, TypeOK
  <2>2. PICK n \in 0 .. sent[c] : work' = [Idle EXCEPT !.pc = "peek", !.conn = c, !.pre = n]
    BY <1>12 DEF RestoreStart
  <2>3. sent[c] \in Nat
    BY DEF TypeOK
  <2>4. /\ work' \in Work /\ work'.pc = "peek" /\ work'.conn = c /\ work'.pre = n
        /\ work'.pos = 0 /\ ~work'.failed /\ ~work'.footer
    <3>1. n \in Nat
      BY <2>3
    <3>2. Idle \in Work
      BY DEF Idle, Work
    <3> QED BY <2>2, <3>1, <3>2 DEF Idle, Work
  <2>5. conn'[c] # "new" /\ n <= sent[c] /\ 0 <= sent[c]
    BY <1>12, <2>1, <2>3 DEF RestoreStart, Waiting
  <2> QED
    BY <1>12, <2>1, <2>3, <2>4, <2>5 DEF RestoreStart, device, clients, TypeOK, Reading, Body
<1>13. CASE Peek
  <2>1. work.conn \in Clients /\ work.pos = 0
    BY <1>13 DEF Peek, Reading
  <2>2. /\ told' \in [Clients -> Answers]
        /\ conn' \in [Clients -> {"new", "open", "hungup", "closed"}]
        /\ \A d \in Clients : conn'[d] = "new" => conn[d] = "new"
    BY <1>13, <2>1, AnswerTyped DEF Peek, Answers, TypeOK
  <2>3. Readable(work.conn) => sent[work.conn] >= 1
    BY <1>13, <2>1 DEF Peek, Readable, Reading, TypeOK, Work
  <2>4. /\ work' \in Work /\ work'.pc = "format" /\ work'.conn = work.conn
        /\ work'.pos = work.pos /\ work'.failed = work.failed /\ work'.footer = work.footer
        /\ work'.pre = work.pre \/ (Readable(work.conn) /\ work'.pre = 1)
    BY <1>13 DEF Peek, TypeOK, Work
  <2> QED
    BY <1>13, <2>1, <2>2, <2>3, <2>4 DEF Peek, device, clients, TypeOK, Reading, Body
<1>14. CASE Format
  <2>1. work.conn \in Clients
    BY <1>14 DEF Format, Reading
  <2>2. /\ told' \in [Clients -> Answers]
        /\ conn' \in [Clients -> {"new", "open", "hungup", "closed"}]
        /\ \A d \in Clients : conn'[d] = "new" => conn[d] = "new"
    BY <1>14, <2>1, AnswerTyped DEF Format, Answers, TypeOK
  <2>3. store' \in SUBSET Files
    BY <1>14 DEF Format, TypeOK
  <2>4. /\ work' \in Work /\ work'.pc = "mark" /\ work'.conn = work.conn /\ work'.pre = work.pre
        /\ work'.pos = work.pos /\ work'.failed = work.failed /\ work'.footer = work.footer
    BY <1>14 DEF Format, TypeOK, Work
  <2> QED
    BY <1>14, <2>1, <2>2, <2>3, <2>4 DEF Format, device, clients, TypeOK, Reading, Body
<1>15. CASE SetMarker
  <2>1. /\ work' \in Work /\ work'.pc = "feed" /\ work'.conn = work.conn /\ work'.pre = work.pre
        /\ work'.pos = work.pos
    BY <1>15 DEF SetMarker, TypeOK, Work
  <2> QED BY <1>15, <2>1 DEF SetMarker, device, clients, TypeOK, Reading, Body
<1>16. CASE Feed
  <2>1. work.conn \in Clients
    BY <1>16 DEF Feed, Reading
  <2>2. work.pos + 1 <= sent[work.conn]
    <3>1. work.pre \in Nat /\ work.pos \in Nat /\ sent[work.conn] \in Nat
      BY <2>1 DEF TypeOK, Work
    <3>2. work.pos < work.pre \/ work.pos < sent[work.conn]
      BY <1>16 DEF Feed, Readable
    <3>3. work.pre <= sent[work.conn]
      BY <1>16 DEF Feed, Reading
    <3> QED BY <3>1, <3>2, <3>3
  <2>3. /\ work' \in Work /\ work'.pc = "feed" /\ work'.conn = work.conn /\ work'.pre = work.pre
        /\ work'.pos = work.pos + 1
    <3>1. work \in Work /\ work.pos + 1 \in Nat
      BY DEF TypeOK, Work
    <3>2. \E ok \in BOOLEAN : work' = [work EXCEPT !.pos = @ + 1, !.failed = ~ok]
                             \/ work' = [work EXCEPT !.pos = @ + 1]
                             \/ work' = [work EXCEPT !.pos = @ + 1, !.footer = TRUE]
                             \/ work' = [work EXCEPT !.pos = @ + 1, !.failed = TRUE]
      BY <1>16 DEF Feed
    <3>3. work.pc = "feed"
      BY <1>16 DEF Feed
    <3> QED BY <3>1, <3>2, <3>3, ZenonT(40) DEF Work
  <2>4. store' \in SUBSET Files
    BY <1>16 DEF Feed, TypeOK
  <2> QED BY <1>16, <2>1, <2>2, <2>3, <2>4, ZenonT(40) DEF Feed, device, clients, TypeOK, Reading, Body
<1>17. CASE Finish
  <2>1. \E a \in Answers : Answer(work.conn, a)
    BY <1>17 DEF Finish, Answers
  <2>2. work.conn \in Clients
    BY <1>17 DEF Finish, Reading
  <2>3. work' \in Work /\ work'.pc = "idle"
    BY <1>17 DEF Finish, Idle, Work
  <2> QED
    BY <1>17, <2>1, <2>2, <2>3, AnswerTyped DEF Finish, device, clients, TypeOK, Reading, Body
<1> QED
  BY <1>1, <1>2, <1>3, <1>4, <1>5, <1>6, <1>7, <1>8, <1>9, <1>10, <1>11, <1>12, <1>13, <1>14,
     <1>15, <1>16, <1>17 DEF Next, Handler, AskedReboot, RebootTimer, Deadline, PowerLoss

\* Every variable keeps its shape: no boot, request or answer leaves a value
\* the next step could not handle.
THEOREM TypeCorrect == Spec => []TypeOK
<1>1. Typed => TypeOK
  BY DEF Typed
<1> QED BY <1>1, TypedInit, TypedStep, PTL DEF Spec

-----------------------------------------------------------------------------
(* What a boot runs on.  A restore either has the marker set while the store  *)
(* is less than an archive, or has just emptied it; in every other state the  *)
(* store is whole, or the marker is there.  Storage no longer flushes from    *)
(* the format on, so nothing of the old store can come back.                  *)

Fed(b, n)  == {f \in Files : \E i \in 1 .. n : b[i] = f}
IsWhole(s) == \/ s \in {Own, Factory}
              \/ \E b \in Bodies : IsArchive(b) /\ s = FilesIn(b)

Served ==
    /\ \A c \in Clients : conn[c] # "closed" => told[c] = "nothing"
    /\ work.pc # "idle" => told[work.conn] \in {"nothing", "refused"}

\* While the extractor is content, the store holds what was fed to it.
Feeding ==
    work.pc = "feed" /\ ~work.failed =>
        LET b == Body(work.conn) IN
        /\ store = Fed(b, work.pos)
        /\ work.pos > 0 => b[1] = "magic"
        /\ \A i \in 2 .. work.pos : b[i] \in Files \/ (b[i] = "end" /\ i = work.pos)
        /\ work.footer => work.pos > 1 /\ b[work.pos] = "end"

Restoring ==
    /\ work.pc \in {"mark", "feed"} => ~flushing /\ emptied = work.conn
    /\ work.pc = "mark" => store = {}
    /\ work.pc = "feed" => marker

Settled ==
    work.pc \notin {"mark", "feed"} /\ ~marker =>
        IsWhole(store) /\ (flushing => store = booted)

StoreInv ==
    /\ Typed /\ Served /\ Feeding /\ Restoring /\ Settled
    /\ NothingPartialBoots /\ OkMeansRestored /\ FailedMeansFactory

LEMMA StoreInvInit == Init => StoreInv
<1> SUFFICES ASSUME Init PROVE StoreInv
  OBVIOUS
<1>1. Typed
  BY TypedInit
<1>2. work.pc = "idle"
  BY DEF Init, Idle
<1> QED
  BY <1>1, <1>2 DEF Init, StoreInv, Served, Feeding, Restoring, Settled, IsWhole,
     NothingPartialBoots, OkMeansRestored, FailedMeansFactory

\* An answer is given once, to a client that has not been answered.
LEMMA AnswerServed ==
    ASSUME Typed, Served, NEW c \in Clients, NEW a, Answer(c, a)
    PROVE  /\ \A d \in Clients : conn'[d] # "closed" => told'[d] = "nothing"
           /\ \A d \in Clients : d # c => told'[d] = told[d]
           /\ told'[c] \in {told[c], a}
BY DEF Answer, Served, Typed, TypeOK

\* A step that leaves the store and what guards it alone, gives no verdict on
\* an upload, and does not enter or leave a restore.
Quiet == /\ UNCHANGED <<store, marker, booted, flushing, request, emptied>>
         /\ \A c \in Clients : told'[c] # told[c] => told'[c] \notin {"ok", "failed"}
         /\ work.pc \notin {"mark", "feed"} /\ work'.pc \notin {"mark", "feed"}

LEMMA QuietStep ==
    ASSUME StoreInv, Typed', Served', Quiet
    PROVE  StoreInv'
<1>1. Feeding' /\ Restoring' /\ Settled' /\ NothingPartialBoots'
  BY DEF StoreInv, Quiet, Feeding, Restoring, Settled, NothingPartialBoots
<1>2. OkMeansRestored' /\ FailedMeansFactory'
  BY DEF StoreInv, Quiet, OkMeansRestored, FailedMeansFactory, Body
<1> QED BY <1>1, <1>2 DEF StoreInv

\* A step of a client or of the operator, at whatever point the handler is.
Aside == /\ UNCHANGED <<store, marker, booted, flushing, emptied, work, told>>
         /\ \A c \in Clients :
              told[c] # "nothing" \/ (work.pc # "idle" /\ work.conn = c)
                => Body(c)' = Body(c)

LEMMA AsideStep ==
    ASSUME StoreInv, Typed', Served', Aside
    PROVE  StoreInv'
<1>1. Restoring' /\ Settled' /\ NothingPartialBoots'
  BY DEF StoreInv, Aside, Restoring, Settled, NothingPartialBoots
<1>2. Feeding'
  <2> SUFFICES ASSUME work'.pc = "feed", ~work'.failed PROVE Feeding'
    BY DEF Feeding
  <2>1. work' = work /\ store' = store /\ work.conn \in Clients
    BY DEF StoreInv, Typed, Reading, Aside
  <2>2. Body(work.conn)' = Body(work.conn)
    BY <2>1 DEF Aside, Body
  <2> QED BY <2>1, <2>2 DEF StoreInv, Feeding
<1>3. OkMeansRestored' /\ FailedMeansFactory'
  BY DEF StoreInv, Aside, OkMeansRestored, FailedMeansFactory
<1> QED BY <1>1, <1>2, <1>3 DEF StoreInv

\* Whoever is being served has been given no verdict, so no step of a restore
\* touches what an earlier verdict was about.
LEMMA NoVerdictYet ==
    ASSUME StoreInv, work.pc \in {"mark", "feed"}
    PROVE  \A c \in Clients : emptied = c => told[c] \notin {"ok", "failed"}
BY DEF StoreInv, Served, Restoring

\* Once the footer was fed, the upload is an archive, and the store holds it.
LEMMA FooterMeansArchive ==
    ASSUME StoreInv, work.pc = "feed", Extracted
    PROVE  /\ IsArchive(Body(work.conn)) /\ Body(work.conn) \in Bodies
           /\ store = FilesIn(Body(work.conn))
<1> DEFINE b == Body(work.conn)
<1>1. work.conn \in Clients /\ work.pos \in Nat
  BY DEF StoreInv, Typed, TypeOK, Reading, Work
<1>2. /\ b \in Seq(Files \cup {"magic", "junk", "end"}) /\ Len(b) \in Nat
      /\ b # <<>> => b \in Bodies
  BY <1>1, BodyShape DEF StoreInv, Typed
<1>3. work.pos <= Len(b)
  <2>1. work.pos <= sent[work.conn] /\ sent[work.conn] \in Nat /\ sent[work.conn] <= Len(b)
    BY <1>1 DEF StoreInv, Typed, TypeOK, Reading
  <2> QED BY <2>1, <1>1, <1>2
<1>4. /\ store = Fed(b, work.pos)
      /\ work.pos > 0 => b[1] = "magic"
      /\ \A i \in 2 .. work.pos : b[i] \in Files \/ (b[i] = "end" /\ i = work.pos)
      /\ work.pos > 1 /\ b[work.pos] = "end"
  BY DEF StoreInv, Feeding, Extracted
<1> HIDE DEF b
<1>5. b \in Bodies /\ DOMAIN b = 1 .. Len(b)
  BY <1>1, <1>2, <1>3, <1>4
<1>6. work.pos = Len(b) /\ work.pos # 2
  <2>1. work.pos \in DOMAIN b
    BY <1>1, <1>2, <1>3, <1>4, <1>5
  <2> QED BY <2>1, <1>4, <1>5, BodiesAssumption
<1>7. Len(b) > 2
  <2>1. work.pos \in Nat /\ work.pos > 1 /\ work.pos # 2
    BY <1>1, <1>4, <1>6
  <2>2. Len(b) \in Nat /\ Len(b) = work.pos
    BY <1>2, <1>6
  <2> QED BY <2>1, <2>2
<1>8. IsArchive(b)
  BY <1>2, <1>4, <1>6, <1>7 DEF IsArchive
<1>9. store = FilesIn(b)
  BY <1>4, <1>5, <1>6 DEF Fed, FilesIn
<1> QED BY <1>5, <1>8, <1>9 DEF b

LEMMA StoreInvStep ==
    ASSUME FALSE \notin FormatOutcomes, StoreInv, [Next]_vars
    PROVE  StoreInv'
<1> USE DEF StoreInv
<1>0. Typed'
  BY TypedStep
<1>1. CASE UNCHANGED vars
  BY <1>0, <1>1, AsideStep DEF vars, Aside, Served, Body
<1>2. ASSUME NEW c \in Clients, SendRequest(c) PROVE StoreInv'
  <2>1. PICK r \in Request : request' = [request EXCEPT ![c] = r]
    BY <1>2 DEF SendRequest
  <2>2. told[c] = "nothing" /\ (work.pc # "idle" => work.conn # c)
    BY <1>2 DEF SendRequest, Served, Typed, Reading
  <2>3. Aside
    BY <1>2, <2>1, <2>2 DEF SendRequest, device, Aside, Body, Typed, TypeOK
  <2>4. Served'
    BY <1>2, <2>2 DEF SendRequest, device, Served, Typed, TypeOK
  <2> QED BY <1>0, <2>3, <2>4, AsideStep
<1>3. ASSUME NEW c \in Clients, SendToken(c) \/ HangUp(c) PROVE StoreInv'
  <2>1. Aside
    BY <1>3 DEF SendToken, HangUp, device, clients, Aside, Body
  <2>2. Served'
    BY <1>3 DEF SendToken, HangUp, device, clients, Served, Typed, TypeOK
  <2> QED BY <1>0, <2>1, <2>2, AsideStep
<1>4. ASSUME NEW m \in Modes, Ask(m) PROVE StoreInv'
  BY <1>0, <1>4, AsideStep DEF Ask, clients, Aside, Body, Served
<1>5. CASE Flush
  <2>1. work.pc \notin {"mark", "feed"} /\ UNCHANGED <<marker, booted, flushing, emptied, work, told, conn, request>>
    BY <1>5 DEF Flush, device, clients, Restoring
  <2>2. ~marker => store' = store
    BY <1>5, <2>1 DEF Flush, Settled
  <2>3. Served' /\ Feeding' /\ Restoring' /\ Settled' /\ NothingPartialBoots'
    BY <2>1, <2>2 DEF Served, Feeding, Restoring, Settled, NothingPartialBoots, IsWhole
  <2>4. OkMeansRestored' /\ FailedMeansFactory'
    BY <2>1, <2>2 DEF OkMeansRestored, FailedMeansFactory, Body
  <2> QED BY <1>0, <2>3, <2>4
<1>6. ASSUME Boot PROVE StoreInv'
  <2>1. work'.pc = "idle" /\ UNCHANGED <<request, told, emptied>>
    BY <1>6 DEF Boot, clients, Idle
  <2>2. ~marker /\ store # {} => IsWhole(store) /\ store' = store
    BY <1>6 DEF Boot, Settled, Restoring
  <2>3. marker \/ store = {} => store' = Factory
    BY <1>6 DEF Boot
  <2>4. IsWhole(store') /\ booted' = store' /\ ~marker'
    BY <1>6, <2>2, <2>3 DEF Boot, IsWhole
  <2>5. Feeding' /\ Restoring' /\ Settled' /\ NothingPartialBoots'
    BY <2>1, <2>4 DEF Feeding, Restoring, Settled, NothingPartialBoots, IsWhole
  <2>6. Served'
    BY <1>6, <2>1 DEF Boot, Served, Typed, TypeOK
  <2>7. ASSUME NEW c \in Clients, told[c] = "ok", emptied = c PROVE store # {} /\ ~marker
    <3>1. /\ IsArchive(Body(c)) /\ store = FilesIn(Body(c)) /\ ~marker
      BY <2>7 DEF OkMeansRestored
    <3>2. Body(c) \in Seq(Files \cup {"magic", "junk", "end"})
      BY BodyShape DEF Typed
    <3>3. Len(Body(c)) \in Nat /\ DOMAIN Body(c) = 1 .. Len(Body(c))
      BY <3>2
    <3>4. Body(c)[2] \in Files /\ 2 \in DOMAIN Body(c)
      BY <3>1, <3>3 DEF IsArchive
    <3> QED BY <3>1, <3>4 DEF FilesIn
  <2>8. OkMeansRestored'
    BY <2>1, <2>2, <2>4, <2>7 DEF OkMeansRestored, Body
  <2>9. FailedMeansFactory'
    BY <2>1, <2>2, <2>3 DEF FailedMeansFactory
  <2> QED BY <1>0, <2>5, <2>6, <2>8, <2>9
<1>7. ASSUME NEW c \in Clients, Refuse(c) \/ Cancel(c) PROVE StoreInv'
  <2>1. PICK a \in {"refused", "cancelled"} : Answer(c, a)
    BY <1>7 DEF Refuse, Cancel
  <2>2. work.pc = "idle" /\ work' = work /\ UNCHANGED <<store, marker, booted, flushing, request, emptied>>
    BY <1>7 DEF Refuse, Cancel, Waiting, Idle, device, clients
  <2>3. Quiet /\ Served'
    BY <2>1, <2>2, AnswerServed DEF Quiet, Served
  <2> QED BY <1>0, <2>3, QuietStep
<1>8. ASSUME NEW c \in Clients, BackupStart(c) PROVE StoreInv'
  <2>1. work.pc = "idle" /\ told[c] = "nothing"
    BY <1>8 DEF BackupStart, Waiting, Idle, Served
  <2>4. \/ work' = work
        \/ work'.pc = "walk" /\ work'.conn = c
    BY <1>8 DEF BackupStart, Idle
  <2>2. Quiet
    BY <1>8, <2>1, <2>4 DEF BackupStart, Quiet, device, clients
  <2>3. Served'
    BY <1>8, <2>1, <2>4 DEF BackupStart, Served, Typed, TypeOK
  <2> QED BY <1>0, <2>2, <2>3, QuietStep
<1>9. ASSUME NEW f \in Files, BackupFile(f) PROVE StoreInv'
  <2>1. work.pc = "walk" /\ work'.pc = "walk" /\ work'.conn = work.conn
    BY <1>9 DEF BackupFile, Typed, TypeOK, Work
  <2> QED BY <1>0, <1>9, <2>1, QuietStep DEF BackupFile, Quiet, Served, device, clients
<1>10. CASE BackupEnd
  <2>1. PICK a \in {"whole", "cut"} : Answer(work.conn, a)
    BY <1>10 DEF BackupEnd
  <2>2. work.conn \in Clients /\ work.pc = "walk" /\ work'.pc = "idle"
    BY <1>10 DEF BackupEnd, Typed, Reading, Idle
  <2>3. Quiet /\ Served'
    BY <1>10, <2>1, <2>2, AnswerServed DEF BackupEnd, Quiet, Served, device, clients
  <2> QED BY <1>0, <2>3, QuietStep
<1>11. ASSUME NEW c \in Clients, RestoreStart(c) PROVE StoreInv'
  <2>1. PICK n \in 0 .. sent[c] : work' = [Idle EXCEPT !.pc = "peek", !.conn = c, !.pre = n]
    BY <1>11 DEF RestoreStart
  <2>2. work.pc = "idle" /\ work'.pc = "peek" /\ work'.conn = c /\ told[c] = "nothing"
    BY <1>11, <2>1 DEF RestoreStart, Waiting, Idle, Served
  <2>3. Answer(c, "refused") \/ UNCHANGED <<told, conn>>
    BY <1>11 DEF RestoreStart
  <2>4. Quiet
    BY <1>11, <2>2, <2>3, AnswerServed DEF RestoreStart, Quiet, device, clients
  <2>5. Served'
    BY <2>2, <2>3, AnswerServed DEF Served
  <2> QED BY <1>0, <2>4, <2>5, QuietStep
<1>12. CASE Peek
  <2>1. Answer(work.conn, "refused") \/ UNCHANGED <<told, conn>>
    BY <1>12 DEF Peek
  <2>2. work.pc = "peek" /\ work.conn \in Clients /\ work'.pc = "format" /\ work'.conn = work.conn
    BY <1>12 DEF Peek, Typed, TypeOK, Reading, Work
  <2>3. Quiet
    BY <1>12, <2>1, <2>2, AnswerServed DEF Peek, Quiet, device, clients
  <2>4. Served'
    BY <2>1, <2>2, AnswerServed DEF Served
  <2> QED BY <1>0, <2>3, <2>4, QuietStep
<1>13. CASE Format
  <2>1. store' = {} /\ ~flushing' /\ UNCHANGED <<told, conn, marker, booted, request>>
    BY <1>13 DEF Format, device, clients
  <2>2. /\ work.pc = "format" /\ work'.pc = "mark" /\ work'.conn = work.conn
        /\ emptied' = work.conn /\ told[work.conn] \in {"nothing", "refused"}
    BY <1>13 DEF Format, Typed, TypeOK, Work, Served
  <2>3. Served' /\ Feeding' /\ Restoring' /\ Settled' /\ NothingPartialBoots'
    BY <2>1, <2>2 DEF Served, Feeding, Restoring, Settled, NothingPartialBoots
  <2>4. OkMeansRestored' /\ FailedMeansFactory'
    BY <2>1, <2>2 DEF OkMeansRestored, FailedMeansFactory
  <2> QED BY <1>0, <2>3, <2>4
<1>14. CASE SetMarker
  <2>1. /\ work.pc = "mark" /\ work'.pc = "feed" /\ work'.conn = work.conn /\ work'.pos = work.pos
        /\ work'.footer = work.footer /\ work.pos = 0 /\ ~work.footer
    BY <1>14 DEF SetMarker, Typed, TypeOK, Reading, Work
  <2>2. marker' /\ UNCHANGED <<store, booted, flushing, told, conn, request, emptied>>
    BY <1>14 DEF SetMarker, device, clients
  <2>3. Feeding'
    BY <2>1, <2>2 DEF Feeding, Restoring, Fed
  <2>4. Served' /\ Restoring' /\ Settled' /\ NothingPartialBoots'
    BY <2>1, <2>2 DEF Served, Restoring, Settled, NothingPartialBoots
  <2>5. OkMeansRestored' /\ FailedMeansFactory'
    BY <2>1, <2>2, NoVerdictYet DEF OkMeansRestored, FailedMeansFactory
  <2> QED BY <1>0, <2>3, <2>4, <2>5
<1>15. CASE Feed
  <2>1. /\ work.pc = "feed" /\ work'.pc = "feed" /\ work'.conn = work.conn
        /\ work'.pos = work.pos + 1 /\ work.pos \in Nat /\ work.conn \in Clients
    <3>1. work \in Work /\ work.pc = "feed" /\ work.conn \in Clients
      BY <1>15 DEF Feed, Typed, TypeOK, Reading
    <3>2. \E x \in BOOLEAN : \/ work' = [work EXCEPT !.pos = @ + 1, !.failed = x]
                           \/ work' = [work EXCEPT !.pos = @ + 1]
                           \/ work' = [work EXCEPT !.pos = @ + 1, !.footer = TRUE]
      BY <1>15 DEF Feed
    <3> QED BY <3>1, <3>2, ZenonT(40) DEF Work
  <2>2. UNCHANGED <<marker, booted, flushing, told, conn, request, emptied>>
    BY <1>15 DEF Feed, device, clients
  <2>3. Served' /\ Restoring' /\ Settled' /\ NothingPartialBoots'
    BY <2>1, <2>2 DEF Served, Restoring, Settled, NothingPartialBoots
  <2>4. OkMeansRestored' /\ FailedMeansFactory'
    BY <2>1, <2>2, NoVerdictYet DEF OkMeansRestored, FailedMeansFactory
  <2>5. Feeding'
    <3> SUFFICES ASSUME ~work'.failed PROVE Feeding'
      BY DEF Feeding
    <3> DEFINE b == Body(work.conn)
               t == b[work.pos + 1]
    <3>1. /\ store = Fed(b, work.pos)
          /\ work.pos > 0 => b[1] = "magic"
          /\ \A i \in 2 .. work.pos : b[i] \in Files \/ (b[i] = "end" /\ i = work.pos)
          /\ work.footer => work.pos > 1 /\ b[work.pos] = "end"
      BY <1>15 DEF Feed, Feeding
    <3>2. Body(work.conn)' = b
      BY <2>1, <2>2 DEF Body
    <3>3. work \in Work /\ work.footer \in BOOLEAN
      BY DEF Typed, TypeOK, Work
    <3>4. {"magic", "end"} \cap Files = {}
      OBVIOUS
    <3>8. \A i \in 1 .. work.pos : b[i] # "end"
      <4>1. /\ b \in Seq(Files \cup {"magic", "junk", "end"}) /\ Len(b) \in Nat
            /\ b # <<>> => b \in Bodies
        BY <2>1, BodyShape DEF Typed
      <4>2. work.pos + 1 <= Len(b)
        <5>1. work'.pos <= sent'[work'.conn] /\ work'.conn \in Clients
          BY <1>0, <2>1 DEF Typed, Reading
        <5>2. sent' = sent /\ sent[work.conn] \in Nat /\ sent[work.conn] <= Len(b)
          BY <1>15, <2>1 DEF Feed, clients, Typed, TypeOK
        <5> QED BY <2>1, <4>1, <5>1, <5>2
      <4> HIDE DEF b
      <4>3. b \in Bodies /\ DOMAIN b = 1 .. Len(b)
        BY <2>1, <4>1, <4>2
      <4> QED BY <2>1, <4>1, <4>2, <4>3, BodiesAssumption
    <3>9. \/ t = "magic" /\ work.pos = 0 /\ store' = store /\ work'.footer = work.footer
          \/ t \in Files /\ work.pos > 0 /\ store' = store \cup {t} /\ work'.footer = work.footer
          \/ t = "end" /\ work.pos > 0 /\ store' = store
      <4>1. work \in Work /\ ~work'.failed
        BY <3>3
      <4> QED BY <1>15, <4>1 DEF Feed, Work
    <3> HIDE DEF b, t
    <3>5. \A f \in Files : f \in Fed(b, work.pos + 1) <=> f \in Fed(b, work.pos) \/ f = t
      BY <2>1 DEF Fed, t
    <3>6. /\ b[1] = "magic"
          /\ \A i \in 2 .. (work.pos + 1) :
               b[i] \in Files \/ (b[i] = "end" /\ i = work.pos + 1)
          /\ store' = Fed(b, work.pos + 1)
          /\ work'.footer => work.pos > 0 /\ t = "end"
      <4>1. CASE t = "magic" /\ work.pos = 0 /\ store' = store /\ work'.footer = work.footer
        <5>1. b[1] = "magic" /\ 2 .. (work.pos + 1) = {}
          BY <4>1 DEF t
        <5>2. store' = Fed(b, work.pos + 1)
          BY <3>1, <3>4, <3>5, <4>1 DEF Fed
        <5> QED BY <3>1, <4>1, <5>1, <5>2
      <4>2. ASSUME t \in Files \/ t = "end", work.pos > 0
            PROVE  /\ b[1] = "magic"
                   /\ \A i \in 2 .. (work.pos + 1) :
                        b[i] \in Files \/ (b[i] = "end" /\ i = work.pos + 1)
        <5>1. \A i \in 2 .. (work.pos + 1) : i = work.pos + 1 \/ i \in 2 .. work.pos
          BY <2>1
        <5>2. \A i \in 2 .. work.pos : i \in 1 .. work.pos
          OBVIOUS
        <5> QED BY <3>1, <3>8, <4>2, <5>1, <5>2 DEF t
      <4>3. CASE t \in Files /\ work.pos > 0 /\ store' = store \cup {t}
                 /\ work'.footer = work.footer
        <5>1. store' = Fed(b, work.pos + 1)
          BY <3>1, <3>5, <4>3 DEF Fed
        <5>2. ~work.footer
          BY <2>1, <3>1, <3>8, <4>3
        <5> QED BY <4>2, <4>3, <5>1, <5>2
      <4>4. CASE t = "end" /\ work.pos > 0 /\ store' = store
        <5>1. store' = Fed(b, work.pos + 1)
          BY <3>1, <3>4, <3>5, <4>4 DEF Fed
        <5> QED BY <4>2, <4>4, <5>1
      <4> QED BY <3>9, <4>1, <4>3, <4>4
    <3>7. work'.footer => work'.pos > 1 /\ b[work'.pos] = "end"
      BY <2>1, <3>6 DEF t
    <3> QED BY <2>1, <3>2, <3>6, <3>7 DEF Feeding
  <2> QED BY <1>0, <2>3, <2>4, <2>5
<1>16. CASE Finish
  <2>1. work.pc = "feed" /\ work.conn \in Clients /\ work'.pc = "idle"
    BY <1>16 DEF Finish, Typed, Reading, Idle
  <2>2. UNCHANGED <<store, booted, flushing, request, emptied>>
    BY <1>16 DEF Finish, device, clients
  <2>3. emptied = work.conn /\ ~flushing /\ marker
    BY <2>1 DEF Restoring
  <2>4. marker' = IF Extracted THEN FALSE ELSE marker
    BY <1>16 DEF Finish
  <2>5. Answer(work.conn, IF Extracted THEN "ok" ELSE "failed")
    BY <1>16 DEF Finish
  <2>6. Extracted => IsWhole(store)
    BY <2>1, FooterMeansArchive DEF IsWhole
  <2>7. Feeding' /\ Restoring' /\ Settled' /\ NothingPartialBoots'
    BY <2>1, <2>2, <2>3, <2>4, <2>6 DEF Feeding, Restoring, Settled, NothingPartialBoots
  <2>8. Served'
    BY <2>1, <2>5, AnswerServed DEF Served
  <2>9. told'[work.conn] \in {"nothing", "refused", IF Extracted THEN "ok" ELSE "failed"}
    BY <2>1, <2>5, AnswerServed DEF Served
  <2>10. OkMeansRestored'
    BY <2>1, <2>2, <2>3, <2>4, <2>9, FooterMeansArchive DEF OkMeansRestored, Body
  <2>11. FailedMeansFactory'
    BY <2>1, <2>2, <2>3, <2>4, <2>9 DEF FailedMeansFactory
  <2> QED BY <1>0, <2>7, <2>8, <2>10, <2>11
<1> QED
  BY <1>1, <1>2, <1>3, <1>4, <1>5, <1>6, <1>7, <1>8, <1>9, <1>10, <1>11, <1>12, <1>13, <1>14,
     <1>15, <1>16 DEF Next, Handler, AskedReboot, RebootTimer, Deadline, PowerLoss

-----------------------------------------------------------------------------

\* As long as the format does not fail, no boot runs on part of an archive, on a
\* mixture, or on what is left of the old store, wherever a restore was cut.
THEOREM NoBootOnPart ==
    ASSUME FALSE \notin FormatOutcomes PROVE Spec => []NothingPartialBoots
<1>1. StoreInv /\ [Next]_vars => StoreInv'
  BY StoreInvStep
<1>2. StoreInv => NothingPartialBoots
  BY DEF StoreInv
<1> QED BY <1>1, <1>2, StoreInvInit, PTL DEF Spec

\* An upload answered with ok is what the store holds from then on, whatever other
\* requests, timers and cuts follow (safe_mode.cpp:918-930).
THEOREM AnswersAreTrue ==
    ASSUME FALSE \notin FormatOutcomes PROVE Spec => []OkMeansRestored
<1>1. StoreInv /\ [Next]_vars => StoreInv'
  BY StoreInvStep
<1>2. StoreInv => OkMeansRestored
  BY DEF StoreInv
<1> QED BY <1>1, <1>2, StoreInvInit, PTL DEF Spec

\* After an upload answered as failed the device comes up from the factory seeds
\* (safe_mode.cpp:894-915).
THEOREM FailuresAreTrue ==
    ASSUME FALSE \notin FormatOutcomes PROVE Spec => []FailedMeansFactory
<1>1. StoreInv /\ [Next]_vars => StoreInv'
  BY StoreInvStep
<1>2. StoreInv => FailedMeansFactory
  BY DEF StoreInv
<1> QED BY <1>1, <1>2, StoreInvInit, PTL DEF Spec

-----------------------------------------------------------------------------
(* A backup that ends well is whole.  Only a boot for a restore formats or     *)
(* extracts, so while a backup walks, the store is what the boot loaded: a     *)
(* flush changes nothing, and each file is still to be walked or was sent.     *)

Walking ==
    /\ mode = "backup" => store = booted /\ work.pc \in {"idle", "walk"}
    /\ work.pc = "walk" => /\ mode = "backup"
                           /\ store \ Unreadable \subseteq got[work.conn] \cup work.todo

\* The steps that a walk does not see.
LEMMA WalkAside ==
    ASSUME Walking, UNCHANGED <<mode, booted, got, work>>,
           mode = "backup" => store' = store
    PROVE  Walking'
  BY DEF Walking

LEMMA WalkInit == Init => Walking
  BY DEF Init, Walking, Idle

LEMMA WalkStep == Typed /\ Walking /\ [Next]_vars => Walking'
<1> SUFFICES ASSUME Typed, Walking, [Next]_vars PROVE Walking'
  OBVIOUS
<1>1. CASE Boot
  BY <1>1 DEF Boot, Walking, Idle
<1>2. ASSUME NEW c \in Clients, SendRequest(c) \/ SendToken(c) \/ HangUp(c) PROVE Walking'
  BY <1>2, WalkAside DEF SendRequest, SendToken, HangUp, device
<1>3. ASSUME NEW m \in Modes, Ask(m) PROVE Walking'
  BY <1>3, WalkAside DEF Ask
<1>4. CASE Flush
  <2>1. mode = "backup" => store' = store
    BY <1>4 DEF Flush, Walking
  <2> QED
    BY <1>4, <2>1, WalkAside DEF Flush, device
<1>5. ASSUME NEW c \in Clients, Refuse(c) \/ Cancel(c) PROVE Walking'
  BY <1>5, WalkAside DEF Refuse, Cancel, device
<1>6. ASSUME NEW c \in Clients, BackupStart(c) PROVE Walking'
  <2>1. /\ mode = "backup" /\ UNCHANGED <<mode, booted, store, got>>
        /\ work.pc = "idle"
    BY <1>6 DEF BackupStart, Waiting, device, Idle
  <2>2. CASE work' = [Idle EXCEPT !.pc = "walk", !.conn = c, !.todo = store]
    <3>1. work'.pc = "walk" /\ work'.todo = store
      BY <2>2 DEF Idle
    <3> QED
      BY <2>1, <3>1 DEF Walking
  <2>3. CASE work' = work
    BY <2>1, <2>3 DEF Walking
  <2> QED
    BY <1>6, <2>2, <2>3 DEF BackupStart
<1>7. ASSUME NEW f \in Files, BackupFile(f) PROVE Walking'
  <2> DEFINE c == work.conn
  <2>1. /\ work.pc = "walk" /\ UNCHANGED <<mode, booted, store>> /\ c \in Clients
        /\ work' = [work EXCEPT !.todo = work.todo \ {f}]
        /\ got' = [got EXCEPT ![c] = got[c] \cup ({f} \ Unreadable)]
    BY <1>7 DEF BackupFile, Typed, Reading, device
  <2>2. work \in Work /\ got \in [Clients -> SUBSET Files]
    BY DEF Typed, TypeOK
  <2>3. work'.pc = "walk" /\ work'.conn = c /\ work'.todo = work.todo \ {f}
    BY <2>1, <2>2 DEF Work
  <2>4. got'[c] = got[c] \cup ({f} \ Unreadable)
    BY <2>1, <2>2
  <2>5. store \ Unreadable \subseteq got[c] \cup work.todo /\ mode = "backup" /\ store = booted
    BY <2>1 DEF Walking
  <2> HIDE DEF c
  <2>6. store' \ Unreadable \subseteq got'[c] \cup (work.todo \ {f})
    BY <2>1, <2>4, <2>5
  <2> QED
    BY <2>1, <2>3, <2>5, <2>6 DEF Walking
<1>8. CASE BackupEnd
  BY <1>8 DEF BackupEnd, Walking, Idle, device
<1>9. ASSUME NEW c \in Clients, RestoreStart(c) PROVE Walking'
  <2>1. mode = "restore" /\ UNCHANGED <<mode, store>>
    BY <1>9 DEF RestoreStart, device
  <2>2. work'.pc = "peek"
    BY <1>9 DEF RestoreStart, Idle
  <2> QED
    BY <2>1, <2>2 DEF Walking
<1>10. CASE Peek \/ Format \/ SetMarker \/ Feed \/ Finish
  <2>1. work.pc \in {"peek", "format", "mark", "feed"} /\ mode' = mode
    BY <1>10 DEF Peek, Format, SetMarker, Feed, Finish, device
  <2>2. mode # "backup"
    BY <2>1 DEF Walking
  <2>3. work \in Work
    BY DEF Typed, TypeOK
  <2>4. work'.pc # "walk"
    <3>1. CASE Peek
      BY <2>3, <3>1 DEF Peek, Work
    <3>2. CASE Format
      BY <2>3, <3>2 DEF Format, Work
    <3>3. CASE SetMarker
      BY <2>3, <3>3 DEF SetMarker, Work
    <3>4. CASE Feed
      <4>1. work'.pc = work.pc
        BY <2>3, <3>4 DEF Feed, Work
      <4> QED
        BY <2>1, <4>1
    <3>5. CASE Finish
      BY <3>5 DEF Finish, Idle
    <3> QED
      BY <1>10, <3>1, <3>2, <3>3, <3>4, <3>5
  <2> QED
    BY <2>1, <2>2, <2>4 DEF Walking
<1>11. CASE UNCHANGED vars
  BY <1>11, WalkAside DEF vars, device
<1> QED
  BY <1>1, <1>2, <1>3, <1>4, <1>5, <1>6, <1>7, <1>8, <1>9, <1>10, <1>11
     DEF Next, Handler, AskedReboot, RebootTimer, Deadline, PowerLoss

LEMMA WalkWhole ==
    ASSUME Typed, Walking, [Next]_vars, NEW c \in Clients, told[c] # "whole", told'[c] = "whole"
    PROVE  store \ Unreadable \subseteq got[c]
<1>1. told \in [Clients -> Answers]
  BY DEF Typed, TypeOK
<1>2. CASE BackupEnd
  <2>1. \A a : Answer(work.conn, a) => c = work.conn
    BY <1>1 DEF Answer
  <2>2. Answer(work.conn, "cut") => told'[c] # "whole"
    BY <1>1 DEF Answer
  <2>3. work.todo = {} /\ c = work.conn /\ work.pc = "walk"
    BY <1>2, <2>1, <2>2 DEF BackupEnd
  <2> QED
    BY <2>3 DEF Walking
<1>3. CASE ~ BackupEnd
  <2>1. \A d, a : Answer(d, a) /\ a # "whole" => told'[c] # "whole"
    BY <1>1 DEF Answer
  <2>2. told' = told \/ \E d : \E a : a # "whole" /\ Answer(d, a)
    <3>1. CASE Boot
      BY <3>1 DEF Boot
    <3>2. ASSUME NEW d \in Clients, Refuse(d) \/ Cancel(d) \/ RestoreStart(d) 
                 PROVE  \E e : \E a : a # "whole" /\ Answer(e, a)
      BY <3>2 DEF Refuse, Cancel, RestoreStart
    <3>3. CASE Peek \/ Format \/ Finish
      BY <3>3 DEF Peek, Format, Finish
    <3>4. CASE UNCHANGED told
      BY <3>4
    <3> QED
      BY <1>3, <3>1, <3>2, <3>3, <3>4
         DEF Next, Handler, AskedReboot, RebootTimer, Deadline, PowerLoss, SendRequest, SendToken,
             HangUp, Ask, Flush, BackupStart, BackupFile, SetMarker, Feed, vars
  <2> QED
    BY <2>1, <2>2
<1> QED
  BY <1>2, <1>3

\* A download that ends with its terminating chunk holds every readable file of the
\* store, whatever flushes, hang-ups, timers and power cuts came between the files
\* (safe_mode.cpp: walkInto, handleBackup).
THEOREM BackupsAreWhole == Spec => BackupWhole
<1>1. Typed /\ Walking /\ [Next]_vars => (Typed /\ Walking)'
  BY TypedStep, WalkStep
<1>2. Typed /\ Walking /\ [Next]_vars =>
        [\A c \in Clients :
           told[c] # "whole" /\ told'[c] = "whole" => store \ Unreadable \subseteq got[c]]_vars
  BY WalkWhole
<1> QED
  BY <1>1, <1>2, TypedInit, WalkInit, PTL DEF Spec, BackupWhole

===============================================================================
