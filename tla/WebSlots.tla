------------------------------ MODULE WebSlots ------------------------------
(***************************************************************************)
(* The connection slots of the web task and its file worker                *)
(* (esp-idf/src/web.cpp).                                                  *)
(*                                                                         *)
(* The web task owns an array of slots, one per accepted connection, and   *)
(* sweeps it; ITS callbacks (connect, busy, disconnect, file-done) run on  *)
(* the same task between sweeps.  A response that needs the file system is *)
(* handed to the single file worker, a second task that writes to the      *)
(* connection while the web task leaves the slot alone.                    *)
(*                                                                         *)
(* Abstractions.  A request is a head token (its whole header block) and,  *)
(* for the kinds that have one, BodyLen body tokens; a response is a head  *)
(* piece and perhaps a body piece.  A connection is used once.  One of the *)
(* two ITS ports is modelled.  ITS itself is outside the repository: it    *)
(* accepts as many connections on the port as there are slots, calls the   *)
(* busy handler beyond that, reports a peer's disconnect before any later  *)
(* connect, and does not call back for a disconnect the server asked for.  *)
(***************************************************************************)
EXTENDS Naturals, Sequences, FiniteSets, SequencesExt, FiniteSetsExt

CONSTANTS
    Conns,        \* TCP/TLS connections net may hand over
    NSlots,       \* webMaxHandles
    InboxDepth,   \* WEB_FILE_INBOX_DEPTH
    MaxReq,       \* bound: requests per connection
    MaxAsked,     \* bound: requests on all connections together
    BodyLen,      \* bound: body tokens of a request that has a body
    RbufCap,      \* tokens wh.rbuf holds
    Kinds,        \* the requests clients make, a subset of AllKinds
    Pipelining,   \* TRUE: a client need not wait for a response
    Crowd         \* "none": no more connections are open than there are slots;
                  \* "calm": one more comes only when the slot it takes away is
                  \* not the worker's; "any": it comes at any time

AllKinds == {"file", "inline", "refused", "unauth", "put", "handler", "query",
             "forward"}

Slots  == 1 .. NSlots
NoConn == "none"

ASSUME SlotsAssumption ==
    /\ NSlots \in Nat \ {0} /\ InboxDepth \in Nat \ {0}
    /\ MaxReq \in Nat /\ MaxAsked \in Nat
    /\ BodyLen \in Nat \ {0} /\ RbufCap \in Nat \ {0}
    /\ Kinds \subseteq AllKinds /\ NoConn \notin Conns
    /\ Pipelining \in BOOLEAN /\ Crowd \in {"none", "calm", "any"}

\* Body tokens a request of this kind declares in its Content-Length.
BodyOf(kind) == IF kind \in {"file", "inline", "query"} THEN 0 ELSE BodyLen

Token == [req : 1 .. MaxReq, part : {"head", "body"}]
Piece == [req : 0 .. MaxReq, part : {"head", "body"}, more : BOOLEAN]
Job   == [slot : Slots, conn : Conns, req : 0 .. MaxReq]
Idle  == [phase |-> "idle"]

VARIABLES
    net,       \* connection -> new, open, closed or forwarded
    ref,       \* connection -> the slot it was accepted into
    gone,      \* connections whose disconnect callback is still to run
    ring,      \* connection -> tokens received and not yet read
    asked,     \* connection -> kinds of the requests sent so far
    owed,      \* connection -> body tokens the client has still to send
    out,       \* connection -> pieces of responses written to it
    slots,     \* the handles[] array
    age,       \* the slots, earliest deadline first
    inbox,     \* jobs queued for the file worker
    worker,    \* what the file worker is doing
    garbled,   \* body bytes were parsed as the start of a request
    swallowed  \* a request head was discarded as body bytes

client == <<asked, owed>>
conns  == <<net, ref, gone>>
ghosts == <<garbled, swallowed>>
vars   == <<net, ref, gone, ring, asked, owed, out, slots, age, inbox, worker,
            garbled, swallowed>>

States == {"idle", "reading", "recv_body", "send_hdr", "send_body"}

Slot == [conn : Conns \cup {NoConn}, state : States, sending : BOOLEAN,
         wantsCleanup : BOOLEAN, rbuf : Seq(Token), skip : Nat,
         putRemain : Nat, req : 0 .. MaxReq, gen : BOOLEAN]

\* handleReset: everything but the connection goes back to its default.
Reset(c) == [conn |-> c, state |-> "idle", sending |-> FALSE,
             wantsCleanup |-> FALSE, rbuf |-> <<>>, skip |-> 0,
             putRemain |-> 0, req |-> 0, gen |-> FALSE]

Init ==
    /\ net = [c \in Conns |-> "new"]
    /\ ref = [c \in Conns |-> 0]
    /\ gone = {}
    /\ ring = [c \in Conns |-> <<>>]
    /\ asked = [c \in Conns |-> <<>>]
    /\ owed = [c \in Conns |-> 0]
    /\ out = [c \in Conns |-> <<>>]
    /\ slots = [s \in Slots |-> Reset(NoConn)]
    /\ age = [s \in Slots |-> s]
    /\ inbox = <<>>
    /\ worker = Idle
    /\ garbled = FALSE
    /\ swallowed = FALSE

OpenConns == {c \in Conns : net[c] = "open"}
FreeSlots == {s \in Slots : slots[s].conn = NoConn}
Touch(s)  == Append(RemoveAt(age, CHOOSE i \in DOMAIN age : age[i] = s), s)

Complete(p) == p.part = "body" \/ ~p.more
Answered(c) == Cardinality({i \in DOMAIN out[c] : Complete(out[c][i])})

-----------------------------------------------------------------------------
(* The clients (outside the repository). *)

\* Without pipelining a client sends a request once the previous one is answered.
SendHead(c, k) ==
    /\ net[c] = "open" /\ owed[c] = 0 /\ Len(asked[c]) < MaxReq
    /\ MapThenSumSet(LAMBDA d : Len(asked[d]), Conns) < MaxAsked
    /\ Pipelining \/ Answered(c) = Len(asked[c])
    /\ asked' = [asked EXCEPT ![c] = Append(@, k)]
    /\ owed' = [owed EXCEPT ![c] = BodyOf(k)]
    /\ ring' = [ring EXCEPT ![c] =
                   Append(@, [req |-> Len(asked[c]) + 1, part |-> "head"])]
    /\ UNCHANGED <<conns, out, slots, age, inbox, worker, ghosts>>

SendBodyToken(c) ==
    /\ net[c] \in {"open", "forwarded"} /\ owed[c] > 0
    /\ owed' = [owed EXCEPT ![c] = @ - 1]
    /\ ring' = [ring EXCEPT ![c] =
                   Append(@, [req |-> Len(asked[c]), part |-> "body"])]
    /\ UNCHANGED <<conns, asked, out, slots, age, inbox, worker, ghosts>>

HangUp(c) ==
    /\ net[c] = "open"
    /\ net' = [net EXCEPT ![c] = "closed"]
    /\ gone' = gone \cup {c}
    /\ UNCHANGED <<ref, ring, client, out, slots, age, inbox, worker, ghosts>>

-----------------------------------------------------------------------------
(* ITS callbacks on the web task. *)

\* Mutant of Released: the slot is freed although the worker still streams.
ReleasedAtOnce(slot) == Reset(NoConn)
\* The slot the disconnect callback leaves behind: deferred while the worker streams.
Released(slot) ==
    IF slot.sending THEN [slot EXCEPT !.wantsCleanup = TRUE] ELSE Reset(NoConn)

\* Connection c, in the slot webAllocSlot finds.
Accepted(c) == [Reset(c) EXCEPT !.state = "reading"]
FirstFree(s, free) == s \in free /\ \A t \in free : s <= t

Connect(c) ==
    /\ net[c] = "new" /\ gone = {} /\ Cardinality(OpenConns) < NSlots
    /\ \/ \E s \in Slots :
            /\ FirstFree(s, FreeSlots)
            /\ slots' = [slots EXCEPT ![s] = Accepted(c)]
            /\ net' = [net EXCEPT ![c] = "open"]
            /\ ref' = [ref EXCEPT ![c] = s]
            /\ age' = Touch(s)
       \/ /\ FreeSlots = {}
          /\ net' = [net EXCEPT ![c] = "closed"]
          /\ UNCHANGED <<ref, slots, age>>
    /\ UNCHANGED <<gone, ring, client, out, inbox, worker, ghosts>>

\* The slot in use with the earliest deadline.
Oldest(v) ==
    /\ slots[v].state # "idle"
    /\ \E i \in DOMAIN age :
         /\ age[i] = v
         /\ \A j \in 1 .. (i - 1) : slots[age[j]].state = "idle"

\* The victim's connection is closed, the new one opened.
\* Mutant of Evicted: the victim's connection is left open.
EvictedOpen(c, v) == [net EXCEPT ![c] = "open"]
Evicted(c, v) ==
    [d \in Conns |-> IF d = c THEN "open"
                     ELSE IF d = slots[v].conn THEN "closed" ELSE net[d]]

\* webItsBusy frees the oldest slot, then the new connection is accepted.
ConnectBusy(c) ==
    /\ Crowd # "none"
    /\ net[c] = "new" /\ gone = {} /\ Cardinality(OpenConns) >= NSlots
    /\ \E v \in Slots :
         /\ Oldest(v) /\ (Crowd = "calm" => ~slots[v].sending)
         /\ \E s \in Slots :
              /\ FirstFree(s, FreeSlots \cup {v})
              /\ slots' = [slots EXCEPT ![v] = Reset(NoConn), ![s] = Accepted(c)]
              /\ net' = Evicted(c, v)
              /\ ref' = [ref EXCEPT ![c] = s]
              /\ age' = Touch(s)
    /\ UNCHANGED <<gone, ring, client, out, inbox, worker, ghosts>>

OnDisconnect(c) ==
    /\ c \in gone
    /\ gone' = gone \ {c}
    /\ slots' = [slots EXCEPT ![ref[c]] = Released(@)]
    /\ UNCHANGED <<net, ref, ring, client, out, age, inbox, worker, ghosts>>

\* webOnFileDone: the message names only the slot.
FileDone ==
    /\ worker.phase = "done"
    /\ worker' = Idle
    /\ LET s == worker.job.slot IN
         \/ /\ slots[s].wantsCleanup
            /\ slots' = [slots EXCEPT ![s] = Reset(NoConn)]
            /\ net' = [c \in Conns |-> IF c = slots[s].conn THEN "closed" ELSE net[c]]
            /\ UNCHANGED age
         \/ /\ ~slots[s].wantsCleanup
            /\ slots' = [slots EXCEPT ![s] = [Reset(@.conn) EXCEPT !.state = "reading"]]
            /\ age' = Touch(s)
            /\ UNCHANGED net
    /\ UNCHANGED <<ref, gone, ring, client, out, inbox, ghosts>>

\* onWifiUpChange with no interface left.
WifiDown ==
    /\ OpenConns # {}
    /\ LET live == {s \in Slots : slots[s].state # "idle" /\ slots[s].conn # NoConn}
           cut  == {s \in live : ~slots[s].sending}
       IN /\ slots' = [s \in Slots |-> IF s \in live THEN Released(slots[s]) ELSE slots[s]]
          /\ net' = [c \in Conns |-> IF \E s \in cut : slots[s].conn = c
                                     THEN "closed" ELSE net[c]]
    /\ UNCHANGED <<ref, gone, ring, client, out, age, inbox, worker, ghosts>>

-----------------------------------------------------------------------------
(* The sweep of the web task: one step per slot and event. *)

\* Mutant of Swept: the test of sending is dropped.
SweptWhileSending(s) == slots[s].conn # NoConn /\ slots[s].state # "idle"
\* A slot the sweep looks at: in use, and not left to the file worker.
Swept(s) == slots[s].conn # NoConn /\ slots[s].state # "idle" /\ ~slots[s].sending
Live(s)  == Swept(s) /\ net[slots[s].conn] = "open"

SweepGone(s) ==
    /\ Swept(s) /\ ~Live(s)
    /\ slots' = [slots EXCEPT ![s] = Reset(NoConn)]
    /\ UNCHANGED <<conns, ring, client, out, age, inbox, worker, ghosts>>

\* Nothing was read or written on the connection for WEB_KEEPALIVE_MS.
Expire(s) ==
    /\ Live(s)
    /\ slots' = [slots EXCEPT ![s] = Reset(NoConn)]
    /\ net' = [net EXCEPT ![slots[s].conn] = "closed"]
    /\ UNCHANGED <<ref, gone, ring, client, out, age, inbox, worker, ghosts>>

\* Undrained body bytes of a rejected request are dropped before the next parse.
SkipBody(s) ==
    LET c == slots[s].conn IN
    /\ Live(s) /\ slots[s].state = "reading" /\ slots[s].skip > 0
    /\ ring[c] # <<>>
    /\ slots' = [slots EXCEPT ![s].skip = @ - 1]
    /\ ring' = [ring EXCEPT ![c] = Tail(@)]
    /\ swallowed' = (swallowed \/ Head(ring[c]).part = "head")
    /\ age' = Touch(s)
    /\ UNCHANGED <<conns, client, out, inbox, worker, garbled>>

Drop(seq, n) == SubSeq(seq, n + 1, Len(seq))
HasHead(seq) == \E i \in DOMAIN seq : seq[i].part = "head"

\* Mutant of Consumed: what has not arrived is forgotten.
ConsumedUnskipped(need, buf, rest) ==
    LET inBuf  == Min({need, Len(buf)})
        inRing == Min({need - inBuf, Len(rest)})
    IN [rbuf |-> Drop(buf, inBuf), ring |-> Drop(rest, inRing), skip |-> 0, head |-> FALSE]
\* consumeRequest: the declared body is dropped from rbuf, then from the ring as
\* far as it has arrived; what is missing is left to be skipped.
Consumed(need, buf, rest) ==
    LET inBuf  == Min({need, Len(buf)})
        inRing == Min({need - inBuf, Len(rest)})
    IN [rbuf |-> Drop(buf, inBuf), ring |-> Drop(rest, inRing),
        skip |-> need - inBuf - inRing,
        head |-> HasHead(SubSeq(buf, 1, inBuf)) \/ HasHead(SubSeq(rest, 1, inRing))]

\* A response built by the web task itself; gen: it has a generated body, for
\* which there is memory.
Responding(slot, r, gen) == [slot EXCEPT !.state = "send_hdr", !.req = r, !.gen = gen]

\* A request answered by the web task once its body is dropped.
ServeHere(s, r, gen, need, buf, rest) ==
    LET c == slots[s].conn
        d == Consumed(need, buf, rest)
    IN /\ slots' = [slots EXCEPT ![s] =
                       Responding([@ EXCEPT !.rbuf = d.rbuf, !.skip = d.skip], r, gen)]
       /\ ring' = [ring EXCEPT ![c] = d.ring]
       /\ swallowed' = (swallowed \/ d.head)
       /\ UNCHANGED <<net, out, inbox>>

\* Mutant of ServeFile: the job is queued whether or not there is room.
ServeFileUnbounded(s, r, need, buf, rest) ==
    LET c == slots[s].conn
        d == Consumed(need, buf, rest)
    IN /\ inbox' = Append(inbox, [slot |-> s, conn |-> c, req |-> r])
       /\ slots' = [slots EXCEPT ![s].rbuf = d.rbuf, ![s].skip = d.skip, ![s].sending = TRUE]
       /\ ring' = [ring EXCEPT ![c] = d.ring]
       /\ swallowed' = (swallowed \/ d.head)
       /\ UNCHANGED <<net, out>>
\* serveFile: the job goes to the worker, or 404 when its inbox is full or the
\* job cannot be allocated.
ServeFile(s, r, need, buf, rest) ==
    LET c == slots[s].conn
        d == Consumed(need, buf, rest)
        base == [slots[s] EXCEPT !.rbuf = d.rbuf, !.skip = d.skip]
    IN /\ \/ /\ Len(inbox) < InboxDepth
             /\ inbox' = Append(inbox, [slot |-> s, conn |-> c, req |-> r])
             /\ slots' = [slots EXCEPT ![s] = [base EXCEPT !.sending = TRUE]]
          \/ /\ slots' = [slots EXCEPT ![s] = Responding(base, r, FALSE)]
             /\ UNCHANGED inbox
       /\ ring' = [ring EXCEPT ![c] = d.ring]
       /\ swallowed' = (swallowed \/ d.head)
       /\ UNCHANGED <<net, out>>

\* PUT: body bytes in rbuf go to the file, the rest is received by RecvBody.
ServePut(s, r, need, buf, rest) ==
    LET c == slots[s].conn
        left == need - Min({need, Len(buf)})
        base == [slots[s] EXCEPT !.rbuf = <<>>]
    IN /\ slots' = [slots EXCEPT ![s] =
              IF left = 0 THEN Responding(base, r, FALSE)
              ELSE [base EXCEPT !.state = "recv_body", !.req = r, !.putRemain = left]]
       /\ ring' = [ring EXCEPT ![c] = rest]
       /\ swallowed' = (swallowed \/ HasHead(buf))
       /\ UNCHANGED <<net, out, inbox>>

\* An in-web URL handler reads the body itself (webReadBody), answers, and the
\* body is then dropped once more.
ServeHandler(s, r, need, buf, rest) ==
    LET c == slots[s].conn
        read == Min({need - Min({need, Len(buf)}), Len(rest)})
        d == Consumed(need, buf, Drop(rest, read))
    IN /\ out' = [out EXCEPT ![c] = Append(@, [req |-> r, part |-> "head", more |-> FALSE])]
       /\ slots' = [slots EXCEPT ![s].rbuf = d.rbuf, ![s].skip = d.skip]
       /\ ring' = [ring EXCEPT ![c] = d.ring]
       /\ swallowed' = (swallowed \/ d.head \/ HasHead(SubSeq(rest, 1, read)))
       /\ UNCHANGED <<net, inbox>>

\* The buffer is injected behind what has arrived meanwhile, and the connection
\* given to the registered task, or refused with 503.
Forward(s, whole, rest) ==
    LET c == slots[s].conn IN
    /\ ring' = [ring EXCEPT ![c] = rest \o whole]
    /\ slots' = [slots EXCEPT ![s] =
                    [@ EXCEPT !.conn = NoConn, !.state = "idle", !.rbuf = <<>>]]
    /\ \E fate \in {"forwarded", "closed"} : net' = [net EXCEPT ![c] = fate]
    /\ UNCHANGED <<out, inbox, swallowed>>

\* tryParseRequest on the buffer so far: nothing until a blank line, which ends
\* the first head in the buffer.
Parse(s, whole, rest) ==
    LET c == slots[s].conn IN
    \/ /\ ~HasHead(whole)
       /\ slots' = [slots EXCEPT ![s].rbuf = whole]
       /\ ring' = [ring EXCEPT ![c] = rest]
       /\ UNCHANGED <<net, out, inbox, ghosts>>
    \/ \E e \in DOMAIN whole :
         /\ whole[e].part = "head" /\ ~HasHead(SubSeq(whole, 1, e - 1))
         /\ garbled' = (garbled \/ e > 1)
         /\ LET r    == whole[e].req
                kind == IF e = 1 THEN asked[c][r] ELSE "refused"
                need == BodyOf(asked[c][r])
                buf  == Drop(whole, e)
            IN \/ kind = "inline"  /\ ServeHere(s, r, TRUE, need, buf, rest)
               \/ kind = "refused" /\ ServeHere(s, IF e = 1 THEN r ELSE 0, FALSE, need, buf, rest)
               \/ kind \in {"file", "unauth"} /\ ServeFile(s, r, need, buf, rest)
               \/ kind = "put"     /\ ServePut(s, r, need, buf, rest)
               \/ kind \in {"handler", "query"} /\ ServeHandler(s, r, need, buf, rest)
               \/ kind = "forward" /\ Forward(s, whole, rest)

Receive(s) ==
    LET c == slots[s].conn IN
    /\ Live(s) /\ slots[s].state = "reading" /\ slots[s].skip = 0
    /\ \E n \in 1 .. Min({Len(ring[c]), RbufCap - Len(slots[s].rbuf)}) :
         Parse(s, slots[s].rbuf \o SubSeq(ring[c], 1, n), Drop(ring[c], n))
    /\ age' = Touch(s)
    /\ UNCHANGED <<ref, gone, client, worker>>

\* One token more of the body is in the file; after the last one comes the answer.
Received(slot) ==
    IF slot.putRemain = 1 THEN Responding([slot EXCEPT !.putRemain = 0], slot.req, FALSE)
    ELSE [slot EXCEPT !.putRemain = @ - 1]

RecvBody(s) ==
    LET c == slots[s].conn IN
    /\ Live(s) /\ slots[s].state = "recv_body" /\ ring[c] # <<>>
    /\ ring' = [ring EXCEPT ![c] = Tail(@)]
    /\ swallowed' = (swallowed \/ Head(ring[c]).part = "head")
    /\ slots' = [slots EXCEPT ![s] = Received(slots[s])]
    /\ age' = Touch(s)
    /\ UNCHANGED <<conns, client, out, inbox, worker, garbled>>

SendHdr(s) ==
    LET c == slots[s].conn IN
    /\ Live(s) /\ slots[s].state = "send_hdr"
    /\ out' = [out EXCEPT ![c] = Append(@, [req |-> slots[s].req, part |-> "head",
                                            more |-> slots[s].gen])]
    /\ slots' = [slots EXCEPT ![s].state = IF slots[s].gen THEN "send_body" ELSE "reading",
                              ![s].req = IF slots[s].gen THEN @ ELSE 0]
    /\ age' = Touch(s)
    /\ UNCHANGED <<conns, ring, client, inbox, worker, ghosts>>

SendBody(s) ==
    LET c == slots[s].conn IN
    /\ Live(s) /\ slots[s].state = "send_body"
    /\ out' = [out EXCEPT ![c] = Append(@, [req |-> slots[s].req, part |-> "body",
                                            more |-> FALSE])]
    /\ slots' = [slots EXCEPT ![s].state = "reading", ![s].req = 0, ![s].gen = FALSE]
    /\ age' = Touch(s)
    /\ UNCHANGED <<conns, ring, client, inbox, worker, ghosts>>

-----------------------------------------------------------------------------
(* The file worker: processFileRequest, then the done message. *)

WorkerTake ==
    /\ worker = Idle /\ inbox # <<>>
    /\ worker' = [phase |-> "head", job |-> Head(inbox)]
    /\ inbox' = Tail(inbox)
    /\ UNCHANGED <<conns, ring, client, out, slots, age, ghosts>>

\* Mutant of WorkerHead: the job is not finished by a response without a body.
WorkerHeadTwice(more) ==
    /\ worker.phase = "head" /\ net[worker.job.conn] = "open"
    /\ out' = [out EXCEPT ![worker.job.conn] =
                  Append(@, [req |-> worker.job.req, part |-> "head", more |-> more])]
    /\ worker' = [worker EXCEPT !.phase = IF more THEN "body" ELSE "head"]
    /\ UNCHANGED <<conns, ring, client, slots, age, inbox, ghosts>>
\* The response head, with no body to follow for a 404, a HEAD or an empty file.
\* The head of a 404 is sent without looking whether it went: it always fits, since
\* a client asks again only when it has read the last answer; one that is gone is
\* WorkerCut's.
WorkerHead(more) ==
    /\ worker.phase = "head" /\ net[worker.job.conn] = "open"
    /\ out' = [out EXCEPT ![worker.job.conn] =
                  Append(@, [req |-> worker.job.req, part |-> "head", more |-> more])]
    /\ worker' = [worker EXCEPT !.phase = IF more THEN "body" ELSE "done"]
    /\ UNCHANGED <<conns, ring, client, slots, age, inbox, ghosts>>

WorkerBody ==
    /\ worker.phase = "body" /\ net[worker.job.conn] = "open"
    /\ out' = [out EXCEPT ![worker.job.conn] =
                  Append(@, [req |-> worker.job.req, part |-> "body", more |-> FALSE])]
    /\ worker' = [worker EXCEPT !.phase = "done"]
    /\ UNCHANGED <<conns, ring, client, slots, age, inbox, ghosts>>

\* Mutant of WorkerCut: a response that is cut short sends no done message.
WorkerCutSilent ==
    /\ worker.phase \in {"head", "body"}
    /\ worker' = Idle
    /\ net' = [net EXCEPT ![worker.job.conn] = "closed"]
    /\ UNCHANGED <<ref, gone, ring, client, out, slots, age, inbox, ghosts>>
\* The connection is gone or stalled, or the file came up short: the worker cuts it.
WorkerCut ==
    /\ worker.phase \in {"head", "body"}
    /\ worker' = [worker EXCEPT !.phase = "done"]
    /\ net' = [net EXCEPT ![worker.job.conn] = "closed"]
    /\ UNCHANGED <<ref, gone, ring, client, out, slots, age, inbox, ghosts>>

-----------------------------------------------------------------------------
ClientStep == \E c \in Conns :
    \/ \E k \in Kinds : SendHead(c, k)
    \/ SendBodyToken(c)
    \/ HangUp(c)

WebStep ==
    \/ \E c \in Conns : Connect(c) \/ ConnectBusy(c) \/ OnDisconnect(c)
    \/ \E s \in Slots : SweepGone(s) \/ Expire(s) \/ SkipBody(s) \/ Receive(s)
                        \/ RecvBody(s) \/ SendHdr(s) \/ SendBody(s)
    \/ FileDone
    \/ WifiDown

WorkerStep == WorkerTake \/ WorkerHead(TRUE) \/ WorkerHead(FALSE)
              \/ WorkerBody \/ WorkerCut

Next == ClientStep \/ WebStep \/ WorkerStep

Spec == Init /\ [][Next]_vars

-----------------------------------------------------------------------------
(* Properties. *)

TypeOK ==
    /\ net \in [Conns -> {"new", "open", "closed", "forwarded"}]
    /\ ref \in [Conns -> {0} \cup Slots]
    /\ gone \subseteq Conns
    /\ ring \in [Conns -> Seq(Token)]
    /\ asked \in [Conns -> Seq(Kinds)]
    /\ owed \in [Conns -> 0 .. BodyLen]
    /\ out \in [Conns -> Seq(Piece)]
    /\ slots \in [Slots -> Slot]
    /\ Len(age) = NSlots /\ ToSet(age) = Slots
    /\ inbox \in Seq(Job) /\ Len(inbox) <= InboxDepth
    /\ worker \in {Idle} \cup [phase : {"head", "body", "done"}, job : Job]
    /\ garbled \in BOOLEAN /\ swallowed \in BOOLEAN

\* The jobs the worker has or will have, the finished one included until the web
\* task has seen its done message.
Jobs == ToSet(inbox) \cup (IF worker = Idle THEN {} ELSE {worker.job})

\* A slot a job refers to still belongs to the connection of that job, and is
\* marked as sending: the slot index is not reused before the done message.
SlotKept ==
    \A job \in Jobs : slots[job.slot].conn = job.conn /\ slots[job.slot].sending

\* What a client receives is whole responses, one for each request, in the order
\* of its requests; only the last may be cut short.  The web task and the worker
\* never write to a connection at the same time.
ResponsesWhole ==
    \A c \in Conns : \A i \in DOMAIN out[c] :
        LET p == out[c][i] IN
        /\ p.part = "body" => /\ i > 1 /\ ~Complete(out[c][i - 1])
                              /\ out[c][i - 1].req = p.req
        /\ p.part = "head" /\ i = 1 => p.req = 1
        /\ p.part = "head" /\ i > 1 => /\ Complete(out[c][i - 1])
                                       /\ out[c][i - 1].req + 1 = p.req

\* A request that was sent on a connection and is not answered is somewhere on
\* its way: in the ring, in rbuf, being answered, or with the worker.
NoRequestLost ==
    \A c \in OpenConns : \A r \in Answered(c) + 1 .. Len(asked[c]) :
        \/ [req |-> r, part |-> "head"] \in ToSet(ring[c])
        \/ \E s \in Slots :
              /\ slots[s].conn = c
              /\ \/ slots[s].req = r
                 \/ [req |-> r, part |-> "head"] \in ToSet(slots[s].rbuf)
        \/ \E job \in Jobs : job.conn = c /\ job.req = r

\* Body bytes are never parsed as a request and a request is never discarded as
\* body bytes, on any connection that stays open from one request to the next.
FramingKept == ~garbled /\ ~swallowed

\* Every connection that is open sits in exactly one slot, also when clients
\* crowd in and slots are taken away from others.
OneSlotEach ==
    \A c \in OpenConns : Cardinality({s \in Slots : slots[s].conn = c}) = 1

\* Every slot the sweep leaves alone because the worker streams on it has a job
\* that will end with a done message: no deadline would ever free it otherwise.
NoSlotStranded ==
    \A s \in Slots : slots[s].sending => \E job \in Jobs : job.slot = s

=============================================================================
