# spangap-web: formal models

TLA+ models of the parts of spangap-web whose correctness depends on order and failure, the
TLC configurations that check them on small instances, and TLAPS proofs that hold for every
size. The code is the reference: every definition in a module names, in `PROJECT.json`
("map"), the lines it translates. Paths below are relative to the repository; `webrtc_sctp.cpp`
and the like are in `esp-idf/src/`, `stores/` and `lib/` in `browser/src/`.

Run `tlasany M.tla`, `tlc -workers 2 -config X.cfg M` and `tlapm M.tla` in this directory.

## 1. The system

spangap-web is the web face of a small device: an HTTP server with a file worker, a WebRTC
stack written for it (STUN/ICE-lite, DTLS, SCTP, data channels), and a browser application
that mirrors the device's settings over those channels. On the device each of these is one
task; tasks exchange messages and byte streams through ITS (a library outside this
repository), and every handler runs to completion on its task. In the browser everything is
one event loop with promises and timers.

    browser page                          device
    stores/device.ts  <- data channels -> webrtc_task.cpp (router, session)
    lib/webrtc-session.ts                     |  sctpSend / onData
         |  signalling WebSocket          webrtc_sctp.cpp (association)
         +------------------------------>     |  DTLS, UDP
    HTTP requests  -----------------> web.cpp (slots) --> file worker
                                          |  handlers        |
                                      safe_mode.cpp        file system

### Inventory

| Part | State | Operations | Correct means | Module |
|---|---|---|---|---|
| SCTP receiver (`webrtc_sctp.cpp`) | `peerTsn`, reorder pool, channel table, reassembly buffers, the one response buffer | DATA, FORWARD-TSN, RE-CONFIG, COOKIE-ECHO, ABORT; SACK; close | in order, once; what was acknowledged is kept; nothing deliverable waits; messages whole; everything is in the end acknowledged | `SctpInbound`, `TsnOrder` |
| SCTP sender (`webrtc_sctp.cpp`, `webrtc_task.cpp`) | `myTsn`, SSN per channel, `rexmit` pool, last SACK, staged FORWARD-TSN | send, DCEP ACK, SACK, fast and timed retransmission, give-up, purge | nothing reliable lost or skipped; no number unused; pool within quota; reliable messages arrive | `SctpOutbound` |
| Connection slots and file worker (`web.cpp`) | `handles[]`, deadlines, the worker's inbox and job | connect, busy, disconnect, file done, wifi down, sweep, parse, receive, worker steps | slot and connection stay together; responses whole and in order; no request lost; framing kept; no slot stranded | `WebSlots`, `WebSlotsProofs`, `WebSlotsTalkProofs` |
| Safe mode (`safe_mode.cpp`) | boot mode, store, marker, timers, the request being served | backup, restore, cancel, refuse; deadline, reboot | no boot runs on part of an archive; an answer tells the truth; a backup that ends is whole | `SafeMode`, `SafeModeProofs` |
| Association set-up (`webrtc_sctp.cpp`) | `established`, cookie, tags | INIT, COOKIE-ECHO, ABORT, SHUTDOWN, HEARTBEAT | one association at a time, nothing of the old one in the new | planned: `SctpAssociation`; the repeated COOKIE-ECHO and the ABORT are in `SctpInbound` |
| Data channel router (`webrtc_task.cpp`) | `dcMap`, stashes, round-robin cursor | open, data, close on both sides; scheduler pass | each channel a FIFO of its own; streams and connections stay paired; nobody at a level starves | `WebrtcRouter`, `MessagePipes`, `WebrtcRouterProofs`, `WebrtcRouterPipesProofs` |
| Signalling, ICE, DTLS (`webrtc_task.cpp`, `webrtc_port.cpp`) | the active signalling handle, the DTLS session, the UDP socket | connect, force, offer, close, handshake, close_notify, inactivity, wifi loss | one signalling connection; nobody is dropped without a word; a session comes back | `WebrtcSignalling`, with the tabs in `WebrtcSession`; DTLS flights planned |
| Path registry and mappings (`web.cpp`) | tables of prefixes | register, longest match, index and gzip fall-backs | the most specific path wins, whatever the order of registration | planned: `WebPaths` |
| HTTP text, WebDAV, WebSocket frames (`web.cpp`) | none of its own | parse, format | text formats | framing only, in `WebSlots` |
| Login (`auth_web.cpp`) | none of its own | cookie, login | decided outside the repository | - |
| Browser session (`lib/webrtc-session.ts`, `lib/reconnect.ts`) | state, generation, socket, peer connection, reconnect timer | connect, force, refresh, close; the events of socket and peer connection | an event of an old attempt changes nothing; a tab never waits for nothing, nor comes back unasked | `BrowserSession`, with the device in `WebrtcSession` |
| Device store (`stores/device.ts`) | mirror of the settings, pending writes, link state | write, dump, delta, link up, link down | a broken link is rebuilt; after the last exchange browser and device agree | link in `BrowserSession`; the mirror planned: `DeviceStore` |
| Menu, settings tree (`stores/menu.ts`, `stores/settingsTree.ts`) | pure | build, order, filter | a parent before its children, stable order, no node lost | planned: `MenuTree` |
| Log store (`stores/log.ts`) | bounded buffer | append, fold repeats | newest lines, counts right | planned with the above |
| Settings editors, reboot and reconnect pages | form state, poll | submit, echo, error | an error reaches the form that caused it | planned after `DeviceStore` |
| Windows, dock, terminal and editor views, build tooling | layout | - | user interface, no shared state | not modelled |

`PROJECT.json` lists the same parts with their files ("components") and what is hard to test
in each at its line ("hazards", with the properties that cover it or the reason why none does).

### Where it is hard

- **Order and loss.** UDP loses, repeats and reorders; the SCTP code keeps its promises on
  both sides with fixed pools and allocations that may fail.
- **Two tasks, one slot.** The web task hands a slot to the file worker and must not reuse the
  index until a message comes back, while clients hang up, time out, and crowd in.
- **Back-off.** `sctpSend` takes numbers before it knows whether it may send, and gives them
  back on several early returns.
- **Power cuts and timers.** A restore formats the store in the middle; it can be cut between
  any two steps.
- **Old events.** The browser and the session task both see events of attempts they have
  given up.

## 2. Modules and the code they model

### SctpInbound, TsnOrder, MCSctpInbound, SctpInboundProofs

The receiving half of an association. The chunk with TSN *t* is `peerOut[t]`; a chunk that was
sent may arrive at any time, any number of times or never, which is loss, reordering,
duplication and retransmission at once.

| code | model |
|---|---|
| `processDataChunk`, the three ways a TSN compares with `peerTsn` | `RecvDuplicate`, `RecvNext`, `RecvAhead` |
| `reorderInsert` (slot, duplicate, allocation) | `Buffered` |
| `drainReorder`, one iteration of its loop | `DrainOne`, `DrainEnd`; `phase` keeps other steps out |
| `deliverChunk`: `handleDcepOpen`, `processDataFragment` | `DeliverChunk`: `HandleDcepOpen`, `ProcessDataFragment` |
| `sctpInput`: FORWARD-TSN, COOKIE-ECHO, ABORT and teardown | `RecvForwardTsn`, `RecvCookieEcho`, `Shutdown` |
| `handleReconfigChunk`, `sctpStreamReset` | `RecvReconfig`, `StreamReset` |
| `buildSack`; the response buffer a DCEP ACK occupies | `SackCover`; `dcepOut` |

`TsnOrder` is the promise alone: chunks go up in TSN order, each at most once, and only what
the peer abandoned is passed over. `SctpInbound` implements it under the mapping at the end of
the module (`InOrderDelivery`), checked by TLC and proved.

The initial TSN is normalised to 1 and TSNs do not wrap: the code compares them by the sign of
their difference, which agrees with `<=` while they are less than 2^31 apart.

### SctpOutbound, MCSctpOutbound, SctpOutboundProofs

The sending half. A message is a run of fragments with one TSN each; the pool and the window
count fragments.

| code | model |
|---|---|
| `sctpSend`: numbering, quota, window, give-back, insert, transport result | `Send` with `Fits`, `Placed` and `Inserted`; `BackOff` |
| `rexmitFreeSlot`, `rexmitQuota`, `rexmitInsert` | `Used`, `Quota`, `Room`, `FreeSlots`, `Placed` |
| SACK in `sctpInput`: cumulative, gaps, freeing, window, fast retransmission | `RecvSack`, `AckedBy` |
| `sctpRetransmit`: the scan from slot 0, give-up, what is missing, `MAX_FRAGS_PER_CALL` | `Retransmit` with `Reached`, `Stays`, `Missing`, `Burst` (`MaxBurst`) |
| the retransmission timer of `webrtcTaskFn` | `clock`: `Expire` (1500 ms), `Rto` |
| `rexmitPurgeStream`, `rexmitComputeForwardTsn` and the staged FORWARD-TSN | `CloseChannel`, `AdvanceTo`, `SendForward` |
| DCEP ACK of `handleDcepOpen` | `OpenChannel` |

SACKs are messages in flight; they may be late, stale or lost. The code applies each without
comparing it with the last, and the model does the same. Each restarts the clock the timer looks
at (`lastSackMs`), so `Rto` is possible only when `Expire` found no SACK for 1500 ms. Which slot
a message gets is left open; a call of `sctpRetransmit` that has sent its allowance leaves the
slots behind as they are, and the next one starts at slot 0 again. The peer has something to
tell (`due`) when a chunk came in, or when a window it reported as closed opens.

### WebrtcRouter, MessagePipes, MCWebrtcRouter, WebrtcRouterProofs, WebrtcRouterPipesProofs

The table that pairs SCTP streams with ITS connections, and the scheduler that drains the
connections. A message is the connection it was sent on and its number there; a connection is
the number of the `itsConnect` that made it, so slots, handles and streams that are used
again are told apart. What `sctpSend` answers is left open: "sent", "refused" (0, or a failure
before anything was kept) or "kept" (a failure after the pool took the message).

| code | model |
|---|---|
| `dcMapFindByStream`, `dcMapAllocSlot`, `dcMapClear`, `dcMapClearAll` | `SlotsOn`, `FreeSlots`, `Cleared`, `ClearAll` |
| `webrtcDcOpen`, its refusals | `DcOpen`, `DcRefuse` |
| `webrtcDcReset`, `webrtcDcData`, `webrtcOnItsDisconnect` | `DcReset`, `DcData`, `OnItsDisconnect` |
| `schedulerPass`: level, scan from the cursor, stash first, fresh message, nothing to read, end | `TopLevel`, `Picked`, `ServeStash`, `ServeFresh`, `ServeNothing`, `EndPass`; `iter` counts the iterations of a pass and keeps the rest of the task out of it |
| offer, signalling closed, wifi or port lost, ABORT, close_notify and 8 s of silence | `Offer`, `SessionTeardown`, `LinkDown`, `Abort`, `Restart` |
| the tasks behind the channels | `TargetSend`, `TargetClose`, at any time |

`MessagePipes` is the promise alone: one FIFO per connection, opened once, whose messages come
out in order, once each and nowhere else; a message may be lost on the way out, and is then
known to be (`Drop`). `WebrtcRouter` implements it (`PipesKept`): a pipe holds the stash and
the ITS queue of the slot of its connection, `Stage` says whether it is new, open or closed, and
two histories keep, by connection, the messages `sctpSend` reported as sent (`passed`) and those
whose stash could not be allocated (`dropped`, the one loss the code has; the comment at
`webrtc_task.cpp:217-219` says reliable channels cannot tolerate it). What
`PipesKept` is about is the scheduler's own account. That `sctpSend` may have kept a message it
reported as failed, so that its retry is a second message, is a matter between the two halves:
`out` is the history of what the association took, and `OnePacketOneMessage` the property
of it, which the run `router_once` shows violated.

### WebSlots, MCWebSlots, WebSlotsProofs, WebSlotsTalkProofs

The slots of the web task and the single file worker. A request is a head token and, for the
kinds with a body, body tokens; a response is a head piece and perhaps a body piece.

| code | model |
|---|---|
| ITS call-backs `webItsConnect`, `webItsBusy`, `webItsDisconnect`, `webOnFileDone` | `Connect`, `ConnectBusy`, `OnDisconnect`, `FileDone` |
| sweep of `webTaskFn`: cleanup, deadline, skip, receive | `SweepGone`, `Expire`, `SkipBody`, `Receive` |
| `tryParseRequest` and the answers it picks | `Parse` with `ServeHere`, `ServeFile`, `ServePut`, `ServeHandler`, `Forward` |
| `consumeRequest` | `Consumed` |
| bodies and responses sent from the web task | `RecvBody`, `SendHdr`, `SendBody` |
| the worker: next job, head, body, early stop | `WorkerTake`, `WorkerHead`, `WorkerBody`, `WorkerCut` |
| loss of wifi | `WifiDown` |

`Crowd` says how many clients come. "none": no more than there are slots. "calm": one more comes
when the slot `webItsBusy` takes away is not the worker's. "any": at any time. Requests are
bounded per connection (`MaxReq`) and over all of them (`MaxAsked`).

### SessionWires, WebrtcSignalling, BrowserSession, WebrtcSession, MCWebrtcSession, WebrtcSessionProofs

Who holds the single session of the device. `SessionWires` has what lies between: the
signalling sockets, a FIFO each way, and the peer connection the device's DTLS session is keyed
with. `WebrtcSignalling` is the device, `BrowserSession` every tab, and `WebrtcSession` joins
them with the datagram path, the faults and the fairness. A generation of a tab, its socket and
its peer connection have one name, a tab and a number; the code never uses a number again, the
model does once nothing refers to it.

| code | model |
|---|---|
| `webrtcItsConnect`: 4401, 4409, accepted, evicting | `RefuseAuth`, `RefuseBusy`, `Accept`, `Evict` |
| `handleSignalingMsg`; a close frame; `webrtcItsDisconnect` | `HandleOffer`; `ReadClose`; `ItsDisconnect` |
| `handleUdpPacket`: handshake done, close_notify; 8 s of silence; wifi | `DtlsConnected`, `CloseNotify`; `Inactivity`; `NetworkDown`, `NetworkUp` |
| `teardown`, `scheduleReconnect`, `openSignaling` | `TornDown` with `CloseSocket`, `Rearm`, `OpenSignaling` |
| `connect`, `connect({force: true})`, `close`, the reconnect timer | `Connect`, `TakeOver`, `Close`, `TimerFires` |
| `onopen` with `startWebRTC`, `onmessage`, `onclose` | `WsOpen`, `SendOffer`, `WsAnswer`, `WsClose` |
| `onconnectionstatechange` | `PcConnected`, `PcFailed` |
| `buildChannel`: open, end of dump, close; heartbeat; `enterLinkDown` with `refresh` | `DcOpen`, `DumpEnd`, `DcClose`; `Heartbeat`; `EnterLinkDown` with `Refreshed` |
| a page that leaves, or dies | `Leave`, `Vanish` |

What an end sends to an end that is gone is dropped; events a teardown cannot call back (an
open event already queued, the close of a channel, the end of an await) come later, at any time.

### SafeMode, MCSafeMode, SafeModeProofs

A boot that exists to back up or restore the state store. The store is a set of files; an
upload is a sequence of tokens ("magic" for the gzip magic, "junk", files, "end" for the
footer). The handler serves one request at a time; clients, the storage task's flush, both
timers and power cuts interleave with its steps.

| code | model |
|---|---|
| `safeModeHandler`: session check, verbs, endpoints of the other mode | `Refuse`, `Cancel`, `BackupStart`, `RestoreStart` |
| `walkInto`, one file; the end of `handleBackup` | `BackupFile`; `BackupEnd` |
| `bodyRecv`, `rawRead`, `bodyRead`: bytes that came with the head, then the connection | `Readable` |
| magic check; format; marker | `Peek`; `Format`; `SetMarker` |
| `targzReaderFeed` and `onFile`/`onData`; `targzReaderFinish` and the answer | `Feed`; `Extracted`, `Finish` |
| `rebootSoon`, `deadlineCb` | `RebootTimer`, `Deadline` |

`bail` answers and closes the connection but its callers in `handleRestore` do not return, so
`RestoreStart`, `Peek` and `Format` continue after a refusal. A crash for want of memory
(line 876 goes on with a null reader) is one of the places a `PowerLoss` can strike.

## 3. Runs

All runs use `-workers 2`; deadlock checking is off where the system may rest (no more
clients, chunks or power) and on for the router, where a new offer is always possible.

| run | configuration | result |
|---|---|---|
| `inbound` | 2 streams, 1 channel slot, 2 reorder slots, messages of 1 or 2 fragments, 4 TSNs, failing allocations, `FairSpec` | type, in-order-once, no reneging, nothing deliverable held, whole messages, `TsnOrder`; every chunk is in the end acknowledged |
| `router` | 2 streams, 2 slots, 2 connections of either of 2 levels, 3 messages, 2 messages per pass, 1 send that fails after the pool took it, failing allocations, `FairSpec` | pairs and right targets, a FIFO per channel, turns within a level, everything sent leaves |
| `router_once` | the same with one level and no failing allocation | **violated**: a message kept by the pool is sent again as a new one |
| `outbound` | 2 streams (one reliable and ordered), 2 pool slots, 3 fragments, quota 2, window 2, 3 TSNs, 1 chunk per call of `sctpRetransmit`, 1 SACK in flight, losses, `FairSpec` | reliable data held until it arrived, no FORWARD-TSN over needed data, no number unused; every reliable message arrives |
| `outbound_purged` | as above, 4 TSNs | **violated**: purge without FORWARD-TSN |
| `slots_served` | 3 connections for 2 slots, worker inbox of 1, 2 requests on a connection and 4 in all, files, inline answers, refusals, uploads, handlers, forwards; evictions spare the worker's slots | all slot properties |
| `slots_kicked` | 3 connections for 2 slots | **violated**: slot taken while the worker holds it |
| `slots_handler_body` | 1 connection, handler with a body | **violated**: the next request is eaten |
| `safe_mode` | 2 clients, a whole archive, one cut short, one broken, a file that is none; an unreadable file; failing writes | no boot on part of an archive, true answers, whole backups |
| `safe_mode_refused` | 1 client | **violated**: a refused upload has formatted the store |
| `session` | 2 tabs, 2 generations of one and 1 of the other, 1 fault, 1 take-over, fairness | one handle, SDP with its peer connection, no silent drop, no unasked return, nobody stranded; a tab that wants a session gets it, is told why not, or had its new connection cut short before its dump ended |
| `session_busy` | 1 tab, 1 fault | **violated**: a tab is refused because of itself |

### Why the bounds are enough

- *Receiver.* Two reorder slots against four TSNs let the pool fill, refuse and drain in any
  order, with a two-fragment message on either side of a gap; one channel slot makes two
  streams compete for it, and reuses it. Safety beyond these bounds is proved.
- *Sender.* Two pool slots and three fragments make the slot limit, the byte limit and the quota
  each bite first in some state; three TSNs give an acknowledged and a refused message with a
  lost one between. An allowance of one chunk per call makes a call stop inside a message of two
  fragments and before the second slot. In the run every allocation succeeds (`AllocOutcomes`)
  and every SACK reports the same open window (`Reports`); the proofs leave both open, the
  liveness property is about lost packets and the restarted clock only. `SsnMod` = 16 is above the number of messages (see
  "Noted" below for the wrap). Safety beyond these bounds is proved.
- *Router.* Two connections over two slots with every teardown between them use a slot, a handle
  and a stream again after each way of closing; three messages let one sibling be served twice
  while the other waits. All the safety properties and the refinement are proved for all sizes.
- *Slots.* Four requests over three connections and two slots let one slot be with the worker,
  one be refused at the full inbox, a keep-alive request follow on each and a third client take
  either away. The
  safety properties are proved for all sizes, those about requests and responses without the
  kinds named under "Noted". The view of the run drops what no later step reads: the bytes, requests and
  responses of a connection that is closed or given away.
- *Session.* Two tabs are the smallest number that can refuse and evict each other. Two
  generations let an old socket, await or peer connection live on beside the new one; the tab
  that is asked about has them, the other one opens a socket only when its last is forgotten
  (`OneAtATime`). The proofs leave tabs, generations, faults and take-overs open. Liveness is
  stated for one tab, the other being its mirror image.
- *Safe mode.* Two clients are enough for a second request in the 500 ms before the reboot;
  the bodies are one of each kind the extractor tells apart.

### Fairness

- `inbound`: weak fairness of the drain loop (it runs to completion on its
  task); strong fairness of `Resend` and `ResendForward`: the browser resends what no SACK
  reported until one does, and a packet sent again and again gets through.
- `outbound`: `TimerRuns` and `PathWorks`, weak of what is the clock's or the peer's own doing,
  strong of what the network or the transport may put off a finite number of times in a row. Time
  passes: a SACK arrives or the clock expires. When it has expired again and again, either the
  loop gets round to `sctpRetransmit` with a transport that takes packets, or a SACK comes before
  it does; neither is assumed while SACKs keep coming, since any of them restarts the clock
  (`webrtc_task.cpp:1350-1359`). The peer sends the SACKs it owes, and of those it sends for ever
  some arrive; so does a chunk put on the wire for ever. Nothing is assumed of a particular SACK,
  of fast retransmission or of FORWARD-TSN.
- `router`: weak fairness of the end of a pass, and strong fairness of a send that succeeds,
  of any channel: SACKs free the pool again and again. Which channel is served is the
  scheduler's doing, not an assumption.
- `session`: weak fairness of the webrtc task's loop and of the return of the network; of the tab
  that is asked about, weak fairness of its events (socket, timer, await) and of its link's
  events and ends taken together; of both tabs, strong fairness of the handshake's last step,
  since the peer connection of an evicted tab may take the device's DTLS session for itself a
  finite number of times. Nothing else is assumed of the other tab (`FairToA`): it may stop
  hearing its socket and rebuilding its link. Faults, silence and users are never fair, and
  neither is TCP's discovery of a dead page.
- The other runs assume none; in these four, fairness touches only the liveness property.

### What the violated runs show

- A purge stages a FORWARD-TSN only if it would advance the last SACK at that moment
  (`webrtc_sctp.cpp:549`).
- `sctpSend` answers -1 when the transport refuses the first packet of a message its pool has
  taken already; the scheduler stashes the message and sends it again as a new one
  (`webrtc_sctp.cpp:1172-1175`, `webrtc_task.cpp:362`), against one packet, one DATA message in
  `docs/webrtc.md:43`.
- `webItsBusy` takes slots without looking at `sending` (`web.cpp:746`).
- `consumeRequest` waits for a body its handler has already read (`web.cpp:1522`).
- `handleRestore` goes on after `bail` (`safe_mode.cpp:832, 851, 865, 870`).
- The task loop accepts connections before it reads the active one's close frame, so a tab
  that rebuilds its session after the device was busy meets its own old socket, is refused with
  4409 and stays parked (`webrtc_task.cpp:1262, 1298`).

Noted and not a run:

- The SSN give-back tests `ch->ssn > 0` (`webrtc_sctp.cpp:1121`), so a refusal right after the
  16-bit counter wrapped loses a number (`NumbersGapless` fails with `SsnMod` = 2).
- A RE-CONFIG that overtakes the OPEN of its stream is applied at once and the OPEN then leaves
  the channel open (`webrtc_sctp.cpp:373`).
- The priority `webrtcDcOpen` pins reaches the scheduler only, while `sctpSend` asks for its
  share of the pool with the priority of the DCEP OPEN (`webrtc_task.cpp:775-787`,
  `webrtc_sctp.cpp:1097`), so storage has no larger share than its siblings.
- A message for a task that is busy for 50 ms is dropped after SCTP acknowledged it
  (`webrtc_task.cpp:833`).
- A fresh message that is refused while no stash can be allocated is dropped
  (`webrtc_task.cpp:362-380`).
- There is one cursor for all levels (`webrtc_task.cpp:300, 343, 359`), so a send at a higher
  level moves the place where a lower one goes on, and a connection of the lower level can be
  passed over for a sibling's second burst: `BurstsShare` therefore speaks of waits in which only
  its own level is served, while the comment at line 288 promises round-robin within a level
  without that condition.
- When the file worker has answered, `webOnFileDone` resets the whole slot (`web.cpp:773-790`),
  and with it `skipRemain`: what is still to come of the body of a request it answered with the
  login page (kind "unauth") is then parsed as the next request, and `FramingKept` and
  `NoRequestLost` fail with "unauth" in `Kinds`.
- A LOCK or a marker's PROPFIND whose answer finds no memory promises a body that is never sent
  (`web.cpp:1279, 1612`), and the client waits for it until its deadline; `WebSlots` has the
  memory for it.
- A COOKIE-ECHO that comes again after data has moved sets `peerTsn` and `myTsn` back and keeps
  the pools and channels (`webrtc_sctp.cpp:904-915`): with `LateCookie` = TRUE `InOrderOnce`
  fails.
- A page that dies without a close frame keeps its signalling handle: 8 s of silence end the
  transport only (`webrtc_task.cpp:1379-1395`), so every other tab is refused until TCP finds
  out, while `docs/webrtc.md:98-99` and the comment at `webrtc_task.cpp:197-201` speak of a
  session that is reclaimed (`FoundOut` is the only step that frees it, and is not fair).
- A session that has just come up may stay broken, in two ways, both in the run and both named by
  `CutShort`, the third end `RepairedA` allows a wait (without it, or with half of it, the
  property fails). `enterLinkDown` does nothing while the mark is set and only the end of a dump
  clears it (`stores/device.ts:299`): a link that falls silent again, or whose transport another
  tab's offer renews, before its dump has ended is not rebuilt. And a channel that never opened
  is watched by nothing (`device.ts:375` asks for `everConnected`): a tab that was evicted while
  its peer connection came up shows "connected"; when it comes back into view `connect` marks it
  as wanting a session and returns (`lib/webrtc-session.ts:109-110`), and when the device's end
  of that connection goes before the channel opened, nothing builds it again.
- A refused or evicted tab can leave that state without its user: a late event of its peer
  connection puts it in "error", and the page coming back into view calls `connect`
  (`lib/webrtc-session.ts:10-11` says only a force does).
- A peer connection of an evicted tab that is still trying can complete the handshake of the tab
  that took over, since every answer carries the same credentials
  (`lib/webrtc-session.ts:211-226` does not close the peer connection on an eviction).

## 4. Proofs

Every theorem is checked by `tlapm` from nothing, for every value of the constants that
satisfies the module's named assumptions.

**SctpInboundProofs.** `TypeCorrect` is inductive as stated. `DeliveredInOrder`, `SackedIsKept`,
`ReorderDrained` and `ImplementsTsnOrder` rest on one inductive invariant, `OrderInv`. The three
properties alone are not inductive: while the drain loop runs, `NothingReadyHeld` says nothing,
and a chunk at or below `peerTsn` left in the pool would pin its slot for ever. `OrderInv` adds
`HeldAhead` (the pool never holds such a chunk, in the loop or out of it) and
`UntouchedBeforeCookie` (nothing has moved before the association is up). Assumption beyond the
constants': `LateCookie = FALSE`, that is, COOKIE-ECHO arrives once (what happens otherwise is
under "Noted" above). `OnlyWholeMessages` (`MessagesWhole`) needs none of that and holds with a
late COOKIE-ECHO too. Its invariant `WholeInv` says that a reassembly buffer holds the first
fragments of one message, and that these either reach up to `peerTsn` or are followed by no
further fragment of that message (`Assembling`); that a stream has at most one open channel
(`OneOpen`); and that what was handed up is whole (`Assembled`). It rests on what the peer may
send: the fragments of a message have consecutive TSNs and a FORWARD-TSN ends where a message
ends, so the chunk delivered next either goes on with the buffer of its stream or begins a
message.

**SctpOutboundProofs.** `NothingLost` (`ReliableHeld`) and `NothingNeededSkipped`
(`ForwardSkipsNothingNeeded`) come from `SenderInv`, the two properties with `Typed`, `Numbered`
(messages and FORWARD-TSNs lie below `myTsn`, and a message's stream has been opened) and
`SacksCredible` (every SACK in flight and the last one applied report only what the peer has
received or been told to skip). They are proved together because each needs the others: a stale
SACK frees an entry only because what it reported stays true; a skipped TSN counts as reported,
so freeing is safe only if no needed TSN is ever skipped; and a FORWARD-TSN reaches over needed
data only if that data has left the pool. The lemmas on `Max` and `Min` are proved from
well-foundedness of finite sets. `TypeCorrect` (`TypeOK`, with the pool's capacity) says that no
two messages share a slot and adds `PoolFits`: an insertion is weighed against the fragments in
the pool and those of the new message (`InsertFits`); `sctpRetransmit` keeps the messages of the
entries it retains, their slots and so their fragments (`RetransmitApart`, `FewerFit`).
`GaplessUntilWrap` says that `NumbersGapless` holds while no ordered stream has carried 2^16
messages (`BeforeWrap`), and `NeverGaps` that it always holds when an association uses fewer TSNs
than that (`MaxTsn < SsnMod`). The invariant is `Chained` (each message starts where the last
ended) with `InTurn`: the counter of a stream is the number of its messages until it is about to
wrap. Up to there `BackOff` takes back exactly the number it took; at the wrap it does not (see
"Noted"), so without `BeforeWrap` the property is false.

**SafeModeProofs.** `TypeCorrect`; `NoBootOnPart` (`NothingPartialBoots`), `AnswersAreTrue`
(`OkMeansRestored`) and `FailuresAreTrue` (`FailedMeansFactory`) from `StoreInv`, which adds:
`Served` (a connection that is not closed has no answer yet); `Feeding` (as long as the extractor
is content the store is exactly the files fed so far, and a footer was fed only at the end of an
archive); `Restoring` (from the format on nothing flushes, the store is empty until the marker is
set, and the marker stays while files are written); `Settled` (otherwise the store is whole or
the marker is there, and what a flush would write is what the store holds). Assumption:
formatting does not fail (`FALSE \notin FormatOutcomes`); what a failed format leaves behind is
decided outside this repository, and line 870 goes on regardless. `BackupsAreWhole`
(`BackupWhole`) needs no assumption. Its invariant `Walking` says that a boot for a backup leaves
the store as it loaded it (so a flush that comes between two files writes what is there already)
and that each readable file is still to be walked or was sent.

**WebrtcRouterProofs.** `RouterPairs` (`Paired`) and `RouterReachesRightTarget` (`RightTarget`)
from `IInv`, which adds to the two: `Shape` (typing, and that a used slot names a real
stream); `ConnsDistinct` (live handles have different connections, all made already), which
lets one slot be given up without touching another's stream or handle; and `SessionOrder` (a
session that waits for its handshake has a fresh association, and an association that is not
up has no open channel). Without the last, the channels `LinkDown` leaves open in the
association would come back to life, with nothing behind them, at the next handshake. No
assumption beyond the constants'.

**WebrtcRouterPipesProofs.** `TypeCorrect`, `SiblingsShare` (`BurstsShare`) and `ImplementsPipes`
(`PipesKept`), with no assumption beyond the constants'. `TableInv` adds to `IInv` the types and
`Blank`: what is not used holds nothing of its last connection. Every step is one of five kinds
(`StepKinds`: a channel opens, slots are dropped, a target sends or closes, a message is offered
to the association, nothing of the table changes), and what each kind does to slots and
connections is stated once. `BurstsShare` is about a history, so its invariant `TurnInv` speaks of
waits that are not over (`Turns`): while connection *c* waits and only its level is served, the
cursor has left the slot served when the wait began and has not come round to *c*. A slot that is
picked is no farther from the cursor than *c*'s, so it lies on the arc from the one to the other
and is not the first (`RoundGoesOn`, arithmetic modulo the table's size). The refinement takes
each kind of step to one step of `MessagePipes` or to none; that a closed or lost stash leaves no
trace needs `Blank`.

**WebrtcSessionProofs.** `TypeCorrect`, `OneHandleAlways`, `SdpFollows`, `SocketsAgreeAlways`,
`NoAutoReconnectAlways` and `NeverStrandedAlways`, for any tabs, generations and budgets, from
one invariant `Inv`: the typing, `OneHandle`, one `SocketInv` per socket and one `PageInv` per
tab. `SocketInv` says what the two queues of a socket may hold while it is asked for, held or
ended, that an open end at the tab is held, asked for or about to hear its end, and that a
description carries the generation of its socket: `SocketsAgree` needs the first, because an
end that overtook an "open" would leave the tab waiting. `PageInv` ties a tab's generation,
socket, timer and state together: only so does a late event not set a timer on a parked tab.
No fairness is used, and no assumption beyond the constants'.

**WebSlotsProofs.** `OneSlotEachAlways`, `NeverStranded` (`NoSlotStranded`) and `SlotKeptAlways`
(`SlotKept`). The invariant `Layout` says that a slot and the connection in it name one
another, that a connection nobody accepted is in no slot, and that a disconnect still to be
reported finds its slot with that connection or empty: without the last a late disconnect
could free the slot of somebody else. Most steps are `Quiet` (they change neither the jobs nor
which slots are marked) and `Gentle` (they leave marked slots to their connections); what is
left is the hand-over of a job and the done message, for which `OneJob` says that no two jobs
are for one slot. `SlotKept` assumes that evictions spare the worker's slots (`Crowd` # "any";
`slots_kicked` shows what happens otherwise); the other two hold in any crowd.

**WebSlotsTalkProofs.** `TypeCorrect` for any crowd and any requests; `FramingAlways`
(`FramingKept`), `ResponsesAlwaysWhole` (`ResponsesWhole`) and `NeverLost` (`NoRequestLost`) under
`Framed`. Their invariant `Conv` says for every open connection where its conversation stands.
While the web task has the slot the connection is `Quieted` (everything asked is answered),
`Asking` (its last request lies in the ring, its head perhaps read) or `Answering`, and the body
tokens in the ring with those the client still owes are just what the slot means to receive or
to skip. While the worker has the slot the ring is empty, and the worker's own state says how
much of the response is out (`Pending`, `Streaming`, `Done`). What was written is whole responses,
of which the last may be open. The three properties follow from one another only through this:
that a response is whole says nothing of which request it answers, and that a ring is framed
says nothing of a slot that is taken away. `Framed` assumes that a client waits for its answer
before it asks again, that an eviction spares the worker's slots, and leaves out the two kinds
of requests on which the code does lose the framing: "handler" (`slots_handler_body` shows it)
and "unauth" (see "Noted").

**Model-checked only.** Every safety property, action property and refinement of the passing
runs is a theorem. Left to TLC are the liveness properties (`EverythingAcknowledged`,
`EveryReliableArrives`, `EveryChannelDrains`, `RepairedA`): anything under fairness is out of the
prover's reach, as is `ENABLED`. The six violated runs are counterexamples, not theorems.

## 5. Assumptions about what is not in the repository

- The browser's SCTP follows RFC 4960 and RFC 3758 and does not reuse a stream id within an
  association; the UDP path corrupts nothing (DTLS authenticates).
- ITS accepts as many connections on a port as there are slots and calls the busy handler
  beyond that, reports a peer's disconnect before any later connect, and does not call back for
  a disconnect this side asked for, nor while `itsConnect` waits for an answer. What a task
  sent before it closed may be read until the notice of the close is handled. Clients do not
  pipeline (`Pipelining` = FALSE), and but for `slots_kicked` a new client does not come while
  the oldest slot is the worker's (`Crowd` = "calm").
- A WebSocket is a FIFO each way; what is sent to an end that is gone is dropped; a close frame
  follows what was sent before it. A peer connection with an answer handshakes with whatever
  DTLS session the device has ready, in one step. A network that went away comes back.
- A safe-mode request is one-shot; a boot that finds the marker, or an empty store, fills the
  store from the factory seeds; a flush writes what storage loaded at boot. Nothing follows
  the footer in an upload, and no archive is empty (a backup holds at least the settings).

## 6. Plan

In this order, each with its MC module and mutants; runs are joined so that one run answers
one question about one instance.

1. `DeviceStore`: the mirror of the settings, pending writes, dump against echo, joined with the
   storage channel of `BrowserSession`.
2. The DTLS flights of `WebrtcSignalling`: the ClientHello put together from two datagrams, the
   retransmission filter, an offer that comes in the middle.
3. `SctpAssociation`: INIT to established with both halves' state; what an association may
   inherit from the one before it.
4. `WebPaths`, `MenuTree`, `LogStore`: algorithms against reference definitions over bounded
   inputs.
5. Proofs: the safety properties of what 1 to 3 add. For `WebSlots`, the framing when a handler
   reads its own body, once `consumeRequest` no longer waits for it.

Not planned: XML, HTML and directory listings, the WebSocket codec, the look of the browser's
windows, SDP and STUN text, cryptography: no property of state or order is at stake, or it is
carried out elsewhere.
