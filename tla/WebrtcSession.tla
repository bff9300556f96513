---------------------------- MODULE WebrtcSession ----------------------------
(***************************************************************************)
(* The browser tabs of BrowserSession against the device of                *)
(* WebrtcSignalling: who holds the single session, and whether a tab whose *)
(* link broke gets it back.                                                *)
(*                                                                         *)
(* The peer connections and the datagram path are outside the repository.  *)
(* A peer connection that has the device's answer handshakes with whatever *)
(* DTLS session the device has ready: the ICE credentials and the          *)
(* certificate are the same in every answer.  Handshakes, the association  *)
(* and the dump go through when the path is up.                            *)
(*                                                                         *)
(* What can go wrong is bounded by MaxFaults: a signalling connection that *)
(* breaks, a cookie that expired, a page that vanishes, the device's       *)
(* network going away, eight seconds of silence, a heads-down device.      *)
(* Pages that leave count as faults; MaxTakeOvers bounds the take-overs.   *)
(***************************************************************************)
EXTENDS WebrtcSignalling, BrowserSession

CONSTANTS
    MaxFaults,      \* bound: faults, pages that leave or close, parked ones resumed
    MaxTakeOvers    \* bound: take-overs

ASSUME SessionAssumption == MaxFaults \in Nat /\ MaxTakeOvers \in Nat

VARIABLES faults, takeOvers    \* left of the two budgets

budgets == <<faults, takeOvers>>
vars == <<wires, device, browser, budgets>>

TypeOK ==
    /\ WiresTypeOK
    /\ SignallingTypeOK
    /\ BrowserTypeOK
    /\ faults \in 0 .. MaxFaults
    /\ takeOvers \in 0 .. MaxTakeOvers

Init ==
    /\ WiresInit
    /\ SignallingInit
    /\ BrowserInit
    /\ faults = MaxFaults
    /\ takeOvers = MaxTakeOvers

Fault == faults > 0 /\ faults' = faults - 1 /\ UNCHANGED takeOvers

\* The tab's peer connection is the one the device's DTLS session is with.
Linked(t) == tab[t].pc # "none" /\ Secure(Mine(t))
\* The storage channel of the tab carries messages.
Served(t) == Linked(t) /\ tab[t].dc = "open" /\ established
Sends(t)  == udp /\ tab[t].pc \in {"answered", "connected"}

-----------------------------------------------------------------------------
(* Steps of the two ends together. *)

Handshake(t) ==
    /\ tab[t].pc = "answered"
    /\ DtlsConnected(Mine(t))
    /\ UNCHANGED <<browser, budgets>>

PcUp(t) == Linked(t) /\ PcConnected(t) /\ UNCHANGED <<device, budgets>>

\* ICE gave up, or the DTLS handshake did.
PathDead(t) == ~udp \/ (tab[t].pc = "answered" /\ ~Linked(t) /\ dtls # "ready")
PcDown(t) == PathDead(t) /\ PcFailed(t) /\ UNCHANGED <<device, budgets>>

\* The association is set up and the storage channel opened over it.
ChannelUp(t) ==
    /\ Linked(t)
    /\ DcOpen(t)
    /\ established' = TRUE
    /\ UNCHANGED <<itsHandle, dtls, udp, budgets>>

Resynced(t) == Served(t) /\ DumpEnd(t) /\ UNCHANGED <<device, budgets>>

\* The close event of a channel whose peer connection was closed or whose
\* association the browser gave up.
ChannelDown(t) ==
    /\ tab[t].dc = "closing" \/ (tab[t].pc = "connected" /\ ~Linked(t))
    /\ DcClose(t)
    /\ UNCHANGED <<device, budgets>>

Silence(t) == ~Served(t) /\ Heartbeat(t) /\ UNCHANGED <<device, budgets>>

\* close_notify of a peer connection that its tab has closed.
PeerClosed ==
    /\ peer # NoSocket /\ tab[peer[1]].gen # peer[2]
    /\ CloseNotify
    /\ UNCHANGED <<browser, budgets>>

NobodySends == Inactivity /\ (\A t \in Tabs : ~Sends(t)) /\ UNCHANGED <<browser, budgets>>

-----------------------------------------------------------------------------
(* Faults of the environment. *)

\* The TCP connection of a socket ends under it; both ends hear of it.
Breaks(s) ==
    /\ Fault
    /\ s \in live
    /\ up' = IF s \in held THEN ToDevice(s, Note("gone")) ELSE Cleared(up, s)
    /\ down' = ToBrowser(down, s, <<Note("lost")>>)
    /\ live' = live
    /\ UNCHANGED <<held, peer, device, browser>>

Expired(s)  == Fault /\ RefuseAuth(s) /\ UNCHANGED browser
Vanished(t) == Fault /\ Vanish(t) /\ UNCHANGED device
Blackout    == Fault /\ Inactivity /\ UNCHANGED browser
NetworkLost == Fault /\ NetworkDown /\ UNCHANGED browser
HeadsDown(t) == Fault /\ Served(t) /\ Heartbeat(t) /\ UNCHANGED device
\* TCP finds out that the page behind a held connection is no more.
FoundOut(s) ==
    /\ s \in held \ live /\ up[s] = <<>>
    /\ up' = ToDevice(s, Note("gone"))
    /\ UNCHANGED <<down, live, held, peer, device, browser, budgets>>

-----------------------------------------------------------------------------

\* While the device's network is down no message crosses, on TCP either.
DeviceStep(s) ==
    /\ udp
    /\ \/ RefuseBusy(s) \/ Accept(s) \/ Evict(s)
       \/ HandleOffer(s) \/ ReadClose(s) \/ ItsDisconnect(s)
    /\ UNCHANGED <<browser, budgets>>

SocketEvent(t) ==
    /\ \/ udp /\ (WsAnswer(t) \/ WsClose(t) \/ \E g \in Gens : WsOpen(t, g))
       \/ TimerFires(t) \/ \E g \in Gens : SendOffer(t, g)
    /\ UNCHANGED <<device, budgets>>

LinkEvent(t) == Handshake(t) \/ PcUp(t) \/ ChannelUp(t) \/ Resynced(t)

UserStep(t) ==
    \/ /\ Connect(t)
       /\ IF tab[t].state = "error" \/ tab[t] = NewPage \/ Engaged(tab[t])
          THEN UNCHANGED budgets ELSE Fault
       /\ UNCHANGED device
    \/ Fault /\ (Close(t) \/ Leave(t)) /\ UNCHANGED device
    \/ /\ takeOvers > 0 /\ takeOvers' = takeOvers - 1
       /\ TakeOver(t)
       /\ UNCHANGED <<device, faults>>

EnvironmentStep ==
    \/ \E s \in Sockets : Breaks(s) \/ Expired(s) \/ FoundOut(s)
    \/ \E t \in Tabs : Vanished(t) \/ HeadsDown(t)
    \/ Blackout \/ NetworkLost \/ NobodySends \/ PeerClosed

NetworkBack == NetworkUp /\ UNCHANGED <<browser, budgets>>

\* The webrtc task's loop; the browser gives up a link.
DeviceRuns  == \E s \in Sockets : DeviceStep(s)
LinkEnds(t) == PcDown(t) \/ ChannelDown(t) \/ Silence(t)

Next ==
    \/ DeviceRuns
    \/ \E t \in Tabs : SocketEvent(t) \/ LinkEvent(t) \/ LinkEnds(t) \/ UserStep(t)
    \/ EnvironmentStep
    \/ NetworkBack

\* The device's loop, its network, and the last step of a handshake.
SharedFairness ==
    /\ WF_vars(DeviceRuns) /\ WF_vars(NetworkBack)
    /\ \A t \in Tabs : SF_vars(PcUp(t))
TabFairness(t) == WF_vars(SocketEvent(t)) /\ WF_vars(LinkEvent(t) \/ LinkEnds(t))

Fairness == SharedFairness /\ \A t \in Tabs : TabFairness(t)

Spec == Init /\ [][Next]_vars /\ Fairness

-----------------------------------------------------------------------------
(* Safety. *)

\* The device holds one signalling connection at most, and it is the one it
\* answers on: a connection accepted next to it, or kept after it was evicted or
\* ended, would keep one of the two ITS slots for good (webrtc_task.cpp:851-858).
OneHandle == held \subseteq {itsHandle} /\ (itsHandle # NoSocket => itsHandle \in held)

\* An offer travels on the socket of the generation that made it, and so does its
\* answer: whatever startWebRTC was suspended in, no peer connection is offered or
\* answered on the socket of another (webrtc-session.ts:200, which applies an
\* answer without a test, and :264-284, whose tests this rests on).
SdpFollowsSocket ==
    \A s \in Sockets :
        /\ \A i \in DOMAIN up[s] : up[s][i].kind = "offer" => up[s][i].of = s[2]
        /\ \A i \in DOMAIN down[s] : down[s][i].kind = "answer" => down[s][i].of = s[2]

EndComing(s) == \E i \in DOMAIN down[s] : down[s][i].kind \in Closings
Asking(s)    == \E i \in DOMAIN up[s] : up[s][i].kind \in {"ask", "force"}

\* A socket its tab takes for open or opening is held by the device, or the
\* device has still to hear of it, or its end is on the way: no tab waits for ever
\* on a socket the device has dropped without a word (webrtc_task.cpp:903-921).
SocketsAgree ==
    \A t \in Tabs : HasSocket(t) =>
        Mine(t) \in held \/ Asking(Mine(t)) \/ EndComing(Mine(t))

\* A tab that was refused, evicted, sent to the login page or closed has no
\* reconnect pending and no socket, whatever event of an earlier peer connection
\* or channel still comes in: two tabs would evict or refuse one another in turn
\* (webrtc-session.ts:9-11, :124 and :173).
NoAutoReconnect ==
    \A t \in Tabs : ~tab[t].want \/ tab[t].state \in Parked \cup {"idle"} =>
        ~tab[t].timer /\ ~HasSocket(t)

\* A tab that wants a session and shows "connecting" or "error" has a socket or a
\* reconnect pending: no order of events leaves it waiting for nothing
\* (webrtc-session.ts:122-129, :228-229, :247-251).
NeverStranded ==
    \A t \in Tabs : tab[t].want /\ tab[t].state \in {"connecting", "error"} =>
        tab[t].timer \/ HasSocket(t)

-----------------------------------------------------------------------------
(* Recovery. *)

\* The storage channel is there and the overlay is gone.
Restored(t) == Served(t) /\ ~tab[t].linkDown

\* The device's end of t's peer connection is gone, and the page will not rebuild it:
\* its link is marked down already, so that enterLinkDown returns at once
\* (device.ts:299), or its channel was never open, so that nothing watches it (:375).
CutShort(t) ==
    /\ tab[t].pc = "connected" /\ udp /\ ~Linked(t)
    /\ tab[t].linkDown \/ ~tab[t].ever

\* A tab that wants a session gets one, its dump included, whatever broke: a socket,
\* the network, the peer connection, silence (docs/webrtc.md:137-142).  Otherwise it
\* was refused or evicted, or its user left, or the device's end of a connection just
\* made went away before the dump over it had ended.
RepairedOf(t) == tab[t].want ~> Restored(t) \/ ~tab[t].want \/ CutShort(t)

-----------------------------------------------------------------------------
(* Violated. *)

\* "A clean browser reconnect releases the session via the signaling-WS close"
\* (webrtc_task.cpp:197): a page that had a link is not refused because of the
\* socket it closed itself before it asked again.
ReconnectNotBusy ==
    [][\A s \in Sockets : RefuseBusy(s) /\ tab[s[1]].ever => itsHandle[1] # s[1]]_vars
=============================================================================
