-------------------------- MODULE WebrtcSignalling --------------------------
(***************************************************************************)
(* The device's side of a session (esp-idf/src/webrtc_task.cpp): the one   *)
(* signalling handle, the DTLS session and the SCTP association behind it, *)
(* and everything that tears them down.                                    *)
(*                                                                         *)
(* Every handler runs on the webrtc task, so each is one step.  DTLS and   *)
(* the DTLS certificate are outside the repository: dtlsSetup succeeds,    *)
(* and a handshake is one step.  A datagram channel map is cleared with    *)
(* the session (WebrtcRouter has the channels).                            *)
(***************************************************************************)
EXTENDS SessionWires

VARIABLES
    itsHandle,     \* the socket of the active session
    dtls,          \* off: no session; ready: active, not connected; up: connected
    established,   \* sctp.established
    udp            \* the UDP socket is open and the network under it is up

device == <<itsHandle, dtls, established, udp>>

SignallingTypeOK ==
    /\ itsHandle \in Sockets \cup {NoSocket}
    /\ dtls \in {"off", "ready", "up"}
    /\ established \in BOOLEAN
    /\ udp \in BOOLEAN

SignallingInit ==
    /\ itsHandle = NoSocket
    /\ dtls = "off"
    /\ established = FALSE
    /\ udp = TRUE

\* webrtcSessionTeardown.
SessionTeardown ==
    /\ dtls' = "off"
    /\ peer' = NoSocket
    /\ established' = FALSE

\* Mutant of FreshTransport: a connected DTLS session is used on.
FreshTransportKept ==
    /\ dtls' = IF dtls = "up" THEN "up" ELSE "ready"
    /\ established' = FALSE
    /\ UNCHANGED peer
\* dtlsSessionFree (where `free` says so), dtlsSessionInit and sctpInit.
FreshTransport ==
    /\ dtls' = "ready"
    /\ peer' = NoSocket
    /\ established' = FALSE

-----------------------------------------------------------------------------
(* webrtcItsConnect, by outcome.  The upgrade is answered first, so the     *)
(* browser sees its socket open before any close code.                      *)

Refuse(s, code) ==
    /\ up' = Cleared(up, s)
    /\ down' = ToBrowser(down, s, <<Note("open"), Note(code)>>)
    /\ UNCHANGED <<live, held, peer, device>>

RefuseAuth(s) == Heads(up, s, {"ask", "force"}) /\ Refuse(s, "auth")

RefuseBusy(s) ==
    /\ Heads(up, s, {"ask"})
    /\ itsHandle # NoSocket
    /\ Refuse(s, "busy")

Accept(s) ==
    /\ Heads(up, s, {"ask", "force"})
    /\ itsHandle = NoSocket
    /\ itsHandle' = s
    /\ held' = held \cup {s}
    /\ up' = Taken(up, s)
    /\ down' = ToBrowser(down, s, <<Note("open")>>)
    /\ UNCHANGED <<live, peer, dtls, established, udp>>

\* Mutant of LetGo: the evicted connection is not disconnected.
LetGoNever(s) == held
\* itsDisconnect: the device ends the connection of socket s.
LetGo(s) == held \ {s}

\* Mutant of Eviction: the victim is not told that it was evicted.
EvictionUntold(victim) == down
Eviction(victim) == ToBrowser(down, victim, <<Note("kick")>>)

Evict(s) ==
    /\ Heads(up, s, {"force"})
    /\ itsHandle # NoSocket
    /\ itsHandle' = s
    /\ held' = LetGo(itsHandle) \cup {s}
    /\ up' = Cleared(Taken(up, s), itsHandle)
    /\ down' = ToBrowser(Eviction(itsHandle), s, <<Note("open")>>)
    /\ SessionTeardown
    /\ UNCHANGED <<live, udp>>

-----------------------------------------------------------------------------
(* The active handle. *)

\* handleSignalingMsg: the answer goes out before the transport is renewed.
HandleOffer(s) ==
    /\ s = itsHandle
    /\ Heads(up, s, {"offer"})
    /\ up' = Taken(up, s)
    /\ down' = ToBrowser(down, s, <<Sdp("answer", Head(up[s]).of)>>)
    /\ FreshTransport
    /\ UNCHANGED <<live, held, itsHandle, udp>>

\* wsReadFrame reads the close frame: the handle goes, the transport stays.
ReadClose(s) ==
    /\ s = itsHandle
    /\ Heads(up, s, {"close"})
    /\ itsHandle' = NoSocket
    /\ held' = LetGo(s)
    /\ up' = Cleared(up, s)
    /\ UNCHANGED <<down, live, peer, dtls, established, udp>>

\* webrtcItsDisconnect: ITS reports the end of a connection the device held;
\* the call-back does not look at which one.
ItsDisconnect(s) ==
    /\ s \in held
    /\ Heads(up, s, {"gone"})
    /\ held' = held \ {s}
    /\ up' = Cleared(up, s)
    /\ itsHandle' = NoSocket
    /\ IF itsHandle # NoSocket THEN SessionTeardown
                               ELSE UNCHANGED <<peer, dtls, established>>
    /\ UNCHANGED <<down, live, udp>>

-----------------------------------------------------------------------------
(* The datagram side. *)

\* handleUdpPacket: the handshake with peer connection p completes.
DtlsConnected(p) ==
    /\ udp /\ dtls = "ready"
    /\ dtls' = "up"
    /\ peer' = p
    /\ UNCHANGED <<up, down, live, held, itsHandle, established, udp>>

Secure(p) == udp /\ dtls = "up" /\ peer = p

\* handleUdpPacket: the peer's close_notify.
CloseNotify ==
    /\ udp /\ dtls = "up" /\ peer # NoSocket
    /\ FreshTransport
    /\ UNCHANGED <<up, down, live, held, itsHandle, udp>>

\* The task loop's check: an association, and no datagram from anyone for 8 s.
\* The signalling handle stays.
Inactivity ==
    /\ established
    /\ FreshTransport
    /\ UNCHANGED <<up, down, live, held, itsHandle, udp>>

\* onWifiUpChange, down; the change of the UDP port does the same and reopens.
NetworkDown ==
    /\ udp
    /\ udp' = FALSE
    /\ dtls' = IF dtls = "up" THEN "off" ELSE dtls
    /\ peer' = NoSocket
    /\ UNCHANGED <<up, down, live, held, itsHandle, established>>

NetworkUp ==
    /\ ~udp
    /\ udp' = TRUE
    /\ UNCHANGED <<wires, itsHandle, dtls, established>>
=============================================================================
