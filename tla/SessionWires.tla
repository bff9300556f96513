---------------------------- MODULE SessionWires ----------------------------
(***************************************************************************)
(* What runs between the browser tabs and the device while a WebRTC        *)
(* session is set up: the signalling WebSockets (/webrtc) and the identity *)
(* of the peer connection the device's DTLS session is keyed with.  Both   *)
(* ends, BrowserSession and WebrtcSignalling, extend this module.          *)
(*                                                                         *)
(* A socket is named by its tab and by the session generation that opened  *)
(* it; that generation's peer connection has the same name.  The code      *)
(* counts generations without bound and only compares them, so a number no *)
(* longer referred to is used again (IsFresh in BrowserSession).           *)
(*                                                                         *)
(* The sockets, TCP and ITS below them are outside the repository: each    *)
(* direction is a FIFO, what one end sends to an end that is no longer     *)
(* there is dropped.                                                       *)
(***************************************************************************)
EXTENDS Naturals, Sequences, FiniteSets

CONSTANTS
    Tabs,        \* browser tabs
    Gens,        \* bound: session generations referred to at the same time
    NoSocket

Sockets == Tabs \X Gens

ASSUME WiresAssumption == Gens \subseteq Nat \ {0} /\ NoSocket \notin Sockets

VARIABLES
    up,     \* socket -> what the browser sent and the device has not yet taken
    down,   \* socket -> what the device sent and the browser has not yet taken
    live,   \* sockets whose browser end still has its handlers
    held,   \* sockets whose ITS connection the device has accepted and not let go
    peer    \* the peer connection the device's DTLS session is with

wires == <<up, down, live, held, peer>>

\* The HTTP upgrade, with or without ?force=1; an SDP offer made by peer
\* connection `of`; the browser's close frame; the end of the TCP connection.
Upward   == {"ask", "force", "offer", "close", "gone"}
\* The upgrade's answer; an SDP answer to the offer of `of`; the close codes
\* 4401, 4409 and 4008; an end without a code (1006).
Closings == {"auth", "busy", "kick", "lost"}
Downward == {"open", "answer"} \cup Closings

Sdp(kind, g)  == [kind |-> kind, of |-> g]
Note(kind)    == [kind |-> kind, of |-> 0]
Messages(ks)  == [kind : ks, of : Gens \cup {0}]

WiresTypeOK ==
    /\ up \in [Sockets -> Seq(Messages(Upward))]
    /\ down \in [Sockets -> Seq(Messages(Downward))]
    /\ live \subseteq Sockets
    /\ held \subseteq Sockets
    /\ peer \in Sockets \cup {NoSocket}

WiresInit ==
    /\ up = [s \in Sockets |-> <<>>]
    /\ down = [s \in Sockets |-> <<>>]
    /\ live = {}
    /\ held = {}
    /\ peer = NoSocket

Heads(channel, s, kinds) == channel[s] # <<>> /\ Head(channel[s]).kind \in kinds
Taken(channel, s)        == [channel EXCEPT ![s] = Tail(@)]
Cleared(channel, s)      == [channel EXCEPT ![s] = <<>>]

\* The messages of the device for socket s, dropped when nobody listens.
ToBrowser(channel, s, msgs) ==
    IF s \in live THEN [channel EXCEPT ![s] = @ \o msgs] ELSE channel

\* A message of the browser on socket s, which the device has or will accept.
Reachable(s)   == s \in held \/ up[s] # <<>>
ToDevice(s, m) == IF Reachable(s) THEN [up EXCEPT ![s] = Append(@, m)] ELSE up
=============================================================================
