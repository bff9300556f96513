--------------------------- MODULE BrowserSession ---------------------------
(***************************************************************************)
(* The browser's side of a session: the singleton of                       *)
(* browser/src/lib/webrtc-session.ts with its ReconnectTimer, and the part *)
(* of the device store (browser/src/stores/device.ts) that watches the     *)
(* link through its storage:1 channel and has the session rebuilt.         *)
(*                                                                         *)
(* A tab runs one event handler at a time, so a handler is one step; only  *)
(* startWebRTC is suspended, between the making of an offer and its        *)
(* sending (its three awaits are one).  Browser objects are modelled from  *)
(* how the code uses them: a data channel whose peer connection was closed *)
(* reports its close some time later, if it still has its handler.         *)
(***************************************************************************)
EXTENDS SessionWires

VARIABLES
    tab,       \* tab -> the session and the link state of its page
    awaiting   \* tab -> generations whose startWebRTC is suspended

browser == <<tab, awaiting>>

Parked == {"busy", "kicked", "auth"}
SessionState == {"idle", "connecting", "connected", "error"} \cup Parked

\* gen 0: a teardown has moved the generation on and nothing carries the new one.
Page == [state : SessionState, want : BOOLEAN, timer : BOOLEAN,
         gen : Gens \cup {0},
         ws : {"none", "opening", "open", "closed"},
         pc : {"none", "new", "answered", "connected"},
         dc : {"none", "connecting", "open", "closing"},
         ever : BOOLEAN, linkDown : BOOLEAN]

NewPage == [state |-> "idle", want |-> FALSE, timer |-> FALSE, gen |-> 0,
            ws |-> "none", pc |-> "none", dc |-> "none",
            ever |-> FALSE, linkDown |-> FALSE]

BrowserTypeOK ==
    /\ tab \in [Tabs -> Page]
    /\ awaiting \in [Tabs -> SUBSET Gens]

BrowserInit ==
    /\ tab = [t \in Tabs |-> NewPage]
    /\ awaiting = [t \in Tabs |-> {}]

Mine(t)      == <<t, tab[t].gen>>
HasSocket(t) == tab[t].ws \in {"opening", "open"}
Becomes(t, page) == tab' = [tab EXCEPT ![t] = page]

-----------------------------------------------------------------------------
(* teardown: the generation moves on, the peer connection and the socket go. *)

TornDown(page) ==
    [page EXCEPT !.gen = 0, !.ws = "none", !.pc = "none",
                 !.dc = IF @ = "none" THEN @ ELSE "closing"]

\* The end of the tab's socket as the device will see it: a close frame, or
\* the end of a connection that was not open yet.  An open event that is already
\* queued is still dispatched (teardown leaves onopen in place).
Goodbye(t) == Note(IF tab[t].ws = "open" THEN "close" ELSE "gone")
Undelivered(t) ==
    IF tab[t].ws = "opening" /\ Heads(down, Mine(t), {"open"})
    THEN <<Head(down[Mine(t)])>> ELSE <<>>

UpWithout(t)   == IF HasSocket(t) THEN ToDevice(Mine(t), Goodbye(t)) ELSE up
DownWithout(t) == IF HasSocket(t) THEN [down EXCEPT ![Mine(t)] = Undelivered(t)]
                                  ELSE down
CloseSocket(t) ==
    /\ up' = UpWithout(t)
    /\ down' = DownWithout(t)
    /\ live' = live \ {Mine(t)}
    /\ UNCHANGED <<held, peer>>

\* Mutant of Rearm: a terminal state schedules a reconnect too.
RearmAlways(page) == [page EXCEPT !.timer = TRUE]
\* scheduleReconnect.
Rearm(page) ==
    IF page.want /\ page.state \notin Parked THEN [page EXCEPT !.timer = TRUE]
                                             ELSE page

-----------------------------------------------------------------------------
(* connect and openSignaling. *)

IsFresh(t, g) ==
    /\ g \notin awaiting[t] /\ (HasSocket(t) => g # tab[t].gen)
    /\ <<t, g>> \notin held /\ <<t, g>> # peer
    /\ up[<<t, g>>] = <<>> /\ down[<<t, g>>] = <<>>
Lowest(t, g) == IsFresh(t, g) /\ \A h \in Gens : IsFresh(t, h) => g <= h

\* openSignaling, from a page whose wantConnected is set.  (new WebSocket throws for
\* a malformed address only, and the address is made from the page's own.)
OpenSignaling(t, kind) ==
    \E g \in Gens :
        /\ Lowest(t, g)
        /\ Becomes(t, [TornDown(tab[t]) EXCEPT !.want = TRUE, !.timer = FALSE,
                           !.state = "connecting", !.gen = g, !.ws = "opening"])
        /\ up' = [UpWithout(t) EXCEPT ![<<t, g>>] = <<Note(kind)>>]
        /\ down' = DownWithout(t)
        /\ live' = (live \ {Mine(t)}) \cup {<<t, g>>}
        /\ UNCHANGED <<held, peer, awaiting>>

\* connect() has nothing to open, but wantConnected is set before it looks.
Engaged(page) == page.state \in {"connecting", "connected"}

\* connect(): the store's connect, a window that opens, the page made visible
\* again, the return from the login page.
Connect(t) ==
    \/ ~Engaged(tab[t]) /\ OpenSignaling(t, "ask")
    \/ /\ Engaged(tab[t])
       /\ Becomes(t, [tab[t] EXCEPT !.want = TRUE])
       /\ UNCHANGED <<wires, awaiting>>

\* connect({force: true}): the user's "Take over".
TakeOver(t) == tab[t].state \in Parked /\ OpenSignaling(t, "force")

TimerFires(t) ==
    /\ tab[t].timer
    /\ IF tab[t].want THEN OpenSignaling(t, "ask")
       ELSE /\ Becomes(t, [tab[t] EXCEPT !.timer = FALSE])
            /\ UNCHANGED <<wires, awaiting>>

\* close(): the reboot overlay ends the session.
Close(t) ==
    /\ tab[t].state # "idle"
    /\ Becomes(t, [TornDown(tab[t]) EXCEPT !.want = FALSE, !.timer = FALSE,
                                           !.state = "idle"])
    /\ CloseSocket(t)
    /\ UNCHANGED awaiting

-----------------------------------------------------------------------------
(* The signalling socket's events. *)

\* onopen, and startWebRTC up to its first await; buildChannel drops the handler
\* of an earlier channel.
WsOpen(t, g) ==
    /\ Heads(down, <<t, g>>, {"open"})
    /\ down' = Taken(down, <<t, g>>)
    /\ IF g = tab[t].gen
       THEN /\ Becomes(t, [tab[t] EXCEPT !.ws = "open", !.timer = FALSE,
                                         !.pc = "new", !.dc = "connecting"])
            /\ awaiting' = [awaiting EXCEPT ![t] = @ \cup {g}]
       ELSE UNCHANGED browser
    /\ UNCHANGED <<up, live, held, peer>>

\* Mutant of Current: nothing is tested after the awaits.
CurrentUntested(t, g) == TRUE
\* gen === this.generation, after the awaits
Current(t, g) == g = tab[t].gen

\* startWebRTC after its awaits, and sendSignaling.
SendOffer(t, g) ==
    /\ g \in awaiting[t]
    /\ awaiting' = [awaiting EXCEPT ![t] = @ \ {g}]
    /\ up' = IF Current(t, g) /\ tab[t].ws = "open"
             THEN ToDevice(Mine(t), Sdp("offer", g)) ELSE up
    /\ UNCHANGED <<down, live, held, peer, tab>>

\* onmessage
WsAnswer(t) ==
    /\ tab[t].ws = "open" /\ Heads(down, Mine(t), {"answer"})
    /\ down' = Taken(down, Mine(t))
    /\ Becomes(t, [tab[t] EXCEPT !.pc = IF @ = "new" THEN "answered" ELSE @])
    /\ UNCHANGED <<up, live, held, peer, awaiting>>

\* Mutant of ClosedWith: the close code itself is shown as the state.
ClosedWithCode(page, code) ==
    [page EXCEPT !.ws = "closed", !.want = FALSE, !.state = code]
\* onclose
ClosedWith(page, code) ==
    LET closed == [page EXCEPT !.ws = "closed"]
        parked(state) == [closed EXCEPT !.want = FALSE, !.state = state]
    IN  CASE code = "auth" -> parked("auth")
          [] code = "busy" -> parked("busy")
          [] code = "kick" -> parked("kicked")
          [] code = "lost" -> Rearm([closed EXCEPT !.state = "error"])

WsClose(t) ==
    /\ HasSocket(t) /\ Heads(down, Mine(t), Closings)
    /\ Becomes(t, ClosedWith(tab[t], Head(down[Mine(t)]).kind))
    /\ down' = Cleared(down, Mine(t))
    /\ live' = live \ {Mine(t)}
    /\ UNCHANGED <<up, held, peer, awaiting>>

-----------------------------------------------------------------------------
(* The peer connection's events; WebrtcSession says when they can come. *)

\* onconnectionstatechange: connected
PcConnected(t) ==
    /\ tab[t].pc = "answered"
    /\ Becomes(t, [tab[t] EXCEPT !.pc = "connected", !.state = "connected"])
    /\ UNCHANGED <<wires, awaiting>>

\* Mutant of Failed: no reconnect is scheduled.
FailedForGood(page) == [TornDown(page) EXCEPT !.state = "error"]
\* onconnectionstatechange: failed
Failed(page) == Rearm([TornDown(page) EXCEPT !.state = "error"])

PcFailed(t) ==
    /\ tab[t].pc \in {"answered", "connected"}
    /\ Becomes(t, Failed(tab[t]))
    /\ CloseSocket(t)
    /\ UNCHANGED awaiting

-----------------------------------------------------------------------------
(* The device store. *)

DcOpen(t) ==
    /\ tab[t].pc = "connected" /\ tab[t].dc = "connecting"
    /\ Becomes(t, [tab[t] EXCEPT !.dc = "open", !.ever = TRUE])
    /\ UNCHANGED <<up, down, live, held, peer, awaiting>>

\* onmessage {__dump:'e'}: clearLinkDown
DumpEnd(t) ==
    /\ tab[t].dc = "open" /\ tab[t].linkDown
    /\ Becomes(t, [tab[t] EXCEPT !.linkDown = FALSE])
    /\ UNCHANGED <<wires, awaiting>>

\* refresh() has something to do.
Refreshes(page) == page.want /\ page.state \notin Parked
\* refresh
Refreshed(page) == Rearm([TornDown(page) EXCEPT !.state = "connecting"])

\* enterLinkDown, on a page the event handler has already changed.
EnterLinkDown(t, page) ==
    LET marked == [page EXCEPT !.linkDown = TRUE]
    IN  IF ~page.linkDown /\ Refreshes(page)
        THEN Becomes(t, Refreshed(marked)) /\ CloseSocket(t)
        ELSE Becomes(t, marked) /\ UNCHANGED wires

\* dc.onclose
DcClose(t) ==
    /\ tab[t].dc # "none"
    /\ LET closed == [tab[t] EXCEPT !.dc = "none"]
       IN  IF closed.ever THEN EnterLinkDown(t, closed)
           ELSE Becomes(t, closed) /\ UNCHANGED wires
    /\ UNCHANGED awaiting

\* The heartbeat finds more than LINK_DOWN_MS of silence.  Its timer is stopped
\* only where the link is marked down, so it runs whenever it has something to do.
Heartbeat(t) ==
    /\ tab[t].ever /\ ~tab[t].linkDown
    /\ EnterLinkDown(t, tab[t])
    /\ UNCHANGED awaiting

-----------------------------------------------------------------------------
(* The page goes: its script and its sockets end with it. *)

Gone(t) ==
    /\ tab[t] # NewPage
    /\ Becomes(t, NewPage)
    /\ awaiting' = [awaiting EXCEPT ![t] = {}]
    /\ live' = live \ {Mine(t)}
    /\ down' = [s \in Sockets |-> IF s[1] = t THEN <<>> ELSE down[s]]

\* beforeunload, a navigation or a closed tab: the device is told.  (The page goes:
\* no handler of the application asks the browser to let its user cancel.)
Leave(t) ==
    /\ Gone(t)
    /\ up' = IF HasSocket(t) THEN ToDevice(Mine(t), Note("gone")) ELSE up
    /\ UNCHANGED <<held, peer>>

\* A crash, a sleeping phone: the device is told nothing.  (A page that vanishes
\* during the upgrade is left out.)
Vanish(t) ==
    /\ tab[t].ws # "opening"
    /\ Gone(t)
    /\ peer' = IF peer = Mine(t) THEN NoSocket ELSE peer
    /\ UNCHANGED <<up, held>>
=============================================================================
