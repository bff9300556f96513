------------------------------ MODULE SafeMode ------------------------------
(***************************************************************************)
(* Backup and restore of the state store in a safe-mode boot               *)
(* (esp-idf/src/safe_mode.cpp).                                            *)
(*                                                                         *)
(* The handler of /backup runs on the web task and serves one request at a *)
(* time, from the check of the request to its answer; what interleaves     *)
(* with it are the clients, the storage task's flush, the two timers, and  *)
(* a loss of power.                                                        *)
(*                                                                         *)
(* Abstractions.  The store is the set of its files.  An upload's body is  *)
(* a sequence of tokens: "magic" (the first two bytes of a gzip stream) or *)
(* "junk", files, and "end" (the gzip footer).  Waiting has no length: a   *)
(* stalled upload may be given up, a timer may fire as soon as it runs.    *)
(* Factory reset is carried out outside this repository.                   *)
(*                                                                         *)
(* Outside the repository (spangap-core): a request for a safe-mode boot   *)
(* is one-shot; a boot that finds the marker of an unfinished restore, or  *)
(* an empty store, fills the store from the factory seeds; formatting      *)
(* either empties the store or fails; a flush writes what storage loaded   *)
(* at boot.                                                                *)
(***************************************************************************)
EXTENDS Naturals, Sequences, FiniteSets

CONSTANTS
    Clients,         \* connections to the safe-mode endpoint; each is used once
    Files,           \* files an archive or a store may hold
    Own,             \* the store the device starts with
    Factory,         \* the store a boot makes of the factory seeds
    Unreadable,      \* files the walk cannot read, or that lie beyond its caps
    Bodies,          \* the upload bodies clients send
    FormatOutcomes,  \* what fsFormatStateStore may return
    WriteOutcomes    \* what creating and writing a file may return

NoOne == "no one"

ASSUME SafeModeAssumption ==
    /\ Own \subseteq Files /\ Factory \subseteq Files /\ Unreadable \subseteq Files
    /\ Own # {} /\ Factory # {}
    /\ Bodies \subseteq Seq(Files \cup {"magic", "junk", "end"})
    /\ {"magic", "junk", "end"} \cap Files = {}
    /\ NoOne \notin Clients
    /\ FormatOutcomes \subseteq BOOLEAN /\ WriteOutcomes \subseteq BOOLEAN

\* Nothing follows the footer of an archive, and no archive is empty.
ASSUME BodiesAssumption ==
    \A b \in Bodies : \A i \in DOMAIN b : b[i] = "end" => i = Len(b) /\ i # 2

VARIABLES
    mode,      \* what this boot is for: none, backup or restore
    asked,     \* the mode the next boot is asked for
    store,     \* the files in the state store
    marker,    \* the marker of an unfinished restore
    booted,    \* the store as the running boot loaded it
    flushing,  \* storage still flushes
    rebooting, \* the reboot timer is armed
    conn,      \* client -> new, open, hungup or closed
    request,   \* client -> its request
    sent,      \* client -> tokens of the body sent so far
    told,      \* client -> the answer it got
    got,       \* client -> files of the archive it downloaded
    work,      \* what the handler is doing
    emptied    \* the client whose upload last formatted the store

device  == <<mode, asked, booted>>
clients == <<request, sent>>
vars    == <<mode, asked, store, marker, booted, flushing, rebooting, conn,
             request, sent, told, got, work, emptied>>

Modes == {"none", "backup", "restore"}

\* What the handler is doing, and for whom: the files still to walk; the tokens
\* that came with the head and those fed so far; what the extractor has met.
Work == [pc : {"idle", "walk", "peek", "format", "mark", "feed"},
         conn : Clients \cup {NoOne}, todo : SUBSET Files, pre : Nat, pos : Nat,
         failed : BOOLEAN, footer : BOOLEAN]
Idle == [pc |-> "idle", conn |-> NoOne, todo |-> {}, pre |-> 0, pos |-> 0,
         failed |-> FALSE, footer |-> FALSE]

\* authed: the session cookie of the admin realm; foreign: the name of the
\* upload begins with the stub of another firmware.
Request == [verb : {"get", "cancel", "put"}, authed : BOOLEAN,
            foreign : BOOLEAN, body : Bodies \cup {<<>>}]

Body(c)       == request[c].body
FilesIn(b)    == {f \in Files : \E i \in DOMAIN b : b[i] = f}
IsArchive(b)  == /\ Len(b) > 2 /\ b[1] = "magic" /\ b[Len(b)] = "end"
                 /\ \A i \in 2 .. (Len(b) - 1) : b[i] \in Files

Init ==
    /\ mode = "none" /\ asked = "none"
    /\ store = Own /\ booted = Own
    /\ marker = FALSE
    /\ flushing = TRUE /\ rebooting = FALSE
    /\ conn = [c \in Clients |-> "new"]
    /\ request = [c \in Clients |-> [verb |-> "get", authed |-> FALSE,
                                     foreign |-> FALSE, body |-> <<>>]]
    /\ sent = [c \in Clients |-> 0]
    /\ told = [c \in Clients |-> "nothing"]
    /\ got = [c \in Clients |-> {}]
    /\ work = Idle
    /\ emptied = NoOne

-----------------------------------------------------------------------------
(* The clients, the storage task and the boot (outside the repository). *)

\* A client of the endpoint; only an upload has a body.
SendRequest(c) ==
    /\ mode # "none" /\ conn[c] = "new"
    /\ \E r \in Request :
         /\ r.verb # "put" => r.body = <<>> /\ ~r.foreign
         /\ request' = [request EXCEPT ![c] = r]
    /\ conn' = [conn EXCEPT ![c] = "open"]
    /\ UNCHANGED <<device, store, marker, flushing, rebooting, sent, told, got, work, emptied>>

SendToken(c) ==
    /\ conn[c] = "open" /\ sent[c] < Len(Body(c))
    /\ sent' = [sent EXCEPT ![c] = @ + 1]
    /\ UNCHANGED <<device, store, marker, flushing, rebooting, conn, request, told, got,
                   work, emptied>>

HangUp(c) ==
    /\ conn[c] = "open"
    /\ conn' = [conn EXCEPT ![c] = "hungup"]
    /\ UNCHANGED <<device, store, marker, flushing, rebooting, clients, told, got, work, emptied>>

Flush ==
    /\ mode # "none" /\ flushing
    /\ store' = store \cup booted
    /\ UNCHANGED <<device, marker, flushing, rebooting, conn, clients, told, got, work, emptied>>

Boot ==
    /\ mode' = asked /\ asked' = "none"
    /\ store' = IF marker \/ store = {} THEN Factory ELSE store
    /\ booted' = store'
    /\ marker' = FALSE
    /\ flushing' = TRUE /\ rebooting' = FALSE
    /\ conn' = [c \in Clients |-> IF conn[c] = "new" THEN "new" ELSE "closed"]
    /\ work' = Idle
    /\ UNCHANGED <<clients, told, got, emptied>>

\* The operator asks for a safe-mode boot: a storage write (see lib/safeMode).
Ask(m) ==
    /\ mode = "none" /\ asked = "none" /\ m \in {"backup", "restore"}
    /\ asked' = m
    /\ UNCHANGED <<mode, store, marker, booted, flushing, rebooting, conn, clients, told,
                   got, work, emptied>>

AskedReboot  == asked # "none" /\ Boot
RebootTimer  == rebooting /\ Boot
Deadline     == mode # "none" /\ Boot
PowerLoss    == mode # "none" /\ Boot

-----------------------------------------------------------------------------
(* safeModeHandler and the answers. *)

\* An answer reaches the client unless it is gone; the connection is closed.
Answer(c, answer) ==
    /\ told' = [told EXCEPT ![c] = IF conn[c] = "open" THEN answer ELSE @]
    /\ conn' = [conn EXCEPT ![c] = "closed"]

Waiting(c) == work = Idle /\ mode # "none" /\ conn[c] \in {"open", "hungup"}

\* bail: 401 without a session, 404 for an endpoint this boot does not have.
Refuse(c) ==
    /\ Waiting(c)
    /\ \/ ~request[c].authed
       \/ request[c].verb = "get" /\ mode = "restore"
       \/ request[c].verb = "put" /\ mode = "backup"
    /\ Answer(c, "refused")
    /\ UNCHANGED <<device, store, marker, flushing, rebooting, clients, got, work, emptied>>

Cancel(c) ==
    /\ Waiting(c) /\ request[c].authed /\ request[c].verb = "cancel" /\ mode = "restore"
    /\ Answer(c, "cancelled")
    /\ rebooting' = TRUE
    /\ UNCHANGED <<device, store, marker, flushing, clients, got, work, emptied>>

-----------------------------------------------------------------------------
(* handleBackup: the walk, one file per step. *)

\* Any GET starts the backup.  When the response head cannot be sent the handler
\* returns without a reboot.
BackupStart(c) ==
    /\ Waiting(c) /\ request[c].authed /\ request[c].verb # "put" /\ mode = "backup"
    /\ \/ /\ conn[c] = "open"
          /\ work' = [Idle EXCEPT !.pc = "walk", !.conn = c, !.todo = store]
          /\ UNCHANGED conn
       \/ /\ conn' = [conn EXCEPT ![c] = "closed"]
          /\ UNCHANGED work
    /\ UNCHANGED <<device, store, marker, flushing, rebooting, clients, told, got, emptied>>

\* A file that cannot be read is left out.
BackupFile(f) ==
    /\ work.pc = "walk" /\ f \in work.todo /\ conn[work.conn] = "open"
    /\ work' = [work EXCEPT !.todo = @ \ {f}]
    /\ got' = [got EXCEPT ![work.conn] = @ \cup ({f} \ Unreadable)]
    /\ UNCHANGED <<device, store, marker, flushing, rebooting, conn, clients, told, emptied>>

\* Mutant of BackupEnd: the terminating chunk is sent however the walk ended.
BackupEndAlways ==
    /\ work.pc = "walk"
    /\ Answer(work.conn, "whole")
    /\ work' = Idle /\ rebooting' = TRUE
    /\ UNCHANGED <<device, store, marker, flushing, clients, got, emptied>>
\* The terminating chunk is sent if every write went through; a write fails
\* when the client is gone, and for want of memory or of drain at any time.
BackupEnd ==
    /\ work.pc = "walk"
    /\ \/ work.todo = {} /\ Answer(work.conn, "whole")
       \/ Answer(work.conn, "cut")
    /\ work' = Idle /\ rebooting' = TRUE
    /\ UNCHANGED <<device, store, marker, flushing, clients, got, emptied>>

-----------------------------------------------------------------------------
(* handleRestore. *)

\* Mutant of Readable: what the head declared is taken for what has arrived.
ReadableUnsent(c) == conn[c] # "closed" /\ work.pos < Len(Body(c))
\* Body bytes the handler can still read: those that came with the head, and
\* the rest of what was sent while the connection is not closed from this side.
Readable(c) ==
    work.pos < work.pre \/ (conn[c] # "closed" /\ work.pos < sent[c])

\* The name check and the body header; n tokens came with the head.  A refusal
\* answers and closes, and the handler goes on.
RestoreStart(c) ==
    /\ Waiting(c) /\ request[c].authed /\ request[c].verb = "put" /\ mode = "restore"
    /\ \E n \in 0 .. sent[c] :
         work' = [Idle EXCEPT !.pc = "peek", !.conn = c, !.pre = n]
    /\ IF request[c].foreign \/ Body(c) = <<>>
       THEN Answer(c, "refused")
       ELSE UNCHANGED <<told, conn>>
    /\ UNCHANGED <<device, store, marker, flushing, rebooting, clients, got, emptied>>

\* The first bytes are read ahead.  Without a gzip magic the upload is refused,
\* and the handler goes on.
Peek ==
    /\ work.pc = "peek"
    /\ LET c == work.conn IN
       \/ /\ Readable(c) /\ Body(c)[1] = "magic"
          /\ UNCHANGED <<told, conn>>
       \/ /\ ~ (Readable(c) /\ Body(c)[1] = "magic")
          /\ Answer(c, "refused")
    /\ work' = [work EXCEPT !.pc = "format",
                            !.pre = IF @ = 0 /\ Readable(work.conn) THEN 1 ELSE @]
    /\ UNCHANGED <<device, store, marker, flushing, rebooting, clients, got, emptied>>

\* The point of no return.
Format ==
    /\ work.pc = "format"
    /\ flushing' = FALSE
    /\ \E ok \in FormatOutcomes :
         \/ ok /\ store' = {} /\ UNCHANGED <<told, conn>>
         \/ ~ok /\ Answer(work.conn, "refused") /\ UNCHANGED store
    /\ work' = [work EXCEPT !.pc = "mark"]
    /\ emptied' = work.conn
    /\ UNCHANGED <<device, marker, rebooting, clients, got>>

\* Mutant of SetMarker: the marker is left out.
SetNoMarker ==
    /\ work.pc = "mark"
    /\ work' = [work EXCEPT !.pc = "feed"]
    /\ UNCHANGED <<device, marker, store, flushing, rebooting, conn, clients, told, got, emptied>>
SetMarker ==
    /\ work.pc = "mark"
    /\ marker' = TRUE
    /\ work' = [work EXCEPT !.pc = "feed"]
    /\ UNCHANGED <<device, store, flushing, rebooting, conn, clients, told, got, emptied>>

\* One token of the body goes through the extractor.
Feed ==
    /\ work.pc = "feed" /\ ~work.failed /\ Readable(work.conn)
    /\ LET token == Body(work.conn)[work.pos + 1] IN
       \/ /\ token = "magic" /\ work.pos = 0
          /\ work' = [work EXCEPT !.pos = @ + 1]
          /\ UNCHANGED store
       \/ /\ token \in Files /\ work.pos > 0
          /\ \E ok \in WriteOutcomes :
               /\ work' = [work EXCEPT !.pos = @ + 1, !.failed = ~ok]
               /\ store' = IF ok THEN store \cup {token} ELSE store
       \/ /\ token = "end" /\ work.pos > 0
          /\ work' = [work EXCEPT !.pos = @ + 1, !.footer = TRUE]
          /\ UNCHANGED store
       \/ /\ token = "junk" \/ (token = "magic") # (work.pos = 0)
          /\ work' = [work EXCEPT !.pos = @ + 1, !.failed = TRUE]
          /\ UNCHANGED store
    /\ UNCHANGED <<device, marker, flushing, rebooting, conn, clients, told, got, emptied>>

\* Mutant of Extracted: the end of the upload is taken for the end of the archive.
ExtractedAll == ~work.failed
\* targzReaderFinish: no error, and the footer was seen.
Extracted == ~work.failed /\ work.footer

\* Mutant of Finish: the marker is cleared however the restore ended.
FinishUnmarked ==
    /\ work.pc = "feed" /\ (work.failed \/ ~Readable(work.conn))
    /\ Answer(work.conn, IF Extracted THEN "ok" ELSE "failed")
    /\ marker' = FALSE
    /\ work' = Idle /\ rebooting' = TRUE
    /\ UNCHANGED <<device, store, flushing, clients, got, emptied>>
\* The body has ended, by its length, by a lost connection, by a stall, or the
\* extractor failed.
Finish ==
    /\ work.pc = "feed" /\ (work.failed \/ ~Readable(work.conn))
    /\ Answer(work.conn, IF Extracted THEN "ok" ELSE "failed")
    /\ marker' = IF Extracted THEN FALSE ELSE marker
    /\ work' = Idle /\ rebooting' = TRUE
    /\ UNCHANGED <<device, store, flushing, clients, got, emptied>>

-----------------------------------------------------------------------------

Handler ==
    \/ \E c \in Clients : Refuse(c) \/ Cancel(c) \/ BackupStart(c) \/ RestoreStart(c)
    \/ \E f \in Files : BackupFile(f)
    \/ BackupEnd \/ Peek \/ Format \/ SetMarker \/ Feed \/ Finish

Next ==
    \/ \E c \in Clients : SendRequest(c) \/ SendToken(c) \/ HangUp(c)
    \/ \E m \in Modes : Ask(m)
    \/ Flush
    \/ AskedReboot \/ RebootTimer \/ Deadline \/ PowerLoss
    \/ Handler

Spec == Init /\ [][Next]_vars

-----------------------------------------------------------------------------
(* Properties. *)

Answers == {"nothing", "refused", "cancelled", "whole", "cut", "ok", "failed"}

\* Every variable keeps its shape, and no byte is read before it was sent.
TypeOK ==
    /\ mode \in Modes /\ asked \in Modes
    /\ store \in SUBSET Files /\ booted \in SUBSET Files
    /\ marker \in BOOLEAN /\ flushing \in BOOLEAN /\ rebooting \in BOOLEAN
    /\ conn \in [Clients -> {"new", "open", "hungup", "closed"}]
    /\ request \in [Clients -> Request]
    /\ sent \in [Clients -> Nat]
    /\ \A c \in Clients : sent[c] <= Len(Body(c))
    /\ told \in [Clients -> Answers]
    /\ got \in [Clients -> SUBSET Files]
    /\ work \in Work
    /\ work.pc = "feed" => work.pos <= sent[work.conn]
    /\ emptied \in Clients \cup {NoOne}

\* "Every failure lands here rather than in a plausible-looking corrupt store":
\* a boot runs on the device's own store, on the factory one, or on all of one
\* archive, wherever a restore was cut.
NothingPartialBoots ==
    \/ booted \in {Own, Factory}
    \/ \E b \in Bodies : IsArchive(b) /\ booted = FilesIn(b)

\* Until another upload formats the store, an upload answered with ok is what
\* the store holds, now and after every boot.
OkMeansRestored ==
    \A c \in Clients :
        told[c] = "ok" /\ emptied = c =>
            IsArchive(Body(c)) /\ store = FilesIn(Body(c)) /\ ~marker

\* The page says after a failed upload: "The device is restarting from factory
\* defaults."  The store is the factory one, or the marker sees to it.
FailedMeansFactory ==
    \A c \in Clients :
        told[c] = "failed" /\ emptied = c => marker \/ store = Factory

\* A download that ends with its terminating chunk holds every file of the
\* store that can be read.
BackupWhole ==
    [][\A c \in Clients :
         told[c] # "whole" /\ told'[c] = "whole" => store \ Unreadable \subseteq got[c]]_vars

\* "so an operator who uploaded the wrong file still has their device": an
\* upload that is refused has not formatted the store.
RefusedKeepsStore ==
    \A c \in Clients : told[c] = "refused" => emptied # c
=============================================================================
