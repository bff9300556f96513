------------------------------ MODULE TsnOrder ------------------------------
(***************************************************************************)
(* What the inbound half of an SCTP association promises to the layer      *)
(* above it, without saying how: the chunks the peer sent are handed up in *)
(* TSN order, each at most once, and a chunk is passed over only when the  *)
(* peer itself abandoned it (FORWARD-TSN, RFC 3758).                       *)
(*                                                                         *)
(* The comment above processDataChunk (webrtc_sctp.cpp) is the promise:    *)
(* "Delivers strictly in TSN order".  SctpInbound implements it.           *)
(***************************************************************************)
EXTENDS Naturals, Sequences

VARIABLES
  sent,      \* how many chunks the peer has sent: TSNs 1..sent
  abandoned, \* the peer gave up every chunk it still owed up to this TSN
  cum,       \* everything up to this TSN is dealt with
  out        \* the TSNs handed up, in order

ordVars == <<sent, abandoned, cum, out>>

OrdInit ==
  /\ sent = 0
  /\ abandoned = 0
  /\ cum = 0
  /\ out = <<>>

\* The peer sends a message of one or more chunks.
OrdSend ==
  /\ sent' \in Nat
  /\ sent' > sent
  /\ UNCHANGED <<abandoned, cum, out>>

\* The peer gives up on a prefix of what it sent.
OrdAbandon ==
  /\ abandoned' \in (abandoned + 1)..sent
  /\ UNCHANGED <<sent, cum, out>>

\* The next chunk in order goes up.
OrdDeliver ==
  /\ cum < sent
  /\ cum' = cum + 1
  /\ out' = Append(out, cum + 1)
  /\ UNCHANGED <<sent, abandoned>>

\* An abandoned prefix is passed over.
OrdSkip ==
  /\ cum' \in (cum + 1)..abandoned
  /\ UNCHANGED <<sent, abandoned, out>>

\* The association ends; the next one starts from nothing.
OrdRestart ==
  /\ sent' = 0
  /\ abandoned' = 0
  /\ cum' = 0
  /\ out' = <<>>

OrdNext == OrdSend \/ OrdAbandon \/ OrdDeliver \/ OrdSkip \/ OrdRestart

OrdSpec == OrdInit /\ [][OrdNext]_ordVars
=============================================================================
