------------------------------ MODULE Handshake ------------------------------
(***************************************************************************)
(* How a connection to a client comes up (src/src/quic_transport/          *)
(* endpoint.rs, tls.rs, protocol.rs and connect_to_handle of connect.rs):  *)
(* dial_any races the addresses of one client, every TLS handshake checks  *)
(* the certificate against the one pin file of that client, and the        *)
(* winning connection exchanges Hello frames.  A machine on the network is *)
(* its certificate.  The dialling side finishes the TLS handshake before   *)
(* the other side has looked at its certificate, so a refusal arrives on a *)
(* connection that dial_any already returned.  At the end: the channel     *)
(* that carries an event, and the datagram that does not fit.              *)
(***************************************************************************)
EXTENDS Naturals

CONSTANTS Addr, Primary, Host, None
VARIABLES at,       \* the machine that answers at each address, or None
          allows,   \* the machines whose authorized_fingerprints hold ours
          pin,      \* the pin file of the client: a certificate, or None
          dials,    \* the join set of dial_any, per address
          phase,    \* "rest", "head" (head start), "all", "hello", "up"
          link,     \* the connection dial_any returned
          rejected  \* machines that raised ListenEvent::Rejected for us

hsVars == <<at, allows, pin, dials, phase, link, rejected>>

NoLink == [host |-> None, client |-> "none", server |-> "none"]
Idle == [a \in Addr |-> "idle"]

HsTypeOK ==
  /\ at \in [Addr -> Host \cup {None}]
  /\ allows \subseteq Host
  /\ pin \in Host \cup {None}
  /\ dials \in [Addr -> {"idle", "dialing", "open", "failed"}]
  /\ phase \in {"rest", "head", "all", "hello", "up"}
  /\ rejected \subseteq Host

HsInit ==
  /\ at \in [Addr -> Host \cup {None}]
  /\ allows \in SUBSET Host
  /\ pin \in Host \cup {None}
  /\ dials = Idle
  /\ phase = "rest"
  /\ link = NoLink
  /\ rejected = {}

-----------------------------------------------------------------------------
(* The dial race *)

(* connect_to_handle up to dial_any: the primary address starts alone. *)
Dial ==
  /\ phase = "rest"
  /\ phase' = "head"
  /\ dials' = [Idle EXCEPT ![Primary] = "dialing"]
  /\ UNCHANGED <<at, allows, pin, link, rejected>>

(* First contact pins the certificate, later ones must match it. *)
verify_server_cert(fp) ==
  IF pin = None
  THEN [pin |-> fp, ok |-> TRUE]
  ELSE [pin |-> pin, ok |-> pin = fp]

(* The TLS handshake at one address ends for the dialling side.  The      *)
(* verifier reads and writes the pin file in one uninterrupted call.      *)
Handshake(a) ==
  /\ dials[a] = "dialing"
  /\ IF at[a] = None
     THEN /\ dials' = [dials EXCEPT ![a] = "failed"]
          /\ UNCHANGED pin
     ELSE LET v == verify_server_cert(at[a])
          IN  /\ pin' = v.pin
              /\ dials' = [dials EXCEPT ![a] = IF v.ok THEN "open" ELSE "failed"]
  /\ UNCHANGED <<at, allows, phase, link, rejected>>

(* The head start is over (or its only dial failed): every other address. *)
HeadStartOver ==
  /\ phase = "head"
  /\ phase' = "all"
  /\ dials' = [a \in Addr |-> IF dials[a] = "idle" THEN "dialing" ELSE dials[a]]
  /\ UNCHANGED <<at, allows, pin, link, rejected>>

(* join_next yields an open connection: the rest is aborted and Hello     *)
(* starts on the winner (from_connection, client_hello).                  *)
Win(a) ==
  /\ phase \in {"head", "all"}
  /\ dials[a] = "open"
  /\ phase' = "hello"
  /\ dials' = Idle
  /\ link' = [host |-> at[a], client |-> "hello", server |-> "tls"]
  /\ UNCHANGED <<at, allows, pin, rejected>>

(* Every dial failed: the error is recorded for the backoff. *)
AllFailed ==
  /\ phase = "all"
  /\ \A a \in Addr : dials[a] = "failed"
  /\ phase' = "rest"
  /\ dials' = Idle
  /\ UNCHANGED <<at, allows, pin, link, rejected>>

-----------------------------------------------------------------------------
(* Both ends of the Hello exchange on the connection that won *)

(* verify_client_cert of the machine at the other end: an unlisted        *)
(* fingerprint is reported (forwarded as ListenEvent::Rejected) and the   *)
(* connection is closed.                                                  *)
verify_client_cert ==
  /\ link.server = "tls"
  /\ IF link.host \in allows
     THEN /\ link' = [link EXCEPT !.server = "accept"]
          /\ UNCHANGED rejected
     ELSE /\ link' = [link EXCEPT !.server = "closed"]
          /\ rejected' = rejected \cup {link.host}
  /\ UNCHANGED <<at, allows, pin, dials, phase>>

(* server_hello: accept_bi, the client's Hello, its magic, the answer.    *)
(* It waits for the stream without a timeout and for the frame with one;  *)
(* a foreign magic, another frame and the timeout close the connection.   *)
server_hello ==
  /\ link.server = "accept"
  /\ link.client \in {"wait", "failed"}
  /\ \E outcome \in IF link.client = "wait" THEN {"ok", "closed"} ELSE {"closed"} :
       link' = [link EXCEPT !.server = outcome]
  /\ UNCHANGED <<at, allows, pin, dials, phase, rejected>>

(* client_hello opens stream A and writes its Hello. *)
ClientSends ==
  /\ link.client = "hello"
  /\ link' = [link EXCEPT !.client = "wait"]
  /\ UNCHANGED <<at, allows, pin, dials, phase, rejected>>


(* The answer of the other side is read back. *)
ClientHelloAnswered == link.client = "wait" /\ link.server = "ok"

(* client_hello returns Ok and connect_to_handle registers the session. *)
ClientReads ==
  /\ ClientHelloAnswered
  /\ link' = [link EXCEPT !.client = "ok"]
  /\ phase' = "up"
  /\ UNCHANGED <<at, allows, pin, dials, rejected>>

(* client_hello fails: the connection closed under it, its timeout, or a  *)
(* wrong answer; connect_to_handle records the failure and drops the      *)
(* session.                                                               *)
ClientFails ==
  /\ link.client \in {"hello", "wait"}
  /\ link' = [link EXCEPT !.client = "failed"]
  /\ phase' = "rest"
  /\ UNCHANGED <<at, allows, pin, dials, rejected>>

(* The connection is lost later, or by the server's refusal. *)
LinkLost ==
  /\ phase = "up"
  /\ link' = [link EXCEPT !.client = "failed"]
  /\ phase' = "rest"
  /\ UNCHANGED <<at, allows, pin, dials, rejected>>

-----------------------------------------------------------------------------
(* The user: authorising a rejected fingerprint, deleting a pin file to   *)
(* pair again; and an address that another machine takes over.            *)
Authorize ==
  \E h \in rejected :
    /\ allows' = allows \cup {h}
    /\ rejected' = rejected \ {h}
    /\ UNCHANGED <<at, pin, dials, phase, link>>

DeletePin ==
  /\ phase = "rest"
  /\ pin' = None
  /\ link' = NoLink
  /\ UNCHANGED <<at, allows, dials, phase, rejected>>

Readdress ==
  /\ phase = "rest"
  /\ \E a \in Addr, h \in Host \cup {None} : at' = [at EXCEPT ![a] = h]
  /\ UNCHANGED <<allows, pin, dials, phase, link, rejected>>

HsNext ==
  \/ Dial \/ HeadStartOver \/ AllFailed
  \/ \E a \in Addr : Handshake(a) \/ Win(a)
  \/ verify_client_cert \/ server_hello
  \/ ClientSends \/ ClientReads \/ ClientFails \/ LinkLost
  \/ Authorize \/ DeletePin \/ Readdress

HsSpec == HsInit /\ [][HsNext]_hsVars

(* Several handshakes of one dial race for the same pin file: the         *)
(* connection that wins is always one whose certificate the file holds    *)
(* now, not one that another address has replaced since.                  *)
WinnerIsPinned == phase \in {"hello", "up"} => link.host = pin

(* A session is registered only with a machine that has our fingerprint   *)
(* in its list and has answered Hello, although the TLS handshake of the  *)
(* dialling side ends before either is known.                             *)
UpIsMutual ==
  phase = "up" => link.host \in allows /\ link.server = "ok"

-----------------------------------------------------------------------------
(* Channels *)

Control == {"Enter", "Leave", "Ack", "Hello", "Ping", "Pong"}
Moving == {"Motion", "Axis", "AxisDiscrete120"}
Bulk == {"ClipboardText", "ClipboardImage", "ClipboardFiles", "FileTransferOffer",
         "FileTransferResponse", "FileTransferCancel", "ClipboardRequest"}

ByMode(mode) == IF mode = "Datagram" THEN "Datagram" ELSE "StreamB"

route_input(cfg, e) ==
  CASE e \in Moving -> "Datagram"
    [] e = "Button" -> ByMode(cfg.mouse_button)
    [] e \in {"Key", "Modifiers"} -> ByMode(cfg.keyboard)
    [] e \in Control -> "StreamA"
    [] e \in Bulk -> "StreamC"

MAX_SAFE_DATAGRAM == 1162

(* The smaller of what the peer announces (0: no datagrams) and the size  *)
(* that survives every path.                                              *)
DatagramLimit(announced) ==
  IF announced < MAX_SAFE_DATAGRAM THEN announced ELSE MAX_SAFE_DATAGRAM

(* send_datagram_or_stream_b: the channel the bytes leave on. *)
Sent(cfg, e, size, announced, accepted) ==
  IF route_input(cfg, e) = "Datagram"
  THEN IF announced # 0 /\ size <= DatagramLimit(announced) /\ accepted
       THEN "Datagram" ELSE "StreamB"
  ELSE route_input(cfg, e)

(* Whatever the peer announces and whether or not quinn takes the         *)
(* datagram, an event is never handed over as a datagram too large for    *)
(* the path, and an event the configuration wants ordered never leaves on *)
(* the unordered channel.                                                 *)
FitsItsChannel(cfg, e, size, announced, accepted) ==
  Sent(cfg, e, size, announced, accepted) = "Datagram" =>
    /\ size <= announced /\ size <= MAX_SAFE_DATAGRAM
    /\ e = "Button" => cfg.mouse_button = "Datagram"
    /\ e \in {"Key", "Modifiers"} => cfg.keyboard = "Datagram"
    /\ e \notin Control \cup Bulk
=============================================================================
