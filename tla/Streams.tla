------------------------------- MODULE Streams -------------------------------
(***************************************************************************)
(* The streams of one established session, in one direction: the opener    *)
(* (the dialer or the acceptor of the connection) opens bidirectional      *)
(* streams and writes to them; the other side's accept loop takes them in  *)
(* the order of their ids, reads four bytes, and either parks the stream,  *)
(* serves an HTTP/3-lite request on it, or reads the first frame and       *)
(* spawns a reader for the rest.                                           *)
(*                                                                         *)
(* pipe[s] is what the opener has written on stream s and the other side   *)
(* has not read yet; a length prefix and the body it announces are two     *)
(* writes.  Input and clipboard frames are numbered in the order in which  *)
(* they are sent.  A response of Chunks chunks crosses a flow-control      *)
(* window of Window chunks.                                                *)
(***************************************************************************)
EXTENDS Naturals, Sequences, FiniteSets

CONSTANTS
  Loads,               \* bounds: [B |-> , C |-> frames sent, http |-> requests made]
  Chunks, Window

VARIABLES
  opener,              \* "dialer" | "acceptor"
  load,                \* what it does in this run, one of Loads
  connected,
  pipe, kind,          \* by stream id
  cached_send,         \* [{"B", "C"} -> stream id, 0 when None]
  frames_sent,         \* [{"B", "C"} -> Nat]
  writing,             \* [{"B", "C"} -> BOOLEAN]: between length and body, lock held
  run,                 \* the dialer's PeerSession::run: "start" | "running" | "ended"
  accepted,            \* streams the accept loop has taken
  accept,              \* "idle" | "prefix" | "body" | "serve" | "ended"
  parked, reader,      \* streams parked; streams with a reader task
  delivered,           \* [{"B", "C"} -> Seq(Nat)], handed to the event loop
  written, read, fetch \* per stream: chunks written, chunks read, the outcome

openerVars == <<pipe, kind, cached_send, frames_sent, writing>>
acceptVars == <<accepted, accept, parked, reader, delivered>>
httpVars == <<written, read, fetch>>
vars == <<opener, load, connected, openerVars, run, acceptVars, httpVars>>

Channel == {"B", "C"}
Kind == Channel \cup {"bunch", "http"}
MaxStreams == 3 + 2 + 1
Ids == 1..Len(pipe)
Current == accepted

Fin == <<"fin">>
Unit == {Fin, <<"request">>} \cup ({"len"} \X Channel) \cup ({"body"} \X Nat)

TypeOK ==
  /\ opener \in {"dialer", "acceptor"} /\ connected \in BOOLEAN
  /\ pipe \in Seq(Seq(Unit)) /\ kind \in Seq(Kind)
  /\ Len(kind) = Len(pipe)
  /\ cached_send \in [Channel -> {0} \cup Ids] /\ frames_sent \in [Channel -> Nat]
  /\ writing \in [Channel -> BOOLEAN]
  /\ \A c \in Channel : writing[c] => cached_send[c] # 0
  /\ run \in {"start", "running", "ended"}
  /\ accept \in {"idle", "prefix", "body", "serve", "ended"}
  /\ accepted \in {0} \cup Ids /\ parked \subseteq Ids /\ reader \subseteq Ids
  /\ delivered \in [Channel -> Seq(Nat)]
  /\ read \in [1..MaxStreams -> Nat]
  /\ fetch \in [1..MaxStreams -> {"none", "waiting", "ok", "cancelled", "failed"}]

Init ==
  /\ opener \in {"dialer", "acceptor"} /\ load \in Loads /\ connected = TRUE
  /\ pipe = <<>> /\ kind = <<>>
  /\ cached_send = [c \in Channel |-> 0] /\ frames_sent = [c \in Channel |-> 0]
  /\ writing = [c \in Channel |-> FALSE]
  /\ run = "start"
  /\ accepted = 0 /\ accept = "idle" /\ parked = {} /\ reader = {}
  /\ delivered = [c \in Channel |-> <<>>]
  /\ written = [s \in 1..MaxStreams |-> 0] /\ read = written
  /\ fetch = [s \in 1..MaxStreams |-> "none"]

-----------------------------------------------------------------------------
(* The opener. *)

Open(k, units) == pipe' = pipe \o <<units>> /\ kind' = kind \o <<k>>
Write(s, units) == pipe' = [pipe EXCEPT ![s] = @ \o units] /\ UNCHANGED kind

\* The dialer's run opens a bunch of three streams, keeps the receiving halves
\* of the second and third in reader tasks and drops the rest: the streams end
\* unwritten.
StartRun ==
  /\ opener = "dialer" /\ connected /\ run = "start" /\ run' = "running"
  /\ pipe' = pipe \o <<<<Fin>>, <<Fin>>, <<Fin>>>>
  /\ kind' = kind \o <<"bunch", "bunch", "bunch">>
  /\ UNCHANGED <<opener, load, connected, cached_send, frames_sent, writing, acceptVars, httpVars>>

\* send_stream_b, send_stream_c: the stream is opened on first use, and the
\* length is written; the lock on the cached stream is held until the body is.
SendLength(c) ==
  /\ connected /\ ~writing[c] /\ frames_sent[c] < load[c]
  /\ c = "B" => opener = "dialer"
  /\ writing' = [writing EXCEPT ![c] = TRUE]
  /\ IF cached_send[c] = 0
     THEN /\ Open(c, <<<<"len", c>>>>)
          /\ cached_send' = [cached_send EXCEPT ![c] = Len(pipe) + 1]
     ELSE Write(cached_send[c], <<<<"len", c>>>>) /\ UNCHANGED cached_send
  /\ UNCHANGED <<opener, load, connected, frames_sent, run, acceptVars, httpVars>>

SendBody(c) ==
  /\ connected /\ writing[c]
  /\ writing' = [writing EXCEPT ![c] = FALSE]
  /\ frames_sent' = [frames_sent EXCEPT ![c] = @ + 1]
  /\ Write(cached_send[c], <<<<"body", frames_sent'[c]>>>>)
  /\ UNCHANGED <<opener, load, connected, cached_send, run, acceptVars, httpVars>>

\* A write on a lost connection fails, and the cached stream is forgotten.
SendFails(c) ==
  /\ ~connected /\ cached_send[c] # 0
  /\ cached_send' = [cached_send EXCEPT ![c] = 0]
  /\ writing' = [writing EXCEPT ![c] = FALSE]
  /\ UNCHANGED <<opener, load, connected, pipe, kind, frames_sent, run, acceptVars, httpVars>>

\* Http3Client::get_bytes: the request and the end of the sending half.
Request ==
  /\ connected /\ Cardinality({s \in Ids : kind[s] = "http"}) < load.http
  /\ Open("http", <<<<"request">>, Fin>>)
  /\ fetch' = [fetch EXCEPT ![Len(pipe) + 1] = "waiting"]
  /\ UNCHANGED <<opener, load, connected, cached_send, frames_sent, writing, run, acceptVars,
                 written, read>>

\* It reads chunk after chunk until it has the announced length.
ReadChunk(s) ==
  /\ fetch[s] = "waiting" /\ connected
  /\ read[s] < written[s] /\ read' = [read EXCEPT ![s] = @ + 1]
  /\ fetch' = [fetch EXCEPT ![s] = IF read'[s] = Chunks THEN "ok" ELSE @]
  /\ UNCHANGED <<opener, load, connected, openerVars, run, acceptVars, written>>

\* A lost connection is an error of the read; a cancelled transfer drops the
\* stream, which stops the other side's writes.
FetchEnds(s) ==
  /\ fetch[s] = "waiting"
  /\ fetch' = [fetch EXCEPT ![s] = IF connected THEN "cancelled" ELSE "failed"]
  /\ UNCHANGED <<opener, load, connected, openerVars, run, acceptVars, written, read>>

-----------------------------------------------------------------------------
(* The accept loop: server_accept_bi_task and client_accept_bi_task. *)

\* accept_bi yields the streams in the order of their ids.
AcceptBi ==
  /\ connected /\ accept = "idle" /\ accepted < Len(pipe)
  /\ accepted' = accepted + 1 /\ accept' = "prefix"
  /\ UNCHANGED <<opener, load, connected, openerVars, run, parked, reader, delivered, httpVars>>

Next1(s) == Head(pipe[s])
Consume(s) == pipe' = [pipe EXCEPT ![s] = Tail(@)]

\* mutated: the accept loop ends
ParkEndsLoop ==
  /\ connected /\ accept = "prefix" /\ pipe[Current] # <<>>
  /\ Next1(Current) = Fin
  /\ parked' = parked \cup {Current} /\ accept' = "ended"
  /\ UNCHANGED <<opener, load, connected, openerVars, run, accepted, reader, delivered, httpVars>>

\* An ended, unwritten stream is parked: dropping it would end the reader that
\* the opener's run has on it.
Park ==
  /\ connected /\ accept = "prefix" /\ pipe[Current] # <<>>
  /\ Next1(Current) = Fin
  /\ parked' = parked \cup {Current} /\ accept' = "idle"
  /\ UNCHANGED <<opener, load, connected, openerVars, run, accepted, reader, delivered, httpVars>>

\* A length announces a first frame; letters announce a request.
ReadPrefix ==
  /\ connected /\ accept = "prefix" /\ pipe[Current] # <<>>
  /\ Next1(Current) # Fin
  /\ accept' = IF Next1(Current)[1] = "request" THEN "serve" ELSE "body"
  /\ Consume(Current)
  /\ UNCHANGED <<opener, load, connected, kind, cached_send, frames_sent, writing, run,
                 accepted, parked, reader, delivered, httpVars>>

Deliver(s) == delivered' = [delivered EXCEPT ![kind[s]] = Append(@, Next1(s)[2])]

\* The first frame is handed on and a reader spawned for the others.
ReadFirstFrame ==
  /\ connected /\ accept = "body" /\ pipe[Current] # <<>>
  /\ Deliver(Current) /\ Consume(Current)
  /\ reader' = reader \cup {Current} /\ accept' = "idle"
  /\ UNCHANGED <<opener, load, connected, kind, cached_send, frames_sent, writing, run,
                 accepted, parked, httpVars>>

\* mutated: the frame handed on is read again
ReadFrameAgain(s) ==
  /\ connected /\ s \in reader /\ Len(pipe[s]) >= 2
  /\ delivered' = [delivered EXCEPT ![kind[s]] = Append(@, pipe[s][2][2])]
  /\ UNCHANGED <<opener, load, connected, openerVars, run, accepted, accept, parked, reader,
                 httpVars>>

\* A reader task takes one frame, once its length and its body are there.
ReadFrame(s) ==
  /\ connected /\ s \in reader /\ Len(pipe[s]) >= 2
  /\ delivered' = [delivered EXCEPT ![kind[s]] = Append(@, pipe[s][2][2])]
  /\ pipe' = [pipe EXCEPT ![s] = Tail(Tail(@))]
  /\ UNCHANGED <<opener, load, connected, kind, cached_send, frames_sent, writing, run,
                 accepted, accept, parked, reader, httpVars>>

server_stream_reader_task(s) == opener = "dialer" /\ kind[s] = "B" /\ ReadFrame(s)
server_stream_c_reader_task(s) == opener = "dialer" /\ kind[s] = "C" /\ ReadFrame(s)
client_stream_c_reader_task(s) == opener = "acceptor" /\ kind[s] = "C" /\ ReadFrame(s)
ReaderStep(s) == \/ server_stream_reader_task(s)
                 \/ server_stream_c_reader_task(s) \/ client_stream_c_reader_task(s)

\* handle_http3_stream, awaited inside the accept loop: a chunk is written when
\* the window has room; a stopped stream fails the write, and either way the
\* loop goes on.
WriteChunk ==
  /\ connected /\ accept = "serve"
  /\ \/ /\ fetch[Current] = "waiting"
        /\ written[Current] < Chunks /\ written[Current] - read[Current] < Window
        /\ written' = [written EXCEPT ![Current] = @ + 1]
        /\ accept' = IF written'[Current] = Chunks THEN "idle" ELSE "serve"
     \/ /\ fetch[Current] = "cancelled"
        /\ accept' = "idle" /\ UNCHANGED written
  /\ UNCHANGED <<opener, load, connected, openerVars, run, accepted, parked, reader, delivered,
                 read, fetch>>

AcceptEnds ==
  /\ ~connected /\ accept # "ended" /\ accept' = "ended"
  /\ parked' = {} /\ reader' = {}
  /\ UNCHANGED <<opener, load, connected, openerVars, run, accepted, delivered, httpVars>>

-----------------------------------------------------------------------------
Disconnect ==
  /\ connected /\ connected' = FALSE
  /\ UNCHANGED <<opener, load, openerVars, run, acceptVars, httpVars>>

\* run ends when the connection is closed, or when a reader of its bunch sees
\* the end of a stream because the other side has dropped it.
BunchDropped ==
  \E s \in Ids : kind[s] = "bunch" /\ s <= accepted /\ s \notin parked
                 /\ ~(s = accepted /\ accept = "prefix")
RunEnds ==
  /\ run = "running" /\ (~connected \/ BunchDropped) /\ run' = "ended"
  /\ UNCHANGED <<opener, load, connected, openerVars, acceptVars, httpVars>>

OpenerStep == StartRun \/ Request \/ \E c \in Channel : SendLength(c)
WriterStep(c) == SendBody(c) \/ SendFails(c)
FetchStep(s) == ReadChunk(s) \/ FetchEnds(s)
Accept == AcceptBi \/ Park \/ ReadPrefix \/ ReadFirstFrame \/ WriteChunk \/ AcceptEnds
server_accept_bi_task == opener = "dialer" /\ Accept
client_accept_bi_task == opener = "acceptor" /\ Accept
AcceptStep == server_accept_bi_task \/ client_accept_bi_task

Next ==
  \/ OpenerStep \/ AcceptStep \/ RunEnds \/ Disconnect
  \/ \E c \in Channel : WriterStep(c)
  \/ \E s \in 1..MaxStreams : FetchStep(s)
  \/ \E s \in Ids : ReaderStep(s)

Spec == Init /\ [][Next]_vars

\* A frame begun is finished (the writes do not wait for the other side's
\* application), the accept loop and the readers are polled, and the task that
\* made a request reads its response.
AnyWriter == \E c \in Channel : WriterStep(c)
AnyReader == \/ \E s \in Ids : ReaderStep(s)
             \/ \E s \in 1..MaxStreams : ReadChunk(s)
Fairness == WF_vars(AcceptStep) /\ WF_vars(AnyWriter) /\ WF_vars(AnyReader)

LiveSpec == Spec /\ Fairness

-----------------------------------------------------------------------------
Counted(n) == [i \in 1..n |-> i]

\* Frames are handed on in the order in which they were sent, each once,
\* whether the accept loop reads them or the reader it spawned.
FramesInOrder ==
  \A c \in Channel : /\ delivered[c] = Counted(Len(delivered[c]))
                     /\ Len(delivered[c]) <= frames_sent[c]

\* The dialer's run does not end while the connection is up: the streams of
\* its bunch are not dropped by the accept loop that meets them.
RunEndsWithConnection == run = "ended" => ~connected

\* A response is whole or an error: no fetch succeeds on part of a body, and
\* none fails while the connection is up and nobody cancels it.
ResponseIsWhole ==
  \A s \in 1..MaxStreams : /\ fetch[s] = "ok" => read[s] = Chunks
                           /\ fetch[s] = "failed" => ~connected

\* A session hands on what was sent: frames in order and no other, a response
\* as a whole or not at all, and its run() ends when the connection does, not
\* before.
SessionIsFaithful == FramesInOrder /\ RunEndsWithConnection /\ ResponseIsWhole

\* Every frame sent is handed on while the connection stays up, although the
\* accept loop serves whole responses in between.
FramesArrive ==
  []<>(~connected \/ \A c \in Channel : Len(delivered[c]) = frames_sent[c])
=============================================================================
