--------------------------- MODULE Streams_proofs ---------------------------
(***************************************************************************)
(* A session hands on what was sent, whatever is sent, requested and read  *)
(* in between: the streams of one direction of a connection carry frames   *)
(* in order, their bunch is kept open, and a response is whole or fails.   *)
(***************************************************************************)
EXTENDS Streams, Integers, SequenceTheorems, TLAPS

-----------------------------------------------------------------------------
(* What is on a stream of frames. *)

Length(c) == <<"len", c>>
Body(n) == <<"body", n>>

(* q holds what is unread of the frames d + 1 .. f of channel c, and a length *)
(* more when the next one is begun (w = 1) and one less when the length of    *)
(* frame d + 1 has been read (b = 1).                                         *)
Frames(q, c, d, f, w, b) ==
  /\ Len(q) + b = 2 * (f - d) + w
  /\ \A n \in Nat \ {0} :
       /\ 2 * n - 1 - b \in 1 .. Len(q) => q[2 * n - 1 - b] = Length(c)
       /\ 2 * n - b \in 1 .. Len(q) => q[2 * n - b] = Body(d + n)

Bit(p) == IF p THEN 1 ELSE 0

(* the accept loop has read the length of the first frame *)
Begun(c) == accept = "body" /\ accepted = cached_send[c]

LEMMA UnitTypes ==
  ASSUME NEW c \in Channel, NEW n \in Nat
  PROVE  Length(c) \in Unit /\ Body(n) \in Unit /\ Fin \in Unit /\ <<"request">> \in Unit
  BY DEF Length, Body, Unit

LEMMA Extended ==
  ASSUME NEW q \in Seq(Unit), NEW u \in Unit
  PROVE  /\ q \o <<u>> \in Seq(Unit) /\ Len(q \o <<u>>) = Len(q) + 1
         /\ \A i \in 1 .. Len(q) : (q \o <<u>>)[i] = q[i]
         /\ (q \o <<u>>)[Len(q) + 1] = u
<1>1. <<u>> \in Seq(Unit) /\ Len(<<u>>) = 1 /\ <<u>>[1] = u
  OBVIOUS
<1>. QED
  BY <1>1, ConcatProperties

LEMMA Shortened ==
  ASSUME NEW q \in Seq(Unit), q # <<>>
  PROVE  /\ Tail(q) \in Seq(Unit) /\ Len(Tail(q)) = Len(q) - 1 /\ Len(q) >= 1
         /\ \A i \in 1 .. Len(q) - 1 : Tail(q)[i] = q[i + 1]
         /\ Head(q) = q[1]
  BY HeadTailProperties, EmptySeq

(* the length of the next frame is written *)
LEMMA LengthWritten ==
  ASSUME NEW q \in Seq(Unit), NEW c \in Channel, NEW d \in Nat, NEW f \in Nat,
         NEW b \in {0, 1}, Frames(q, c, d, f, 0, b)
  PROVE  Frames(q \o <<Length(c)>>, c, d, f, 1, b)
<1>. DEFINE r == q \o <<Length(c)>>
<1>1. /\ Len(r) = Len(q) + 1 /\ r[Len(q) + 1] = Length(c)
      /\ \A i \in 1 .. Len(q) : r[i] = q[i]
  BY Extended, UnitTypes
<1>. HIDE DEF r
<1>2. Len(r) + b = 2 * (f - d) + 1
  BY <1>1 DEF Frames
<1>3. ASSUME NEW n \in Nat \ {0}, 2 * n - 1 - b \in 1 .. Len(r)
      PROVE  r[2 * n - 1 - b] = Length(c)
  BY <1>1, <1>3 DEF Frames
<1>4. ASSUME NEW n \in Nat \ {0}, 2 * n - b \in 1 .. Len(r)
      PROVE  r[2 * n - b] = Body(d + n)
  <2>1. 2 * n - b \in 1 .. Len(q)
    BY <1>1, <1>2, <1>4
  <2>. QED
    BY <1>1, <2>1 DEF Frames
<1>. QED
  BY <1>2, <1>3, <1>4 DEF Frames, r

(* and then its body *)
LEMMA BodyWritten ==
  ASSUME NEW q \in Seq(Unit), NEW c \in Channel, NEW d \in Nat, NEW f \in Nat,
         NEW b \in {0, 1}, Frames(q, c, d, f, 1, b)
  PROVE  Frames(q \o <<Body(f + 1)>>, c, d, f + 1, 0, b)
<1>. DEFINE r == q \o <<Body(f + 1)>>
<1>1. /\ Len(r) = Len(q) + 1 /\ r[Len(q) + 1] = Body(f + 1)
      /\ \A i \in 1 .. Len(q) : r[i] = q[i]
  BY Extended, UnitTypes
<1>. HIDE DEF r
<1>2. Len(r) + b = 2 * (f + 1 - d) + 0
  BY <1>1 DEF Frames
<1>3. ASSUME NEW n \in Nat \ {0}, 2 * n - 1 - b \in 1 .. Len(r)
      PROVE  r[2 * n - 1 - b] = Length(c)
  <2>1. 2 * n - 1 - b \in 1 .. Len(q)
    BY <1>1, <1>2, <1>3
  <2>. QED
    BY <1>1, <2>1 DEF Frames
<1>4. ASSUME NEW n \in Nat \ {0}, 2 * n - b \in 1 .. Len(r)
      PROVE  r[2 * n - b] = Body(d + n)
  <2>1. CASE 2 * n - b \in 1 .. Len(q)
    BY <1>1, <2>1 DEF Frames
  <2>2. CASE 2 * n - b = Len(q) + 1
    <3>1. d + n = f + 1
      BY <1>1, <1>2, <2>2
    <3>. QED
      BY <1>1, <2>2, <3>1
  <2>. QED
    BY <1>1, <1>4, <2>1, <2>2
<1>. QED
  BY <1>2, <1>3, <1>4 DEF Frames, r

(* the length of the oldest frame is read *)
LEMMA LengthRead ==
  ASSUME NEW q \in Seq(Unit), NEW c \in Channel, NEW d \in Nat, NEW f \in Nat,
         NEW w \in {0, 1}, Frames(q, c, d, f, w, 0), q # <<>>
  PROVE  Head(q) = Length(c) /\ Frames(Tail(q), c, d, f, w, 1)
<1>. DEFINE r == Tail(q)
<1>1. /\ Len(r) = Len(q) - 1 /\ Len(q) >= 1 /\ Head(q) = q[1]
      /\ \A i \in 1 .. Len(q) - 1 : r[i] = q[i + 1]
  BY Shortened
<1>. HIDE DEF r
<1>2. q[1] = Length(c)
  <2>1. 2 * 1 - 1 - 0 \in 1 .. Len(q) /\ 1 \in Nat \ {0}
    BY <1>1
  <2>2. q[2 * 1 - 1 - 0] = Length(c)
    BY <2>1 DEF Frames
  <2>. QED
    BY <2>2
<1>3. Len(r) + 1 = 2 * (f - d) + w
  BY <1>1 DEF Frames
<1>4. ASSUME NEW n \in Nat \ {0}
      PROVE  /\ 2 * n - 1 - 1 \in 1 .. Len(r) => r[2 * n - 1 - 1] = Length(c)
             /\ 2 * n - 1 \in 1 .. Len(r) => r[2 * n - 1] = Body(d + n)
  <2>1. ASSUME 2 * n - 1 - 1 \in 1 .. Len(r)
        PROVE  r[2 * n - 1 - 1] = Length(c)
    <3>1. 2 * n - 1 - 0 \in 1 .. Len(q) /\ r[2 * n - 1 - 1] = q[2 * n - 1 - 0]
      <4>1. Len(q) \in Nat /\ 2 * n - 1 - 1 \in 1 .. Len(q) - 1
        BY <1>1, <2>1, LenProperties
      <4>2. r[2 * n - 1 - 1] = q[(2 * n - 1 - 1) + 1]
        BY <1>1, <4>1
      <4>3. (2 * n - 1 - 1) + 1 = 2 * n - 1 - 0 /\ 2 * n - 1 - 0 \in 1 .. Len(q)
        BY <4>1
      <4>. QED
        BY <4>2, <4>3
    <3>. QED
      BY <3>1 DEF Frames
  <2>2. ASSUME 2 * n - 1 \in 1 .. Len(r)
        PROVE  r[2 * n - 1] = Body(d + n)
    <3>1. 2 * n - 0 \in 1 .. Len(q) /\ r[2 * n - 1] = q[2 * n - 0]
      BY <1>1, <2>2
    <3>. QED
      BY <3>1 DEF Frames
  <2>. QED
    BY <2>1, <2>2
<1>. QED
  BY <1>1, <1>2, <1>3, <1>4 DEF Frames, r

(* and then its body *)
LEMMA BodyRead ==
  ASSUME NEW q \in Seq(Unit), NEW c \in Channel, NEW d \in Nat, NEW f \in Nat,
         NEW w \in {0, 1}, Frames(q, c, d, f, w, 1), q # <<>>
  PROVE  Head(q) = Body(d + 1) /\ d < f /\ Frames(Tail(q), c, d + 1, f, w, 0)
<1>. DEFINE r == Tail(q)
<1>1. /\ Len(r) = Len(q) - 1 /\ Len(q) >= 1 /\ Head(q) = q[1]
      /\ \A i \in 1 .. Len(q) - 1 : r[i] = q[i + 1]
  BY Shortened
<1>. HIDE DEF r
<1>2. q[1] = Body(d + 1)
  <2>1. 2 * 1 - 1 \in 1 .. Len(q) /\ 1 \in Nat \ {0}
    BY <1>1
  <2>2. q[2 * 1 - 1] = Body(d + 1)
    BY <2>1 DEF Frames
  <2>. QED
    BY <2>2
<1>3. Len(r) + 0 = 2 * (f - (d + 1)) + w /\ d < f
  BY <1>1 DEF Frames
<1>4. ASSUME NEW n \in Nat \ {0}
      PROVE  /\ 2 * n - 1 - 0 \in 1 .. Len(r) => r[2 * n - 1 - 0] = Length(c)
             /\ 2 * n - 0 \in 1 .. Len(r) => r[2 * n - 0] = Body(d + 1 + n)
  <2>0. n + 1 \in Nat \ {0}
    OBVIOUS
  <2>1. ASSUME 2 * n - 1 - 0 \in 1 .. Len(r)
        PROVE  r[2 * n - 1 - 0] = Length(c)
    <3>1. 2 * (n + 1) - 1 - 1 \in 1 .. Len(q) /\ r[2 * n - 1 - 0] = q[2 * (n + 1) - 1 - 1]
      BY <1>1, <2>1
    <3>. QED
      BY <2>0, <3>1, Zenon DEF Frames
  <2>2. ASSUME 2 * n - 0 \in 1 .. Len(r)
        PROVE  r[2 * n - 0] = Body(d + 1 + n)
    <3>1. 2 * (n + 1) - 1 \in 1 .. Len(q) /\ r[2 * n - 0] = q[2 * (n + 1) - 1]
      BY <1>1, <2>2
    <3>2. q[2 * (n + 1) - 1] = Body(d + (n + 1))
      BY <2>0, <3>1, Zenon DEF Frames
    <3>. QED
      BY <3>1, <3>2
  <2>. QED
    BY <2>1, <2>2
<1>. QED
  BY <1>1, <1>2, <1>3, <1>4, Zenon DEF Frames, r

-----------------------------------------------------------------------------
(* The invariant, which the end of the connection may break. *)

(* a channel has one stream, and what it holds comes after what was delivered *)
ChannelOK(c) ==
  IF cached_send[c] = 0
  THEN frames_sent[c] = 0 /\ delivered[c] = <<>> /\ ~writing[c]
  ELSE /\ kind[cached_send[c]] = c
       /\ Frames(pipe[cached_send[c]], c, Len(delivered[c]), frames_sent[c],
                 Bit(writing[c]), Bit(Begun(c)))

(* the accept loop has not read from stream s *)
Unread(s) == s > accepted \/ (s = accepted /\ accept = "prefix")

(* streams that end unwritten are parked, and readers have streams of frames *)
StreamOK(s) ==
  /\ kind[s] \in Channel => cached_send[kind[s]] = s
  /\ kind[s] = "bunch" => pipe[s] = <<Fin>> /\ (Unread(s) \/ s \in parked)
  /\ kind[s] = "http" /\ Unread(s) => pipe[s] = <<<<"request">>, Fin>>
  /\ s \in reader => kind[s] \in Channel /\ ~Unread(s) /\ ~(s = accepted /\ accept = "body")

AcceptOK ==
  /\ accept # "ended"
  /\ accept # "idle" => accepted # 0
  /\ accept = "body" => kind[accepted] \in Channel

LiveInv ==
  /\ \A c \in Channel : ChannelOK(c)
  /\ \A s \in Ids : StreamOK(s)
  /\ AcceptOK

SessionInv == TypeOK /\ SessionIsFaithful /\ (connected => LiveInv)

-----------------------------------------------------------------------------
(* Streams opened and streams written to. *)

LEMMA Opened ==
  ASSUME TypeOK, NEW u \in Seq(Seq(Unit)), NEW k \in Seq(Kind), Len(k) = Len(u),
         pipe' = pipe \o u, kind' = kind \o k
  PROVE  /\ pipe' \in Seq(Seq(Unit)) /\ kind' \in Seq(Kind)
         /\ Len(pipe') = Len(pipe) + Len(u) /\ Len(kind') = Len(pipe')
         /\ Len(pipe) \in Nat /\ Len(u) \in Nat
         /\ \A s \in Ids : pipe'[s] = pipe[s] /\ kind'[s] = kind[s]
         /\ \A s \in Len(pipe) + 1 .. Len(pipe') :
              pipe'[s] = u[s - Len(pipe)] /\ kind'[s] = k[s - Len(pipe)]
<1>1. /\ pipe \in Seq(Seq(Unit)) /\ kind \in Seq(Kind) /\ Len(kind) = Len(pipe)
      /\ Len(pipe) \in Nat /\ Len(u) \in Nat
  BY LenProperties DEF TypeOK
<1>2. /\ pipe' \in Seq(Seq(Unit)) /\ Len(pipe') = Len(pipe) + Len(u)
      /\ \A i \in 1 .. Len(pipe) + Len(u) :
           pipe'[i] = IF i <= Len(pipe) THEN pipe[i] ELSE u[i - Len(pipe)]
  BY <1>1, ConcatProperties
<1>3. /\ kind' \in Seq(Kind) /\ Len(kind') = Len(kind) + Len(k)
      /\ \A i \in 1 .. Len(kind) + Len(k) :
           kind'[i] = IF i <= Len(kind) THEN kind[i] ELSE k[i - Len(kind)]
  <2>. DEFINE K == Kind
  <2>1. kind \in Seq(K) /\ k \in Seq(K)
    BY <1>1
  <2>. HIDE DEF K
  <2>2. /\ kind \o k \in Seq(K) /\ Len(kind \o k) = Len(kind) + Len(k)
        /\ \A i \in 1 .. Len(kind) + Len(k) :
             (kind \o k)[i] = IF i <= Len(kind) THEN kind[i] ELSE k[i - Len(kind)]
    BY <2>1, ConcatProperties, Zenon
  <2>. QED
    BY <2>2 DEF K
<1>. QED
  BY <1>1, <1>2, <1>3 DEF Ids

LEMMA Rewritten ==
  ASSUME TypeOK, NEW s \in Ids, NEW x \in Seq(Unit), pipe' = [pipe EXCEPT ![s] = x]
  PROVE  /\ pipe' \in Seq(Seq(Unit)) /\ Len(pipe') = Len(pipe) /\ Ids' = Ids
         /\ pipe'[s] = x /\ \A r \in Ids : r # s => pipe'[r] = pipe[r]
<1>1. pipe \in Seq(Seq(Unit)) /\ s \in 1 .. Len(pipe)
  BY DEF TypeOK, Ids
<1>2. /\ pipe' \in Seq(Seq(Unit)) /\ Len(pipe') = Len(pipe)
      /\ \A j \in 1 .. Len(pipe) : pipe'[j] = IF j = s THEN x ELSE pipe[j]
  BY <1>1, ExceptSeq
<1>. QED
  BY <1>2 DEF Ids

LEMMA ChannelKept ==
  ASSUME NEW c \in Channel, ChannelOK(c), Begun(c)' = Begun(c),
         cached_send'[c] = cached_send[c], frames_sent'[c] = frames_sent[c],
         writing'[c] = writing[c], delivered'[c] = delivered[c],
         cached_send[c] # 0 => /\ pipe'[cached_send[c]] = pipe[cached_send[c]]
                               /\ kind'[cached_send[c]] = kind[cached_send[c]]
  PROVE  ChannelOK(c)'
  BY DEF ChannelOK

LEMMA StreamKept ==
  ASSUME NEW s \in Ids, StreamOK(s), pipe'[s] = pipe[s], kind'[s] = kind[s],
         UNCHANGED <<cached_send, accepted, accept, parked, reader>>
  PROVE  StreamOK(s)'
  BY DEF StreamOK, Unread

(* two channels do not share a stream *)
LEMMA OwnStream ==
  ASSUME LiveInv, NEW c \in Channel, NEW e \in Channel, c # e, cached_send[c] # 0
  PROVE  cached_send[e] # cached_send[c]
  BY DEF LiveInv, ChannelOK
LEMMA BitTypes == ASSUME NEW p \in BOOLEAN PROVE Bit(p) \in {0, 1}
  BY DEF Bit

(* what the accept loop reads next from a stream of frames *)
LEMMA QueueTypes ==
  ASSUME TypeOK, NEW c \in Channel, cached_send[c] # 0
  PROVE  /\ cached_send[c] \in Ids /\ pipe[cached_send[c]] \in Seq(Unit)
         /\ Len(delivered[c]) \in Nat /\ frames_sent[c] \in Nat
         /\ writing[c] \in BOOLEAN /\ Begun(c) \in BOOLEAN
<1>1. cached_send[c] \in Ids /\ delivered[c] \in Seq(Nat)
  BY DEF TypeOK
<1>2. pipe[cached_send[c]] \in Seq(Unit)
  BY <1>1 DEF TypeOK, Ids
<1>. QED
  BY <1>1, <1>2 DEF TypeOK, Begun

-----------------------------------------------------------------------------
(* The opener's steps. *)

(* the streams that are opened are not read yet *)
LEMMA OpenKeeps ==
  ASSUME SessionInv, connected, NEW u \in Seq(Seq(Unit)), NEW k \in Seq(Kind),
         Len(k) = Len(u), pipe' = pipe \o u, kind' = kind \o k,
         UNCHANGED <<accepted, accept, parked, reader, delivered>>
  PROVE  /\ AcceptOK'
         /\ \A s \in Ids : cached_send' = cached_send => StreamOK(s)'
         /\ \A c \in Channel :
              /\ cached_send'[c] = cached_send[c] /\ frames_sent'[c] = frames_sent[c]
              /\ writing'[c] = writing[c]
              => ChannelOK(c)'
         /\ \A s \in Ids' \ Ids : /\ Unread(s)' /\ s \notin reader' /\ s # accepted'
                               /\ s - Len(pipe) \in 1 .. Len(u)
                               /\ pipe'[s] = u[s - Len(pipe)] /\ kind'[s] = k[s - Len(pipe)]
<1>. USE DEF SessionInv, LiveInv
<1>1. /\ Len(pipe') = Len(pipe) + Len(u) /\ Len(pipe) \in Nat /\ Len(u) \in Nat
      /\ \A s \in Ids : pipe'[s] = pipe[s] /\ kind'[s] = kind[s]
      /\ \A s \in Len(pipe) + 1 .. Len(pipe') :
           pipe'[s] = u[s - Len(pipe)] /\ kind'[s] = k[s - Len(pipe)]
  BY Opened, Zenon
<1>2. accepted \in {0} \cup Ids /\ reader \subseteq Ids /\ cached_send \in [Channel -> {0} \cup Ids]
  BY DEF TypeOK
<1>3. AcceptOK'
  BY <1>1, <1>2, Zenon DEF AcceptOK
<1>4. ASSUME NEW s \in Ids, cached_send' = cached_send
      PROVE  StreamOK(s)'
  BY <1>1, <1>4, StreamKept, Zenon
<1>5. ASSUME NEW c \in Channel, cached_send'[c] = cached_send[c],
             frames_sent'[c] = frames_sent[c], writing'[c] = writing[c]
      PROVE  ChannelOK(c)'
  BY <1>1, <1>2, <1>5, ChannelKept, Zenon DEF Begun
<1>6. ASSUME NEW s \in Ids' \ Ids
      PROVE  /\ Unread(s)' /\ s \notin reader' /\ s # accepted'
             /\ s - Len(pipe) \in 1 .. Len(u)
             /\ pipe'[s] = u[s - Len(pipe)] /\ kind'[s] = k[s - Len(pipe)]
  <2>1. s \in Len(pipe) + 1 .. Len(pipe')
    BY <1>1 DEF Ids
  <2>2. s - Len(pipe) \in 1 .. Len(u)
    BY <1>1, <2>1
  <2>3. s > accepted /\ s \notin reader
    BY <1>1, <1>2, <2>1 DEF Ids
  <2>4. Unread(s)' /\ s # accepted'
    BY <1>2, <2>1, <2>3 DEF Ids, Unread
  <2>. QED
    BY <1>1, <2>1, <2>2, <2>3, <2>4, Zenon
<1>. QED
  BY <1>3, <1>4, <1>5, <1>6, Zenon

LEMMA OpenTypes ==
  ASSUME TypeOK, NEW u \in Seq(Seq(Unit)), NEW k \in Seq(Kind),
         Len(k) = Len(u), pipe' = pipe \o u, kind' = kind \o k,
         UNCHANGED <<accepted, parked, reader>>
  PROVE  /\ pipe' \in Seq(Seq(Unit)) /\ kind' \in Seq(Kind) /\ Len(kind') = Len(pipe')
         /\ Ids \subseteq Ids'
         /\ accepted' \in {0} \cup Ids' /\ parked' \subseteq Ids' /\ reader' \subseteq Ids'
<1>1. Ids \subseteq Ids'
  BY Opened DEF Ids
<1>. QED
  BY <1>1, Opened, Zenon DEF TypeOK

LEMMA StartRunKeeps == SessionInv /\ StartRun => SessionInv'
<1>. SUFFICES ASSUME SessionInv, StartRun PROVE SessionInv'
  OBVIOUS
<1>. USE DEF SessionInv
<1>. DEFINE u == <<<<Fin>>, <<Fin>>, <<Fin>>>>
            k == <<"bunch", "bunch", "bunch">>
<1>1. /\ u \in Seq(Seq(Unit)) /\ k \in Seq(Kind) /\ Len(u) = 3 /\ Len(k) = 3
      /\ \A i \in 1 .. 3 : u[i] = <<Fin>> /\ k[i] = "bunch"
  <2>1. Fin \in Unit
    BY DEF Unit
  <2>2. <<Fin>> \in Seq(Unit)
    BY <2>1
  <2>. QED
    BY <2>2 DEF Kind
<1>2. pipe' = pipe \o u /\ kind' = kind \o k
  BY DEF StartRun
<1>. HIDE DEF u, k
<1>3. /\ connected /\ UNCHANGED <<opener, connected, cached_send, frames_sent, writing, acceptVars,
                                  httpVars>>
      /\ run' = "running"
  BY DEF StartRun
<1>4. TypeOK'
  <2>1. cached_send' \in [Channel -> {0} \cup Ids']
    BY <1>1, <1>2, <1>3, OpenTypes, Zenon DEF TypeOK, acceptVars
  <2>. QED
    BY <1>1, <1>2, <1>3, <2>1, OpenTypes, Zenon DEF TypeOK, acceptVars, httpVars
<1>5. SessionIsFaithful'
  BY <1>3 DEF SessionIsFaithful, FramesInOrder, RunEndsWithConnection, ResponseIsWhole,
              acceptVars, httpVars
<1>6. LiveInv'
  <2>1. ASSUME NEW s \in Ids' \ Ids
        PROVE  StreamOK(s)'
    <3>1. /\ Unread(s)' /\ s \notin reader' /\ s - Len(pipe) \in 1 .. Len(u)
          /\ pipe'[s] = u[s - Len(pipe)] /\ kind'[s] = k[s - Len(pipe)]
      BY <1>1, <1>2, <1>3, OpenKeeps, Zenon DEF acceptVars
    <3>2. pipe'[s] = <<Fin>> /\ kind'[s] = "bunch"
      BY <1>1, <3>1
    <3>. QED
      BY <3>1, <3>2 DEF StreamOK, Channel
  <2>. QED
    BY <1>1, <1>2, <1>3, <2>1, OpenKeeps, Zenon DEF LiveInv, acceptVars
<1>. QED
  BY <1>4, <1>5, <1>6

LEMMA RequestKeeps == SessionInv /\ Request => SessionInv'
<1>. SUFFICES ASSUME SessionInv, Request PROVE SessionInv'
  OBVIOUS
<1>. USE DEF SessionInv
<1>. DEFINE u == <<<<<<"request">>, Fin>>>>
            k == <<"http">>
<1>1. /\ u \in Seq(Seq(Unit)) /\ k \in Seq(Kind) /\ Len(u) = 1 /\ Len(k) = 1
      /\ u[1] = <<<<"request">>, Fin>> /\ k[1] = "http"
  <2>1. Fin \in Unit /\ <<"request">> \in Unit
    BY DEF Unit
  <2>2. <<<<"request">>, Fin>> \in Seq(Unit)
    BY <2>1
  <2>. QED
    BY <2>2 DEF Kind
<1>2. pipe' = pipe \o u /\ kind' = kind \o k
  BY DEF Request, Open
<1>. HIDE DEF u, k
<1>3. /\ connected
      /\ UNCHANGED <<opener, connected, run, cached_send, frames_sent, writing, acceptVars, read>>
      /\ fetch' = [fetch EXCEPT ![Len(pipe) + 1] = "waiting"]
  BY DEF Request
<1>4. TypeOK'
  <2>1. cached_send' \in [Channel -> {0} \cup Ids']
    BY <1>1, <1>2, <1>3, OpenTypes, Zenon DEF TypeOK, acceptVars
  <2>2. fetch' \in [1 .. MaxStreams -> {"none", "waiting", "ok", "cancelled", "failed"}]
    BY <1>3, Zenon DEF TypeOK
  <2>. QED
    BY <1>1, <1>2, <1>3, <2>1, <2>2, OpenTypes, Zenon DEF TypeOK, acceptVars
<1>5. SessionIsFaithful'
  BY <1>3 DEF SessionIsFaithful, FramesInOrder, RunEndsWithConnection, ResponseIsWhole,
              acceptVars, TypeOK
<1>6. LiveInv'
  <2>1. ASSUME NEW s \in Ids' \ Ids
        PROVE  StreamOK(s)'
    <3>1. /\ Unread(s)' /\ s \notin reader' /\ s - Len(pipe) \in 1 .. Len(u)
          /\ pipe'[s] = u[s - Len(pipe)] /\ kind'[s] = k[s - Len(pipe)]
      BY <1>1, <1>2, <1>3, OpenKeeps, Zenon DEF acceptVars
    <3>2. pipe'[s] = <<<<"request">>, Fin>> /\ kind'[s] = "http"
      BY <1>1, <3>1
    <3>. QED
      BY <3>1, <3>2 DEF StreamOK, Channel
  <2>. QED
    BY <1>1, <1>2, <1>3, <2>1, OpenKeeps, Zenon DEF LiveInv, acceptVars
<1>. QED
  BY <1>4, <1>5, <1>6
(* writing to the stream of a channel is seen by that channel alone *)
LEMMA WriteKeeps ==
  ASSUME SessionInv, connected, NEW c \in Channel, cached_send[c] # 0, NEW x \in Seq(Unit),
         pipe' = [pipe EXCEPT ![cached_send[c]] = x],
         UNCHANGED <<kind, cached_send, accepted, accept, parked, reader, delivered>>
  PROVE  /\ pipe' \in Seq(Seq(Unit)) /\ Len(pipe') = Len(pipe) /\ Ids' = Ids
         /\ pipe'[cached_send[c]] = x
         /\ AcceptOK' /\ \A s \in Ids : StreamOK(s)'
         /\ \A e \in Channel :
              e # c /\ frames_sent'[e] = frames_sent[e] /\ writing'[e] = writing[e]
              => ChannelOK(e)'
<1>. USE DEF SessionInv, LiveInv
<1>1. cached_send[c] \in Ids
  BY QueueTypes
<1>2. /\ pipe' \in Seq(Seq(Unit)) /\ Len(pipe') = Len(pipe) /\ Ids' = Ids
      /\ pipe'[cached_send[c]] = x
      /\ \A r \in Ids : r # cached_send[c] => pipe'[r] = pipe[r]
  BY <1>1, Rewritten, Zenon
<1>3. kind[cached_send[c]] = c
  BY DEF ChannelOK
<1>4. ASSUME NEW s \in Ids
      PROVE  StreamOK(s)'
  <2>1. CASE s # cached_send[c]
    BY <1>2, <2>1, StreamKept
  <2>2. CASE s = cached_send[c]
    BY <1>3, <2>2 DEF StreamOK, Unread, Channel
  <2>. QED
    BY <2>1, <2>2
<1>5. ASSUME NEW e \in Channel, e # c, frames_sent'[e] = frames_sent[e], writing'[e] = writing[e]
      PROVE  ChannelOK(e)'
  <2>1. cached_send[e] # 0 => cached_send[e] \in Ids /\ cached_send[e] # cached_send[c]
    BY <1>5, QueueTypes, OwnStream
  <2>. QED
    BY <1>2, <1>5, <2>1, ChannelKept DEF Begun
<1>6. AcceptOK'
  BY DEF AcceptOK
<1>. QED
  BY <1>2, <1>4, <1>5, <1>6

LEMMA SendLengthKeeps ==
  ASSUME NEW c \in Channel, SessionInv, SendLength(c)
  PROVE  SessionInv'
<1>. USE DEF SessionInv
<1>1. /\ connected /\ ~writing[c] /\ writing' = [writing EXCEPT ![c] = TRUE]
      /\ UNCHANGED <<opener, load, connected, frames_sent, run, acceptVars, httpVars>>
  BY DEF SendLength
<1>2. SessionIsFaithful'
  BY <1>1 DEF SessionIsFaithful, FramesInOrder, RunEndsWithConnection, ResponseIsWhole,
              acceptVars, httpVars
<1>3. writing' \in [Channel -> BOOLEAN] /\ writing'[c] = TRUE
      /\ \A e \in Channel : e # c => writing'[e] = writing[e]
  BY <1>1 DEF TypeOK
<1>4. Length(c) \in Unit
  BY UnitTypes
<1>5. CASE cached_send[c] = 0
  <2>. DEFINE u == <<<<Length(c)>>>>
              k == <<c>>
  <2>0. PICK n : n = Len(pipe) + 1
    OBVIOUS
  <2>1. /\ u \in Seq(Seq(Unit)) /\ k \in Seq(Kind) /\ Len(u) = 1 /\ Len(k) = 1
        /\ u[1] = <<Length(c)>> /\ k[1] = c
    <3>1. <<Length(c)>> \in Seq(Unit)
      BY <1>4
    <3>. QED
      BY <3>1 DEF Kind
  <2>2. pipe' = pipe \o u /\ kind' = kind \o k
    BY <1>5, Zenon DEF SendLength, Open, Length
  <2>3. cached_send' = [cached_send EXCEPT ![c] = n]
    BY <1>5, <2>0 DEF SendLength
  <2>. HIDE DEF u, k
  <2>4. Len(pipe) \in Nat /\ n # 0 /\ n \in Ids' /\ n \notin Ids
        /\ \A s \in Ids' : s \in Ids \/ s = n
    <3>1. Len(pipe) \in Nat /\ Len(pipe') = Len(pipe) + 1
      BY <2>1, <2>2, Opened, Zenon
    <3>. QED
      BY <2>0, <3>1 DEF Ids
  <2>5. /\ Unread(n)' /\ n \notin reader' /\ n # accepted'
        /\ pipe'[n] = <<Length(c)>> /\ kind'[n] = c
    <3>1. \A s \in Ids' \ Ids : /\ Unread(s)' /\ s \notin reader' /\ s # accepted'
                              /\ pipe'[s] = u[s - Len(pipe)] /\ kind'[s] = k[s - Len(pipe)]
      BY <1>1, <2>1, <2>2, OpenKeeps, Zenon DEF acceptVars
    <3>2. n - Len(pipe) = 1
      BY <2>0, <2>4
    <3>. QED
      BY <2>1, <2>4, <3>1, <3>2
  <2>6. cached_send'[c] = n /\ \A e \in Channel : e # c => cached_send'[e] = cached_send[e]
    BY <2>3 DEF TypeOK
  <2>7. TypeOK'
    <3>1. Ids \subseteq Ids'
      BY <1>1, <2>1, <2>2, OpenTypes, Zenon DEF acceptVars
    <3>2. cached_send' \in [Channel -> {0} \cup Ids']
      BY <2>3, <2>4, <3>1 DEF TypeOK
    <3>3. \A e \in Channel : writing'[e] => cached_send'[e] # 0
      BY <1>3, <2>4, <2>6, Zenon DEF TypeOK
    <3>. QED
      BY <1>1, <1>3, <2>1, <2>2, <3>2, <3>3, OpenTypes, Zenon DEF TypeOK, acceptVars, httpVars
  <2>8. ASSUME NEW s \in Ids
        PROVE  StreamOK(s)'
    <3>1. pipe'[s] = pipe[s] /\ kind'[s] = kind[s]
      BY <2>1, <2>2, Opened, Zenon
    <3>2. StreamOK(s) /\ kind[s] # c
      BY <1>1, <1>5 DEF LiveInv, StreamOK, Ids
    <3>. QED
      BY <1>1, <2>6, <3>1, <3>2 DEF StreamOK, Unread, acceptVars
  <2>9. StreamOK(n)'
    BY <2>5, <2>6 DEF StreamOK, Channel
  <2>10. ChannelOK(c)'
    <3>1. frames_sent[c] = 0 /\ delivered[c] = <<>>
      BY <1>1, <1>5 DEF LiveInv, ChannelOK
    <3>2. ~Begun(c)'
      BY <2>5, <2>6 DEF Begun
    <3>3. Frames(<<Length(c)>>, c, 0, 0, 1, 0)
      <4>1. Len(<<Length(c)>>) = 1 /\ <<Length(c)>>[1] = Length(c)
        OBVIOUS
      <4>. QED
        BY <4>1 DEF Frames
    <3>4. Len(delivered'[c]) = 0 /\ frames_sent'[c] = 0
      BY <1>1, <3>1 DEF acceptVars
    <3>5. Bit(writing'[c]) = 1 /\ Bit(Begun(c))' = 0
      BY <1>3, <3>2 DEF Bit
    <3>. QED
      BY <2>4, <2>5, <2>6, <3>3, <3>4, <3>5 DEF ChannelOK
  <2>11. \A e \in Channel : e # c => ChannelOK(e)'
    BY <1>1, <1>3, <2>1, <2>2, <2>6, OpenKeeps, Zenon DEF acceptVars
  <2>12. AcceptOK'
    BY <1>1, <2>1, <2>2, OpenKeeps, Zenon DEF acceptVars
  <2>. QED
    BY <1>2, <2>4, <2>7, <2>8, <2>9, <2>10, <2>11, <2>12 DEF LiveInv
<1>6. CASE cached_send[c] # 0
  <2>. DEFINE q == pipe[cached_send[c]]
              x == q \o <<Length(c)>>
  <2>1. q \in Seq(Unit) /\ x \in Seq(Unit)
    BY <1>4, <1>6, QueueTypes, Extended
  <2>2. pipe' = [pipe EXCEPT ![cached_send[c]] = x] /\ UNCHANGED <<kind, cached_send>>
    BY <1>6 DEF SendLength, Write, Length
  <2>. HIDE DEF x
  <2>3. /\ pipe' \in Seq(Seq(Unit)) /\ Len(pipe') = Len(pipe) /\ Ids' = Ids
        /\ pipe'[cached_send[c]] = x
        /\ AcceptOK' /\ \A s \in Ids : StreamOK(s)'
        /\ \A e \in Channel : e # c => ChannelOK(e)'
    BY <1>1, <1>3, <1>6, <2>1, <2>2, WriteKeeps, Zenon DEF acceptVars
  <2>4. TypeOK'
    <3>1. \A e \in Channel : writing'[e] => cached_send'[e] # 0
      BY <1>3, <1>6, <2>2 DEF TypeOK
    <3>. QED
      BY <1>1, <1>3, <2>2, <2>3, <3>1 DEF TypeOK, acceptVars, httpVars
  <2>5. ChannelOK(c)'
    <3>1. Begun(c)' = Begun(c) /\ Bit(Begun(c)) \in {0, 1}
      BY <1>1, <2>2 DEF Begun, acceptVars, Bit
    <3>2. kind[cached_send[c]] = c
          /\ Frames(q, c, Len(delivered[c]), frames_sent[c], 0, Bit(Begun(c)))
      BY <1>1, <1>6, Zenon DEF LiveInv, ChannelOK, Bit
    <3>3. Frames(x, c, Len(delivered[c]), frames_sent[c], 1, Bit(Begun(c)))
      BY <1>6, <2>1, <3>1, <3>2, QueueTypes, LengthWritten DEF x
    <3>4. Bit(writing'[c]) = 1
      BY <1>3 DEF Bit
    <3>. QED
      BY <1>1, <1>6, <2>2, <2>3, <3>1, <3>2, <3>3, <3>4, Zenon DEF ChannelOK, acceptVars
  <2>. QED
    BY <1>2, <2>3, <2>4, <2>5 DEF LiveInv
<1>. QED
  BY <1>5, <1>6
LEMMA SendBodyKeeps ==
  ASSUME NEW c \in Channel, SessionInv, SendBody(c)
  PROVE  SessionInv'
<1>. USE DEF SessionInv
<1>. DEFINE q == pipe[cached_send[c]]
            x == q \o <<Body(frames_sent[c] + 1)>>
<1>1. /\ connected /\ writing[c] = TRUE /\ writing' = [writing EXCEPT ![c] = FALSE]
      /\ frames_sent' = [frames_sent EXCEPT ![c] = @ + 1]
      /\ UNCHANGED <<opener, load, connected, cached_send, run, acceptVars, httpVars>>
  BY DEF SendBody, TypeOK
<1>2. /\ writing' \in [Channel -> BOOLEAN] /\ writing'[c] = FALSE
      /\ frames_sent' \in [Channel -> Nat] /\ frames_sent'[c] = frames_sent[c] + 1
      /\ \A e \in Channel : e # c => writing'[e] = writing[e] /\ frames_sent'[e] = frames_sent[e]
  BY <1>1 DEF TypeOK
<1>3. cached_send[c] # 0
  BY <1>1 DEF TypeOK
<1>4. Body(frames_sent[c] + 1) \in Unit
  BY UnitTypes DEF TypeOK
<1>5. q \in Seq(Unit) /\ x \in Seq(Unit)
  BY <1>3, <1>4, QueueTypes, Extended
<1>6. pipe' = [pipe EXCEPT ![cached_send[c]] = x] /\ UNCHANGED kind
  BY <1>2 DEF SendBody, Write, Body
<1>. HIDE DEF x
<1>7. /\ pipe' \in Seq(Seq(Unit)) /\ Len(pipe') = Len(pipe) /\ Ids' = Ids
      /\ pipe'[cached_send[c]] = x
      /\ AcceptOK' /\ \A s \in Ids : StreamOK(s)'
      /\ \A e \in Channel : e # c => ChannelOK(e)'
  BY <1>1, <1>2, <1>3, <1>5, <1>6, WriteKeeps, Zenon DEF acceptVars
<1>8. TypeOK'
  <2>1. \A e \in Channel : writing'[e] => cached_send'[e] # 0
    BY <1>1, <1>2 DEF TypeOK
  <2>. QED
    BY <1>1, <1>2, <1>6, <1>7, <2>1 DEF TypeOK, acceptVars, httpVars
<1>9. SessionIsFaithful'
  <2>1. FramesInOrder'
    <3>1. \A e \in Channel : frames_sent[e] \in Nat /\ Len(delivered[e]) \in Nat
      BY DEF TypeOK
    <3>2. \A e \in Channel : frames_sent'[e] >= frames_sent[e] /\ delivered'[e] = delivered[e]
      BY <1>1, <1>2, <3>1 DEF acceptVars
    <3>3. \A e \in Channel : Len(delivered[e]) <= frames_sent'[e]
      BY <1>2, <3>1, <3>2 DEF SessionIsFaithful, FramesInOrder, TypeOK
    <3>. QED
      BY <3>2, <3>3 DEF SessionIsFaithful, FramesInOrder
  <2>. QED
    BY <1>1, <2>1 DEF SessionIsFaithful, RunEndsWithConnection, ResponseIsWhole, httpVars
<1>10. ChannelOK(c)'
  <2>1. Begun(c)' = Begun(c) /\ Bit(Begun(c)) \in {0, 1}
    BY <1>1 DEF Begun, acceptVars, Bit
  <2>2. kind[cached_send[c]] = c
        /\ Frames(q, c, Len(delivered[c]), frames_sent[c], 1, Bit(Begun(c)))
    BY <1>1, <1>3 DEF LiveInv, ChannelOK, Bit
  <2>3. Frames(x, c, Len(delivered[c]), frames_sent[c] + 1, 0, Bit(Begun(c)))
    BY <1>3, <1>5, <2>1, <2>2, QueueTypes, BodyWritten DEF x
  <2>4. Bit(writing'[c]) = 0
    BY <1>2 DEF Bit
  <2>5. /\ cached_send'[c] # 0 /\ pipe'[cached_send'[c]] = x /\ kind'[cached_send'[c]] = c
        /\ Len(delivered'[c]) = Len(delivered[c]) /\ frames_sent'[c] = frames_sent[c] + 1
    BY <1>1, <1>2, <1>3, <1>6, <1>7, <2>2 DEF acceptVars
  <2>. QED
    BY <2>1, <2>3, <2>4, <2>5 DEF ChannelOK
<1>. QED
  BY <1>7, <1>8, <1>9, <1>10 DEF LiveInv

-----------------------------------------------------------------------------
(* The accept loop and the readers. *)

LEMMA AcceptBiKeeps == SessionInv /\ AcceptBi => SessionInv'
<1>. SUFFICES ASSUME SessionInv, AcceptBi PROVE SessionInv'
  OBVIOUS
<1>. USE DEF SessionInv
<1>1. /\ connected /\ accept = "idle" /\ accepted < Len(pipe) /\ accepted' = accepted + 1
      /\ accept' = "prefix"
      /\ UNCHANGED <<opener, connected, openerVars, run, parked, reader, delivered, httpVars>>
  BY DEF AcceptBi
<1>2. accepted \in Nat /\ Len(pipe) \in Nat /\ accepted + 1 \in Ids /\ Ids' = Ids
  BY <1>1 DEF TypeOK, Ids, openerVars
<1>3. TypeOK'
  BY <1>1, <1>2 DEF TypeOK, openerVars, httpVars
<1>4. SessionIsFaithful'
  BY <1>1 DEF SessionIsFaithful, FramesInOrder, RunEndsWithConnection, ResponseIsWhole,
              openerVars, httpVars
<1>5. ASSUME NEW c \in Channel
      PROVE  ChannelOK(c)'
  <2>1. Begun(c)' = Begun(c)
    BY <1>1 DEF Begun
  <2>. QED
    BY <1>1, <2>1, ChannelKept DEF LiveInv, openerVars
<1>6. ASSUME NEW s \in Ids
      PROVE  StreamOK(s)'
  <2>1. Unread(s)' <=> Unread(s)
    BY <1>1, <1>2 DEF Unread, Ids
  <2>2. StreamOK(s) /\ (s \in reader => s # accepted')
    BY <1>1, <1>2 DEF LiveInv, StreamOK, Unread, Ids
  <2>. QED
    BY <1>1, <2>1, <2>2 DEF StreamOK, openerVars
<1>7. AcceptOK'
  BY <1>1, <1>2 DEF AcceptOK
<1>. QED
  BY <1>2, <1>3, <1>4, <1>5, <1>6, <1>7 DEF LiveInv

LEMMA ParkKeeps == SessionInv /\ Park => SessionInv'
<1>. SUFFICES ASSUME SessionInv, Park PROVE SessionInv'
  OBVIOUS
<1>. USE DEF SessionInv
<1>1. /\ connected /\ accept = "prefix" /\ Next1(accepted) = Fin /\ pipe[accepted] # <<>>
      /\ parked' = parked \cup {accepted} /\ accept' = "idle"
      /\ UNCHANGED <<opener, connected, openerVars, run, accepted, reader, delivered, httpVars>>
  BY DEF Park, Current
<1>2. accepted \in Ids /\ Ids' = Ids
  BY <1>1 DEF TypeOK, LiveInv, AcceptOK, Ids, openerVars
<1>3. TypeOK'
  BY <1>1, <1>2 DEF TypeOK, openerVars, httpVars
<1>4. SessionIsFaithful'
  BY <1>1 DEF SessionIsFaithful, FramesInOrder, RunEndsWithConnection, ResponseIsWhole,
              openerVars, httpVars
<1>5. ASSUME NEW c \in Channel
      PROVE  ChannelOK(c)'
  <2>1. Begun(c)' = Begun(c)
    BY <1>1 DEF Begun
  <2>. QED
    BY <1>1, <2>1, ChannelKept DEF LiveInv, openerVars
<1>6. ASSUME NEW s \in Ids
      PROVE  StreamOK(s)'
  <2>1. Unread(s)' => Unread(s)
    BY <1>1 DEF Unread
  <2>2. Unread(s) => Unread(s)' \/ s \in parked'
    BY <1>1 DEF Unread
  <2>3. StreamOK(s)
    BY <1>1 DEF LiveInv
  <2>. QED
    BY <1>1, <2>1, <2>2, <2>3, Zenon DEF StreamOK, openerVars
<1>7. AcceptOK'
  BY <1>1, <1>2 DEF AcceptOK, LiveInv
<1>. QED
  BY <1>2, <1>3, <1>4, <1>5, <1>6, <1>7 DEF LiveInv

(* reading from a stream is seen by its channel alone *)
LEMMA ReadKeeps ==
  ASSUME SessionInv, connected, NEW s \in Ids, NEW x \in Seq(Unit),
         pipe' = [pipe EXCEPT ![s] = x],
         UNCHANGED <<kind, cached_send, frames_sent, writing, accepted, parked>>
  PROVE  /\ pipe' \in Seq(Seq(Unit)) /\ Len(pipe') = Len(pipe) /\ Ids' = Ids /\ pipe'[s] = x
         /\ \A r \in Ids : r # s => pipe'[r] = pipe[r]
         /\ \A e \in Channel :
              kind[s] # e /\ delivered'[e] = delivered[e] /\ Begun(e)' = Begun(e) => ChannelOK(e)'
<1>. USE DEF SessionInv, LiveInv
<1>1. /\ pipe' \in Seq(Seq(Unit)) /\ Len(pipe') = Len(pipe) /\ Ids' = Ids /\ pipe'[s] = x
      /\ \A r \in Ids : r # s => pipe'[r] = pipe[r]
  BY Rewritten, Zenon
<1>2. ASSUME NEW e \in Channel, kind[s] # e, delivered'[e] = delivered[e], Begun(e)' = Begun(e)
      PROVE  ChannelOK(e)'
  <2>1. cached_send[e] # 0 => cached_send[e] \in Ids /\ cached_send[e] # s
    BY <1>2, QueueTypes DEF ChannelOK
  <2>. QED
    BY <1>1, <1>2, <2>1, ChannelKept
<1>. QED
  BY <1>1, <1>2

(* the accept loop reads the first unit of the stream it holds *)
LEMMA ReadPrefixKeeps == SessionInv /\ ReadPrefix => SessionInv'
<1>. SUFFICES ASSUME SessionInv, ReadPrefix PROVE SessionInv'
  OBVIOUS
<1>. USE DEF SessionInv
<1>1. /\ connected /\ accept = "prefix" /\ pipe[accepted] # <<>> /\ Head(pipe[accepted]) # Fin
      /\ accept' = IF Head(pipe[accepted])[1] = "request" THEN "serve" ELSE "body"
      /\ pipe' = [pipe EXCEPT ![accepted] = Tail(pipe[accepted])]
      /\ UNCHANGED <<opener, connected, kind, cached_send, frames_sent, writing, run, accepted,
                     parked, reader, delivered, httpVars>>
  BY DEF ReadPrefix, Current, Next1, Consume
<1>2. LiveInv /\ accepted \in Ids /\ kind[accepted] \in Kind
  BY <1>1 DEF TypeOK, LiveInv, AcceptOK, Ids
<1>3. pipe[accepted] \in Seq(Unit)
  BY <1>2 DEF TypeOK, Ids
<1>4. Tail(pipe[accepted]) \in Seq(Unit)
  BY <1>1, <1>3, Shortened
<1>5. /\ pipe' \in Seq(Seq(Unit)) /\ Len(pipe') = Len(pipe) /\ Ids' = Ids
      /\ pipe'[accepted] = Tail(pipe[accepted])
      /\ \A r \in Ids : r # accepted => pipe'[r] = pipe[r]
      /\ \A e \in Channel :
           kind[accepted] # e /\ delivered'[e] = delivered[e] /\ Begun(e)' = Begun(e)
           => ChannelOK(e)'
  BY <1>1, <1>2, <1>4, ReadKeeps, Zenon
<1>6. kind[accepted] # "bunch"
  BY <1>1, <1>2 DEF LiveInv, StreamOK
<1>7. ASSUME kind[accepted] \in Channel
      PROVE  /\ accept' = "body"
             /\ Frames(pipe'[accepted], kind[accepted], Len(delivered[kind[accepted]]),
                       frames_sent[kind[accepted]], Bit(writing[kind[accepted]]), 1)
  <2>1. PICK c \in Channel : c = kind[accepted]
    BY <1>7
  <2>2. cached_send[c] = accepted /\ accepted # 0
    BY <1>2, <2>1 DEF LiveInv, StreamOK, Ids
  <2>3. Frames(pipe[accepted], c, Len(delivered[c]), frames_sent[c], Bit(writing[c]), 0)
    <3>1. ~Begun(c)
      BY <1>1 DEF Begun
    <3>2. ChannelOK(c)
      BY <1>2 DEF LiveInv
    <3>. QED
      BY <2>2, <3>1, <3>2 DEF ChannelOK, Bit
  <2>4. /\ Head(pipe[accepted]) = Length(c)
        /\ Frames(Tail(pipe[accepted]), c, Len(delivered[c]), frames_sent[c], Bit(writing[c]), 1)
    <3>1. Len(delivered[c]) \in Nat /\ frames_sent[c] \in Nat /\ Bit(writing[c]) \in {0, 1}
      BY <2>2, QueueTypes, BitTypes
    <3>2. pipe[accepted] # <<>>
      BY <1>1
    <3>. QED
      BY <1>3, <2>3, <3>1, <3>2, LengthRead
  <2>5. accept' = "body"
    <3>1. Head(pipe[accepted])[1] = "len"
      BY <2>4 DEF Length
    <3>. QED
      BY <1>1, <3>1
  <2>6. pipe'[accepted] = Tail(pipe[accepted])
    BY <1>5
  <2>. QED
    BY <2>1, <2>4, <2>5, <2>6
<1>8. ASSUME kind[accepted] = "http"
      PROVE  accept' = "serve"
  <2>1. pipe[accepted] = <<<<"request">>, Fin>>
    BY <1>1, <1>2, <1>8 DEF LiveInv, StreamOK, Unread
  <2>. QED
    BY <1>1, <2>1
<1>9. accept' \in {"body", "serve"} /\ (accept' = "body" <=> kind[accepted] \in Channel)
  BY <1>2, <1>6, <1>7, <1>8 DEF Kind, Channel
<1>10. TypeOK'
  BY <1>1, <1>5, <1>9 DEF TypeOK, httpVars
<1>11. SessionIsFaithful'
  BY <1>1 DEF SessionIsFaithful, FramesInOrder, RunEndsWithConnection, ResponseIsWhole, httpVars
<1>12. ASSUME NEW c \in Channel
       PROVE  ChannelOK(c)'
  <2>1. CASE kind[accepted] = c
    <3>1. cached_send[c] = accepted /\ accepted # 0
      BY <1>2, <2>1 DEF LiveInv, StreamOK, Ids
    <3>2. Bit(Begun(c))' = 1
      BY <1>1, <1>9, <2>1, <3>1 DEF Begun, Bit
    <3>3. Frames(pipe'[accepted], c, Len(delivered[c]), frames_sent[c], Bit(writing[c]), 1)
      BY <1>7, <2>1
    <3>4. /\ cached_send'[c] # 0 /\ cached_send'[c] = accepted /\ kind'[accepted] = c
          /\ delivered'[c] = delivered[c] /\ frames_sent'[c] = frames_sent[c]
          /\ writing'[c] = writing[c]
      BY <1>1, <2>1, <3>1
    <3>. QED
      BY <3>2, <3>3, <3>4 DEF ChannelOK
  <2>2. CASE kind[accepted] # c
    <3>1. ~Begun(c)
      BY <1>1 DEF Begun
    <3>2. ~Begun(c)'
      <4>1. accepted # 0 /\ ChannelOK(c)
        BY <1>2 DEF LiveInv, Ids
      <4>2. accepted # cached_send[c]
        BY <2>2, <4>1 DEF ChannelOK
      <4>. QED
        BY <1>1, <4>2 DEF Begun
    <3>3. Begun(c)' = Begun(c)
      BY <3>1, <3>2 DEF Begun
    <3>4. delivered'[c] = delivered[c]
      BY <1>1
    <3>. QED
      BY <1>5, <2>2, <3>3, <3>4
  <2>. QED
    BY <2>1, <2>2
<1>13. ASSUME NEW s \in Ids
       PROVE  StreamOK(s)'
  <2>1. StreamOK(s)
    BY <1>2 DEF LiveInv
  <2>2. CASE s # accepted
    <3>1. Unread(s)' <=> Unread(s)
      BY <1>1, <1>9, <2>2 DEF Unread
    <3>. QED
      BY <1>1, <1>5, <2>1, <2>2, <3>1, Zenon DEF StreamOK
  <2>3. CASE s = accepted
    <3>1. ~Unread(s)' /\ s \notin reader
      BY <1>1, <1>2, <1>9, <2>1, <2>3 DEF Unread, StreamOK, Ids
    <3>. QED
      BY <1>1, <1>6, <2>1, <2>3, <3>1 DEF StreamOK
  <2>. QED
    BY <2>2, <2>3
<1>14. AcceptOK'
  BY <1>1, <1>2, <1>9 DEF AcceptOK, Ids
<1>. QED
  BY <1>5, <1>10, <1>11, <1>12, <1>13, <1>14 DEF LiveInv
LEMMA Delivering ==
  ASSUME SessionInv, NEW c \in Channel,
         delivered' = [delivered EXCEPT ![c] = Append(@, Len(delivered[c]) + 1)],
         Len(delivered[c]) < frames_sent[c], UNCHANGED frames_sent
  PROVE  /\ delivered' \in [Channel -> Seq(Nat)] /\ FramesInOrder'
         /\ Len(delivered'[c]) = Len(delivered[c]) + 1
         /\ \A e \in Channel : e # c => delivered'[e] = delivered[e]
<1>. DEFINE q == delivered[c]
            n == Len(q)
<1>1. /\ delivered \in [Channel -> Seq(Nat)] /\ q \in Seq(Nat) /\ n \in Nat
      /\ frames_sent[c] \in Nat
  BY DEF SessionInv, TypeOK
<1>2. delivered'[c] = Append(q, n + 1) /\ \A e \in Channel : e # c => delivered'[e] = delivered[e]
  BY <1>1
<1>3. Append(q, n + 1) \in Seq(Nat) /\ Len(Append(q, n + 1)) = n + 1
  BY <1>1
<1>4. Append(q, n + 1) = Counted(n + 1)
  <2>1. q = Counted(n)
    BY DEF SessionInv, SessionIsFaithful, FramesInOrder
  <2>2. \A i \in 1 .. n : q[i] = i
    BY <2>1, <1>1 DEF Counted
  <2>. HIDE DEF q, n
  <2>3. \A i \in 1 .. n + 1 : Append(q, n + 1)[i] = i
    BY <1>1, <2>2 DEF n
  <2>4. Append(q, n + 1) = [i \in 1 .. n + 1 |-> Append(q, n + 1)[i]]
    BY <1>1, <1>3 DEF n
  <2>. QED
    BY <2>3, <2>4, Zenon DEF Counted
<1>5. delivered' \in [Channel -> Seq(Nat)]
  BY <1>1, <1>3
<1>6. ASSUME NEW e \in Channel
      PROVE  /\ delivered'[e] = Counted(Len(delivered'[e]))
             /\ Len(delivered'[e]) <= frames_sent[e]
  <2>1. CASE e = c
    <3>1. delivered'[e] = Counted(n + 1) /\ Len(delivered'[e]) = n + 1
      BY <1>2, <1>3, <1>4, <2>1, Zenon
    <3>. QED
      BY <1>1, <2>1, <3>1
  <2>2. CASE e # c
    BY <1>2, <2>2 DEF SessionInv, SessionIsFaithful, FramesInOrder
  <2>. QED
    BY <2>1, <2>2
<1>. QED
  BY <1>2, <1>3, <1>5, <1>6 DEF FramesInOrder

LEMMA ReadFirstFrameKeeps == SessionInv /\ ReadFirstFrame => SessionInv'
<1>. SUFFICES ASSUME SessionInv, ReadFirstFrame PROVE SessionInv'
  OBVIOUS
<1>. USE DEF SessionInv
<1>1. /\ connected /\ accept = "body" /\ pipe[accepted] # <<>>
      /\ delivered' = [delivered EXCEPT ![kind[accepted]] = Append(@, Head(pipe[accepted])[2])]
      /\ pipe' = [pipe EXCEPT ![accepted] = Tail(pipe[accepted])]
      /\ reader' = reader \cup {accepted} /\ accept' = "idle"
      /\ UNCHANGED <<opener, connected, kind, cached_send, frames_sent, writing, run, accepted,
                     parked, httpVars>>
  BY DEF ReadFirstFrame, Current, Next1, Consume, Deliver
<1>2. LiveInv /\ accepted \in Ids /\ kind[accepted] \in Channel
  BY <1>1 DEF TypeOK, LiveInv, AcceptOK, Ids
<1>3. PICK c \in Channel : c = kind[accepted]
  BY <1>2
<1>4. cached_send[c] = accepted /\ accepted # 0
  BY <1>2, <1>3 DEF LiveInv, StreamOK, Ids
<1>5. pipe[accepted] \in Seq(Unit)
  BY <1>4, QueueTypes
<1>6. /\ Head(pipe[accepted]) = Body(Len(delivered[c]) + 1)
      /\ Len(delivered[c]) < frames_sent[c]
      /\ Frames(Tail(pipe[accepted]), c, Len(delivered[c]) + 1, frames_sent[c],
                Bit(writing[c]), 0)
  <2>1. Frames(pipe[accepted], c, Len(delivered[c]), frames_sent[c], Bit(writing[c]), 1)
    <3>1. Begun(c)
      BY <1>1, <1>4 DEF Begun
    <3>2. ChannelOK(c)
      BY <1>2 DEF LiveInv
    <3>. QED
      BY <1>4, <3>1, <3>2 DEF ChannelOK, Bit
  <2>2. Len(delivered[c]) \in Nat /\ frames_sent[c] \in Nat /\ Bit(writing[c]) \in {0, 1}
    BY <1>4, QueueTypes, BitTypes
  <2>3. pipe[accepted] # <<>>
    BY <1>1
  <2>. QED
    BY <1>5, <2>1, <2>2, <2>3, BodyRead
<1>7. /\ delivered' \in [Channel -> Seq(Nat)] /\ FramesInOrder'
      /\ Len(delivered'[c]) = Len(delivered[c]) + 1
      /\ \A e \in Channel : e # c => delivered'[e] = delivered[e]
  <2>1. Head(pipe[accepted])[2] = Len(delivered[c]) + 1
    BY <1>6 DEF Body
  <2>2. delivered' = [delivered EXCEPT ![c] = Append(@, Len(delivered[c]) + 1)]
    BY <1>1, <1>3, <2>1, Zenon
  <2>. QED
    BY <1>1, <1>6, <2>2, Delivering, Zenon
<1>8. Tail(pipe[accepted]) \in Seq(Unit)
  BY <1>1, <1>5, Shortened
<1>9. /\ pipe' \in Seq(Seq(Unit)) /\ Len(pipe') = Len(pipe) /\ Ids' = Ids
      /\ pipe'[accepted] = Tail(pipe[accepted])
      /\ \A r \in Ids : r # accepted => pipe'[r] = pipe[r]
      /\ \A e \in Channel :
           kind[accepted] # e /\ delivered'[e] = delivered[e] /\ Begun(e)' = Begun(e)
           => ChannelOK(e)'
  BY <1>1, <1>2, <1>8, ReadKeeps, Zenon
<1>10. TypeOK'
  BY <1>1, <1>2, <1>7, <1>9, Zenon DEF TypeOK, httpVars
<1>11. SessionIsFaithful'
  BY <1>1, <1>7, Zenon DEF SessionIsFaithful, RunEndsWithConnection, ResponseIsWhole, httpVars
<1>12. ASSUME NEW e \in Channel
       PROVE  ChannelOK(e)'
  <2>1. CASE e = c
    <3>1. Bit(Begun(c))' = 0
      BY <1>1 DEF Begun, Bit
    <3>2. /\ cached_send'[c] # 0 /\ cached_send'[c] = accepted /\ kind'[accepted] = c
          /\ Len(delivered'[c]) = Len(delivered[c]) + 1 /\ frames_sent'[c] = frames_sent[c]
          /\ writing'[c] = writing[c] /\ pipe'[accepted] = Tail(pipe[accepted])
      BY <1>1, <1>3, <1>4, <1>7, <1>9, Zenon
    <3>. QED
      BY <1>6, <2>1, <3>1, <3>2 DEF ChannelOK
  <2>2. CASE e # c
    <3>1. ~Begun(e) /\ ~Begun(e)'
      BY <1>1, <1>2, <1>3, <1>4, <2>2, OwnStream DEF Begun
    <3>2. Begun(e)' = Begun(e)
      BY <3>1 DEF Begun
    <3>. QED
      BY <1>3, <1>7, <1>9, <2>2, <3>2
  <2>. QED
    BY <2>1, <2>2
<1>13. ASSUME NEW s \in Ids
       PROVE  StreamOK(s)'
  <2>1. StreamOK(s)
    BY <1>2 DEF LiveInv
  <2>2. Unread(s)' <=> Unread(s)
    BY <1>1 DEF Unread
  <2>3. CASE s # accepted
    BY <1>1, <1>9, <2>1, <2>2, <2>3, Zenon DEF StreamOK
  <2>4. CASE s = accepted
    <3>1. ~Unread(s)
      BY <1>1, <1>2, <2>4 DEF Unread, Ids
    <3>. QED
      BY <1>1, <1>2, <2>1, <2>2, <2>4, <3>1 DEF StreamOK, Channel
  <2>. QED
    BY <2>3, <2>4
<1>14. AcceptOK'
  BY <1>1 DEF AcceptOK
<1>. QED
  BY <1>9, <1>10, <1>11, <1>12, <1>13, <1>14 DEF LiveInv
LEMMA ReadFrameKeeps ==
  ASSUME SessionInv, NEW s \in Ids, ReadFrame(s)
  PROVE  SessionInv'
<1>. USE DEF SessionInv
<1>1. /\ connected /\ s \in reader /\ Len(pipe[s]) >= 2
      /\ delivered' = [delivered EXCEPT ![kind[s]] = Append(@, pipe[s][2][2])]
      /\ pipe' = [pipe EXCEPT ![s] = Tail(Tail(pipe[s]))]
      /\ UNCHANGED <<opener, connected, kind, cached_send, frames_sent, writing, run, accepted,
                     accept, parked, reader, httpVars>>
  BY DEF ReadFrame
<1>2. LiveInv /\ kind[s] \in Channel /\ ~(s = accepted /\ accept = "body")
  BY <1>1, Zenon DEF LiveInv, StreamOK
<1>3. PICK c \in Channel : c = kind[s]
  BY <1>2
<1>4. cached_send[c] = s /\ s # 0
  BY <1>2, <1>3 DEF LiveInv, StreamOK, Ids
<1>5. pipe[s] \in Seq(Unit) /\ pipe[s] # <<>>
  <2>1. pipe[s] \in Seq(Unit)
    BY <1>4, QueueTypes
  <2>. QED
    BY <1>1, <2>1
<1>6. /\ Tail(pipe[s]) \in Seq(Unit) /\ Tail(pipe[s]) # <<>>
      /\ Head(Tail(pipe[s])) = pipe[s][2]
      /\ Tail(Tail(pipe[s])) \in Seq(Unit)
  <2>1. /\ Tail(pipe[s]) \in Seq(Unit) /\ Len(Tail(pipe[s])) = Len(pipe[s]) - 1
        /\ Tail(pipe[s])[1] = pipe[s][2]
    BY <1>1, <1>5, Shortened
  <2>2. Tail(pipe[s]) # <<>>
    <3>1. Len(pipe[s]) \in Nat
      BY <1>5, LenProperties
    <3>2. Len(Tail(pipe[s])) # 0
      BY <1>1, <2>1, <3>1
    <3>. QED
      BY <2>1, <3>2, EmptySeq, Zenon
  <2>3. Tail(Tail(pipe[s])) \in Seq(Unit) /\ Head(Tail(pipe[s])) = Tail(pipe[s])[1]
    BY <2>1, <2>2, Shortened
  <2>. QED
    BY <2>1, <2>2, <2>3
<1>7. /\ pipe[s][2] = Body(Len(delivered[c]) + 1)
      /\ Len(delivered[c]) < frames_sent[c]
      /\ Frames(Tail(Tail(pipe[s])), c, Len(delivered[c]) + 1, frames_sent[c], Bit(writing[c]), 0)
  <2>0. Len(delivered[c]) \in Nat /\ frames_sent[c] \in Nat /\ Bit(writing[c]) \in {0, 1}
    BY <1>4, QueueTypes, BitTypes
  <2>1. Frames(pipe[s], c, Len(delivered[c]), frames_sent[c], Bit(writing[c]), 0)
    <3>1. ~Begun(c)
      BY <1>2, <1>4 DEF Begun
    <3>2. ChannelOK(c)
      BY <1>2 DEF LiveInv
    <3>. QED
      BY <1>4, <3>1, <3>2 DEF ChannelOK, Bit
  <2>2. Frames(Tail(pipe[s]), c, Len(delivered[c]), frames_sent[c], Bit(writing[c]), 1)
    BY <1>5, <2>0, <2>1, LengthRead
  <2>3. /\ Head(Tail(pipe[s])) = Body(Len(delivered[c]) + 1)
        /\ Len(delivered[c]) < frames_sent[c]
        /\ Frames(Tail(Tail(pipe[s])), c, Len(delivered[c]) + 1, frames_sent[c], Bit(writing[c]), 0)
    <3>1. Tail(pipe[s]) \in Seq(Unit) /\ Tail(pipe[s]) # <<>>
      BY <1>6
    <3>. QED
      BY <2>0, <2>2, <3>1, BodyRead, Zenon
  <2>. QED
    BY <1>6, <2>3
<1>8. /\ delivered' \in [Channel -> Seq(Nat)] /\ FramesInOrder'
      /\ Len(delivered'[c]) = Len(delivered[c]) + 1
      /\ \A e \in Channel : e # c => delivered'[e] = delivered[e]
  <2>1. pipe[s][2][2] = Len(delivered[c]) + 1
    BY <1>7 DEF Body
  <2>2. delivered' = [delivered EXCEPT ![c] = Append(@, Len(delivered[c]) + 1)]
    BY <1>1, <1>3, <2>1
  <2>. QED
    BY <1>1, <1>7, <2>2, Delivering, Zenon
<1>9. /\ pipe' \in Seq(Seq(Unit)) /\ Len(pipe') = Len(pipe) /\ Ids' = Ids
      /\ pipe'[s] = Tail(Tail(pipe[s]))
      /\ \A r \in Ids : r # s => pipe'[r] = pipe[r]
      /\ \A e \in Channel :
           kind[s] # e /\ delivered'[e] = delivered[e] /\ Begun(e)' = Begun(e) => ChannelOK(e)'
  BY <1>1, <1>6, ReadKeeps, Zenon
<1>10. TypeOK'
  BY <1>1, <1>8, <1>9, Zenon DEF TypeOK, httpVars
<1>11. SessionIsFaithful'
  BY <1>1, <1>8 DEF SessionIsFaithful, RunEndsWithConnection, ResponseIsWhole, httpVars
<1>12. ASSUME NEW e \in Channel
       PROVE  ChannelOK(e)'
  <2>1. CASE e = c
    <3>1. Bit(Begun(c))' = 0
      BY <1>1, <1>2, <1>4 DEF Begun, Bit
    <3>2. /\ cached_send'[c] # 0 /\ cached_send'[c] = s /\ kind'[s] = c
          /\ Len(delivered'[c]) = Len(delivered[c]) + 1 /\ frames_sent'[c] = frames_sent[c]
          /\ writing'[c] = writing[c] /\ pipe'[s] = Tail(Tail(pipe[s]))
      BY <1>1, <1>3, <1>4, <1>8, <1>9, Zenon
    <3>. QED
      BY <1>7, <2>1, <3>1, <3>2 DEF ChannelOK
  <2>2. CASE e # c
    <3>1. Begun(e)' = Begun(e)
      BY <1>1 DEF Begun
    <3>. QED
      BY <1>3, <1>8, <1>9, <2>2, <3>1, Zenon
  <2>. QED
    BY <2>1, <2>2
<1>13. ASSUME NEW r \in Ids
       PROVE  StreamOK(r)'
  <2>1. StreamOK(r)
    BY <1>2 DEF LiveInv
  <2>2. Unread(r)' <=> Unread(r)
    BY <1>1 DEF Unread
  <2>3. CASE r # s
    BY <1>1, <1>9, <2>1, <2>2, <2>3, Zenon DEF StreamOK
  <2>4. CASE r = s
    BY <1>1, <1>2, <2>1, <2>2, <2>4 DEF StreamOK, Channel
  <2>. QED
    BY <2>3, <2>4
<1>14. AcceptOK'
  BY <1>1, <1>2 DEF AcceptOK, LiveInv
<1>. QED
  BY <1>9, <1>10, <1>11, <1>12, <1>13, <1>14 DEF LiveInv
-----------------------------------------------------------------------------
(* The steps that leave the streams alone. *)

LEMMA StreamsAlone ==
  ASSUME LiveInv, AcceptOK',
         UNCHANGED <<pipe, kind, cached_send, frames_sent, writing, accepted, parked, reader,
                     delivered>>,
         accept' = accept \/ (accept = "serve" /\ accept' \in {"idle", "serve"})
  PROVE  LiveInv'
<1>1. accept' = "body" <=> accept = "body"
  OBVIOUS
<1>2. accept' = "prefix" <=> accept = "prefix"
  OBVIOUS
<1>3. Ids' = Ids
  BY DEF Ids
<1>4. ASSUME NEW c \in Channel
      PROVE  ChannelOK(c)'
  <2>1. Begun(c)' = Begun(c)
    BY <1>1 DEF Begun
  <2>2. ChannelOK(c)
    BY DEF LiveInv
  <2>. QED
    BY <2>1, <2>2, Zenon DEF ChannelOK
<1>5. ASSUME NEW s \in Ids
      PROVE  StreamOK(s)'
  <2>1. Unread(s)' <=> Unread(s)
    BY <1>2 DEF Unread
  <2>2. StreamOK(s)
    BY DEF LiveInv
  <2>. QED
    BY <1>1, <2>1, <2>2 DEF StreamOK
<1>. QED
  BY <1>3, <1>4, <1>5 DEF LiveInv

LEMMA WriteChunkKeeps == SessionInv /\ WriteChunk => SessionInv'
<1>. SUFFICES ASSUME SessionInv, WriteChunk PROVE SessionInv'
  OBVIOUS
<1>. USE DEF SessionInv
<1>1. /\ connected /\ accept = "serve" /\ accept' \in {"idle", "serve"}
      /\ UNCHANGED <<opener, connected, openerVars, run, accepted, parked, reader, delivered,
                     read, fetch>>
  BY DEF WriteChunk
<1>2. TypeOK'
  BY <1>1 DEF TypeOK, openerVars, Ids
<1>3. SessionIsFaithful'
  BY <1>1 DEF SessionIsFaithful, FramesInOrder, RunEndsWithConnection, ResponseIsWhole, openerVars
<1>4. AcceptOK'
  BY <1>1 DEF AcceptOK, LiveInv
<1>. QED
  BY <1>1, <1>2, <1>3, <1>4, StreamsAlone DEF openerVars

LEMMA FetchKeeps ==
  ASSUME SessionInv, NEW s \in 1 .. MaxStreams, FetchStep(s)
  PROVE  SessionInv'
<1>. USE DEF SessionInv
<1>1. UNCHANGED <<opener, connected, openerVars, run, acceptVars>>
  BY DEF FetchStep, ReadChunk, FetchEnds
<1>2. /\ read' \in [1 .. MaxStreams -> Nat]
      /\ fetch' \in [1 .. MaxStreams -> {"none", "waiting", "ok", "cancelled", "failed"}]
      /\ \A r \in 1 .. MaxStreams :
           r # s => fetch'[r] = fetch[r] /\ read'[r] = read[r]
      /\ fetch'[s] = "ok" => read'[s] = Chunks
      /\ fetch'[s] = "failed" => ~connected
  <2>. DEFINE F == {"none", "waiting", "ok", "cancelled", "failed"}
  <2>0. /\ read \in [1 .. MaxStreams -> Nat]
        /\ fetch \in [1 .. MaxStreams -> F]
    BY DEF TypeOK
  <2>1. CASE ReadChunk(s)
    <3>1. /\ fetch[s] = "waiting" /\ read' = [read EXCEPT ![s] = @ + 1]
          /\ fetch' = [fetch EXCEPT ![s] = IF read'[s] = Chunks THEN "ok" ELSE @]
      BY <2>1 DEF ReadChunk
    <3>2. "ok" \in F /\ "waiting" \in F
      OBVIOUS
    <3>. HIDE DEF F, MaxStreams
    <3>3. /\ read' \in [1 .. MaxStreams -> Nat]
          /\ \A r \in 1 .. MaxStreams : r # s => read'[r] = read[r]
      BY <2>0, <3>1
    <3>4. /\ fetch' \in [1 .. MaxStreams -> F]
          /\ \A r \in 1 .. MaxStreams : r # s => fetch'[r] = fetch[r]
          /\ fetch'[s] = IF read'[s] = Chunks THEN "ok" ELSE "waiting"
      BY <2>0, <3>1, <3>2
    <3>. QED
      BY <3>3, <3>4 DEF F
  <2>2. CASE FetchEnds(s)
    BY <2>2 DEF FetchEnds, TypeOK
  <2>. QED
    BY <2>1, <2>2 DEF FetchStep
<1>3. TypeOK'
  BY <1>1, <1>2 DEF TypeOK, openerVars, acceptVars, Ids
<1>4. SessionIsFaithful'
  <2>1. ResponseIsWhole'
    BY <1>1, <1>2 DEF ResponseIsWhole, SessionIsFaithful
  <2>. QED
    BY <1>1, <2>1
    DEF SessionIsFaithful, FramesInOrder, RunEndsWithConnection, openerVars, acceptVars
<1>5. connected => LiveInv'
  BY <1>1, StreamsAlone DEF openerVars, acceptVars, AcceptOK, LiveInv
<1>. QED
  BY <1>1, <1>3, <1>4, <1>5

LEMMA SendFailsKeeps ==
  ASSUME SessionInv, NEW c \in Channel, SendFails(c)
  PROVE  SessionInv'
<1>. USE DEF SessionInv
<1>1. /\ ~connected'
      /\ cached_send' = [cached_send EXCEPT ![c] = 0]
      /\ writing' = [writing EXCEPT ![c] = FALSE]
      /\ UNCHANGED <<opener, connected, pipe, kind, frames_sent, run, acceptVars, httpVars>>
  BY DEF SendFails
<1>2. TypeOK'
  BY <1>1 DEF TypeOK, acceptVars, httpVars, Ids
<1>3. SessionIsFaithful'
  BY <1>1, Zenon DEF SessionIsFaithful, FramesInOrder, RunEndsWithConnection, ResponseIsWhole,
              acceptVars, httpVars
<1>. QED
  BY <1>1, <1>2, <1>3

LEMMA AcceptEndsKeeps == SessionInv /\ AcceptEnds => SessionInv'
<1>. SUFFICES ASSUME SessionInv, AcceptEnds PROVE SessionInv'
  OBVIOUS
<1>. USE DEF SessionInv
<1>1. /\ ~connected' /\ accept' = "ended" /\ parked' = {} /\ reader' = {}
      /\ UNCHANGED <<opener, connected, openerVars, run, accepted, delivered, httpVars>>
  BY DEF AcceptEnds
<1>2. TypeOK'
  BY <1>1 DEF TypeOK, openerVars, httpVars, Ids
<1>3. SessionIsFaithful'
  BY <1>1 DEF SessionIsFaithful, FramesInOrder, RunEndsWithConnection, ResponseIsWhole,
              openerVars, httpVars
<1>. QED
  BY <1>1, <1>2, <1>3

LEMMA DisconnectKeeps == SessionInv /\ Disconnect => SessionInv'
<1>. SUFFICES ASSUME SessionInv, Disconnect PROVE SessionInv'
  OBVIOUS
<1>. USE DEF SessionInv
<1>1. ~connected' /\ UNCHANGED <<opener, openerVars, run, acceptVars, httpVars>>
      /\ connected' \in BOOLEAN
  BY Zenon DEF Disconnect
<1>2. TypeOK'
  BY <1>1 DEF TypeOK, openerVars, acceptVars, httpVars, Ids
<1>3. SessionIsFaithful'
  BY <1>1, Zenon DEF SessionIsFaithful, FramesInOrder, RunEndsWithConnection, ResponseIsWhole,
              openerVars, acceptVars, httpVars
<1>. QED
  BY <1>1, <1>2, <1>3

(* The bunch of the dialer's run is parked when it has been accepted, so that *)
(* its readers end with the connection only.                                  *)
LEMMA RunEndsKeeps == SessionInv /\ RunEnds => SessionInv'
<1>. SUFFICES ASSUME SessionInv, RunEnds PROVE SessionInv'
  OBVIOUS
<1>. USE DEF SessionInv
<1>1. /\ ~connected \/ BunchDropped
      /\ run' = "ended" /\ UNCHANGED <<opener, connected, openerVars, acceptVars, httpVars>>
  BY DEF RunEnds
<1>2. ~connected
  <2>. SUFFICES ASSUME connected PROVE FALSE
    OBVIOUS
  <2>1. PICK s \in Ids : /\ kind[s] = "bunch" /\ s <= accepted /\ s \notin parked
                         /\ ~(s = accepted /\ accept = "prefix")
    BY <1>1 DEF BunchDropped
  <2>2. Unread(s)
    BY <2>1 DEF LiveInv, StreamOK
  <2>3. s \in Nat /\ accepted \in Nat
    BY DEF TypeOK, Ids
  <2>. QED
    BY <2>1, <2>2, <2>3 DEF Unread
<1>3. TypeOK'
  BY <1>1 DEF TypeOK, openerVars, acceptVars, httpVars, Ids
<1>4. SessionIsFaithful'
  BY <1>1, <1>2 DEF SessionIsFaithful, FramesInOrder, RunEndsWithConnection, ResponseIsWhole,
                    openerVars, acceptVars, httpVars
<1>. QED
  BY <1>1, <1>2, <1>3, <1>4
-----------------------------------------------------------------------------
LEMMA SessionStarts == Init => SessionInv
<1>. SUFFICES ASSUME Init PROVE SessionInv
  OBVIOUS
<1>1. /\ pipe = <<>> /\ kind = <<>> /\ Len(pipe) = 0 /\ Len(kind) = 0 /\ Ids = {}
      /\ pipe \in Seq(Seq(Unit)) /\ kind \in Seq(Kind)
  BY DEF Init, Ids
<1>2. \A c \in Channel : /\ cached_send[c] = 0 /\ frames_sent[c] = 0 /\ delivered[c] = <<>>
                         /\ ~writing[c]
  BY DEF Init
<1>3. delivered \in [Channel -> Seq(Nat)]
  <2>1. <<>> \in Seq(Nat)
    OBVIOUS
  <2>. QED
    BY <2>1 DEF Init
<1>4. TypeOK
  BY <1>1, <1>3 DEF Init, TypeOK
<1>5. FramesInOrder
  <2>1. Counted(0) = <<>> /\ Len(<<>>) = 0
    BY DEF Counted
  <2>. QED
    BY <1>2, <2>1 DEF FramesInOrder
<1>6. SessionIsFaithful
  BY <1>5 DEF Init, SessionIsFaithful, RunEndsWithConnection, ResponseIsWhole
<1>7. LiveInv
  BY <1>1, <1>2 DEF LiveInv, ChannelOK, AcceptOK, Init
<1>. QED
  BY <1>4, <1>6, <1>7 DEF SessionInv

LEMMA SessionStep == SessionInv /\ [Next]_vars => SessionInv'
<1>. SUFFICES ASSUME SessionInv, [Next]_vars PROVE SessionInv'
  OBVIOUS
<1>1. CASE OpenerStep
  BY <1>1, StartRunKeeps, RequestKeeps, SendLengthKeeps DEF OpenerStep
<1>2. CASE AcceptStep
  <2>1. Accept
    BY <1>2 DEF AcceptStep, server_accept_bi_task, client_accept_bi_task
  <2>. QED
    BY <2>1, AcceptBiKeeps, ParkKeeps, ReadPrefixKeeps, ReadFirstFrameKeeps, WriteChunkKeeps,
       AcceptEndsKeeps DEF Accept
<1>3. CASE RunEnds
  BY <1>3, RunEndsKeeps
<1>4. CASE Disconnect
  BY <1>4, DisconnectKeeps
<1>5. CASE \E c \in Channel : WriterStep(c)
  BY <1>5, SendBodyKeeps, SendFailsKeeps DEF WriterStep
<1>6. CASE \E s \in 1..MaxStreams : FetchStep(s)
  BY <1>6, FetchKeeps
<1>7. CASE \E s \in Ids : ReaderStep(s)
  BY <1>7, ReadFrameKeeps DEF ReaderStep, server_stream_reader_task, server_stream_c_reader_task,
                              client_stream_c_reader_task
<1>8. CASE UNCHANGED vars
  <2>1. UNCHANGED <<opener, connected, openerVars, run, acceptVars, httpVars>>
    BY <1>8 DEF vars
  <2>2. TypeOK'
    BY <2>1 DEF SessionInv, TypeOK, openerVars, acceptVars, httpVars, Ids
  <2>3. SessionIsFaithful'
    BY <2>1 DEF SessionInv, SessionIsFaithful, FramesInOrder, RunEndsWithConnection,
                ResponseIsWhole, openerVars, acceptVars, httpVars
  <2>4. connected => LiveInv'
    BY <2>1, StreamsAlone DEF SessionInv, openerVars, acceptVars, AcceptOK, LiveInv
  <2>. QED
    BY <2>1, <2>2, <2>3, <2>4 DEF SessionInv
<1>. QED
  BY <1>1, <1>2, <1>3, <1>4, <1>5, <1>6, <1>7, <1>8 DEF Next

(* The accept loop and the reader tasks of a session hand on the frames of    *)
(* each channel in the order in which they were sent, each once, whoever of   *)
(* the two reads them; a response is whole or an error; and the dialer's run  *)
(* does not end while the connection is up, since the streams of its bunch    *)
(* are parked. For every load, window and length of a response.               *)
THEOREM SessionsFaithful == Spec => []SessionIsFaithful
<1>1. Spec => []SessionInv
  BY SessionStarts, SessionStep, PTL DEF Spec
<1>2. SessionInv => SessionIsFaithful
  BY DEF SessionInv
<1>. QED
  BY <1>1, <1>2, PTL
=============================================================================
