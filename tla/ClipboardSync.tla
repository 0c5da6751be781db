--------------------------- MODULE ClipboardSync ---------------------------
(***************************************************************************)
(* Text and image clipboard synchronisation between two daemons: on each,  *)
(* the OS clipboard behind its backend, the poller task that reads it      *)
(* every 500 ms and executes the writes, the service loop that dispatches  *)
(* what the poller found and applies what the peer offers, one task per    *)
(* inbound image, and the HTTP/3 side that serves the offered bodies.      *)
(*                                                                         *)
(* A text is offered inline when it is small; a large text, and every      *)
(* image, is offered by its hash and fetched by the receiver.  Hashes are  *)
(* the items themselves.  The loopback fingerprints (LruFingerprints) are  *)
(* queues of hashes whose oldest member lapses after a minute.             *)
(*                                                                         *)
(* unsent and lapsed are history variables: what the local user has copied *)
(* and was not dispatched yet, and which fingerprints and bodies have      *)
(* outlived their time to live.                                            *)
(***************************************************************************)
EXTENDS ClipboardCache

CONSTANTS
  Host,        \* the two daemons
  Platform,    \* [Host -> {"macos", "windows", "linux"}]
  Dialer,      \* the daemon that dials the other (it gets the recover push)
  Small,       \* texts at most CLIPBOARD_TEXT_INLINE_LIMIT long
  Big,         \* longer texts
  Pixels,      \* pictures
  NoItem,      \* nothing: an empty clipboard, an unset field
  Plans,       \* what users may copy in a run: [Host -> SUBSET (Text \cup Pixels)]
  QueueCap,    \* bound on what the poller may be ahead of the service
  LruCap,      \* capacity of a loopback queue
  MaxCopies,   \* bound on what users copy
  MaxFaults    \* bound on lapsed fingerprints, aged caches, lost connections

VARIABLES
  content,     \* the OS clipboard of each host
  text_rx, image_rx,            \* poller -> service
  clipboard_last_text,
  clipboard_lru, image_lru_fingerprints,
  last_outbound_text_sha, last_outbound_image_sha,
  clipboard_cache,
  inbound,     \* the peer's stream C, up to clipboard_inbound_rx
  service,     \* where the service loop is suspended: <<"idle", NoItem>> ...
  tasks,       \* image apply tasks: <<stage, inbound image>>
  applied_rx,  \* their results: <<inbound image, image read back>>
  push_notify, \* recover pushes owed (clipboard_push_notify_rx)
  linked,      \* the connection is up
  plan,        \* the plan of this run
  unsent, lapsed, copies, faults

serviceVars == <<clipboard_last_text, clipboard_lru, image_lru_fingerprints,
                 last_outbound_text_sha, last_outbound_image_sha>>
histVars == <<plan, unsent, lapsed, copies, faults>>
syncVars == <<content, text_rx, image_rx, serviceVars, clipboard_cache, inbound,
              service, tasks, applied_rx, push_notify, linked, histVars>>

Text == Small \cup Big
Image == Pixels \X {"png0", "png", "dib"}
Item == Text \cup Image
Peer(h) == CHOOSE g \in Host : g # h
Idle == <<"idle", NoItem>>

(* The backends: what a copied picture is read back as, and what a write of *)
(* the image i leaves on the clipboard (NoItem: the write is an error).     *)
(* macOS and Linux keep PNG bytes, Windows transcodes to DIB; macOS turns   *)
(* a DIB into a PNG of its own encoding, Linux cannot decode a raw DIB.     *)
Captured(h, p) == <<p, IF Platform[h] = "windows" THEN "dib" ELSE "png0">>

Written(h, i) ==
  CASE Platform[h] = "windows" -> <<i[1], "dib">>
    [] Platform[h] = "macos"   -> IF i[2] = "dib" THEN <<i[1], "png">> ELSE i
    [] Platform[h] = "linux"   -> IF i[2] = "dib" THEN NoItem ELSE i

(* LruFingerprints: push drops the oldest at capacity; contains is a plain *)
(* membership once the lapsed front is gone (Lapse below).                 *)
LruPush(q, x) == Append(IF Len(q) >= LruCap THEN Tail(q) ELSE q, x)

\* mutated: the newest fingerprint is not looked at
LruContainsOlder(q, x) == \E i \in 1 .. Len(q) - 1 : q[i] = x

LruContains(q, x) == \E i \in DOMAIN q : q[i] = x

TypeOK ==
  /\ content \in [Host -> Item \cup {NoItem}]
  /\ text_rx \in [Host -> Seq(Text)] /\ image_rx \in [Host -> Seq(Image)]
  /\ clipboard_last_text \in [Host -> Text \cup {NoItem}]
  /\ clipboard_lru \in [Host -> Seq(Text)]
  /\ image_lru_fingerprints \in [Host -> Seq(Image)]
  /\ last_outbound_text_sha \in [Host -> Text \cup {NoItem}]
  /\ last_outbound_image_sha \in [Host -> Image \cup {NoItem}]
  /\ \A h \in Host : CacheConsistent(clipboard_cache[h])
  /\ inbound \in [Host -> Seq(Item)]
  /\ service \in [Host -> {Idle} \cup ({"cast", "get", "set"} \X Text)]
  /\ tasks \in [Host -> SUBSET ({"fetch", "write", "reread"} \X Image)]
  /\ applied_rx \in [Host -> Seq(Image \X (Image \cup {NoItem}))]
  /\ push_notify \in [Host -> BOOLEAN] /\ linked \in BOOLEAN

SyncInit ==
  /\ content = [h \in Host |-> NoItem]
  /\ text_rx = [h \in Host |-> <<>>] /\ image_rx = [h \in Host |-> <<>>]
  /\ clipboard_last_text = [h \in Host |-> NoItem]
  /\ clipboard_lru = [h \in Host |-> <<>>]
  /\ image_lru_fingerprints = [h \in Host |-> <<>>]
  /\ last_outbound_text_sha = [h \in Host |-> NoItem]
  /\ last_outbound_image_sha = [h \in Host |-> NoItem]
  /\ clipboard_cache = [h \in Host |-> CacheNew]
  /\ inbound = [h \in Host |-> <<>>]
  /\ service = [h \in Host |-> Idle]
  /\ tasks = [h \in Host |-> {}] /\ applied_rx = [h \in Host |-> <<>>]
  /\ push_notify = [h \in Host |-> FALSE] /\ linked = TRUE
  /\ plan \in Plans /\ unsent = [h \in Host |-> {}]
  /\ lapsed = [h \in Host |-> {}]
  /\ copies = 0 /\ faults = 0

Put(f, h, x) == [f EXCEPT ![h] = x]

-----------------------------------------------------------------------------
(* The user and the clock. *)

\* The user copies x (a text or a picture) on host h.
Copy(h) ==
  /\ copies < MaxCopies /\ copies' = copies + 1
  /\ \E x \in (Text \cap plan[h]) \cup {Captured(h, p) : p \in Pixels \cap plan[h]} :
       /\ content' = Put(content, h, x)
       /\ unsent' = Put(unsent, h, unsent[h] \cup {x})
  /\ UNCHANGED <<text_rx, image_rx, serviceVars, clipboard_cache, inbound, service,
                 tasks, applied_rx, push_notify, linked, plan, lapsed, faults>>

\* A minute outlasts a poll and its dispatch: fingerprints lapse only on a
\* host that has caught up with its own clipboard.
Settled(h) ==
  /\ text_rx[h] = <<>> /\ image_rx[h] = <<>> /\ applied_rx[h] = <<>>
  /\ inbound[h] = <<>> /\ service[h] = Idle /\ tasks[h] = {} /\ ~push_notify[h]
  /\ content[h] \in Text => clipboard_last_text[h] = content[h]
  /\ content[h] \in Image =>
       \/ LruContains(image_lru_fingerprints[h], content[h])
       \/ last_outbound_image_sha[h] = content[h]

Lapse(h) ==
  /\ Settled(h)
  /\ faults < MaxFaults
  /\ faults' = faults + 1
  /\ \/ /\ clipboard_lru[h] # <<>>
        /\ clipboard_lru' = Put(clipboard_lru, h, Tail(clipboard_lru[h]))
        /\ lapsed' = Put(lapsed, h, lapsed[h] \cup {Head(clipboard_lru[h])})
        /\ UNCHANGED <<image_lru_fingerprints, clipboard_cache>>
     \/ /\ image_lru_fingerprints[h] # <<>>
        /\ image_lru_fingerprints' =
             Put(image_lru_fingerprints, h, Tail(image_lru_fingerprints[h]))
        /\ lapsed' = Put(lapsed, h, lapsed[h] \cup {Head(image_lru_fingerprints[h])})
        /\ UNCHANGED <<clipboard_lru, clipboard_cache>>
     \/ /\ clipboard_cache[h].entries # clipboard_cache[h].expired
        /\ clipboard_cache' = Put(clipboard_cache, h, CacheAge(clipboard_cache[h]))
        /\ lapsed' = Put(lapsed, h, lapsed[h] \cup clipboard_cache[h].entries)
        /\ UNCHANGED <<clipboard_lru, image_lru_fingerprints>>
  /\ UNCHANGED <<content, text_rx, image_rx, clipboard_last_text, last_outbound_text_sha,
                 last_outbound_image_sha, inbound, service, tasks, applied_rx,
                 push_notify, linked, plan, unsent, copies>>

\* The connection is lost, and what was on it; dialing again owes the dialer
\* a recover push.
DropLink ==
  /\ linked /\ faults < MaxFaults /\ faults' = faults + 1
  /\ linked' = FALSE
  /\ inbound' = [h \in Host |-> <<>>]
  /\ UNCHANGED <<content, text_rx, image_rx, serviceVars, clipboard_cache, service,
                 tasks, applied_rx, push_notify, plan, unsent, lapsed, copies>>

Relink ==
  /\ ~linked /\ linked' = TRUE
  /\ push_notify' = Put(push_notify, Dialer, TRUE)
  /\ UNCHANGED <<content, text_rx, image_rx, serviceVars, clipboard_cache, inbound,
                 service, tasks, applied_rx, histVars>>

-----------------------------------------------------------------------------
(* The poller task (clipboard_poller) and the writes it executes. *)

\* A tick: an image on the clipboard goes to the image channel, otherwise its
\* text to the text channel.
Poll(h) ==
  \/ /\ content[h] \in Image /\ Len(image_rx[h]) < QueueCap
     /\ image_rx' = Put(image_rx, h, Append(image_rx[h], content[h]))
     /\ UNCHANGED <<content, text_rx, serviceVars, clipboard_cache, inbound, service,
                    tasks, applied_rx, push_notify, linked, histVars>>
  \/ /\ content[h] \in Text /\ Len(text_rx[h]) < QueueCap
     /\ text_rx' = Put(text_rx, h, Append(text_rx[h], content[h]))
     /\ UNCHANGED <<content, image_rx, serviceVars, clipboard_cache, inbound, service,
                    tasks, applied_rx, push_notify, linked, histVars>>

\* BackendCmd::SetText and the rest of apply_inbound_clipboard_text, which is
\* suspended on its reply.  A failed write leaves the fingerprint behind.
SetText(h) ==
  /\ service[h][1] = "set"
  /\ service' = Put(service, h, Idle)
  /\ \/ /\ content' = Put(content, h, service[h][2])
        /\ clipboard_last_text' = Put(clipboard_last_text, h, NoItem)
     \/ /\ faults < MaxFaults
        /\ UNCHANGED <<content, clipboard_last_text>>
  /\ faults' = IF content' = content THEN faults + 1 ELSE faults
  /\ UNCHANGED <<text_rx, image_rx, clipboard_lru, image_lru_fingerprints,
                 last_outbound_text_sha, last_outbound_image_sha, clipboard_cache,
                 inbound, tasks, applied_rx, push_notify, linked, plan, unsent,
                 lapsed, copies>>

-----------------------------------------------------------------------------
(* The service loop: outbound. *)

\* broadcast_clipboard_event: the offer reaches the peer while it is linked.
Broadcast(h, x) ==
  inbound' = IF linked THEN Put(inbound, Peer(h), Append(inbound[Peer(h)], x))
             ELSE inbound


EvictPrev(c, prev) == IF prev = NoItem THEN c ELSE CacheRemove(c, prev)

\* The part dispatch_text and the recover push share: fingerprint, last text,
\* eviction of the previous offer, broadcast.  The body of a large text is
\* cached only after the broadcast has been awaited (CastDone).
PushText(h, t) ==
  /\ clipboard_lru' = Put(clipboard_lru, h, LruPush(clipboard_lru[h], t))
  /\ clipboard_last_text' = Put(clipboard_last_text, h, t)
  /\ clipboard_cache' = Put(clipboard_cache, h,
                            EvictPrev(clipboard_cache[h], last_outbound_text_sha[h]))
  /\ Broadcast(h, t)
  /\ unsent' = Put(unsent, h, unsent[h] \ {t})
  /\ service' = IF t \in Big THEN Put(service, h, <<"cast", t>>) ELSE service
  /\ last_outbound_text_sha' =
       IF t \in Big THEN last_outbound_text_sha ELSE Put(last_outbound_text_sha, h, t)

CastDone(h) ==
  /\ service[h][1] = "cast"
  /\ clipboard_cache' = Put(clipboard_cache, h,
                            CacheInsert(clipboard_cache[h], service[h][2]))
  /\ last_outbound_text_sha' = Put(last_outbound_text_sha, h, service[h][2])
  /\ service' = Put(service, h, Idle)
  /\ UNCHANGED <<content, text_rx, image_rx, clipboard_last_text, clipboard_lru,
                 image_lru_fingerprints, last_outbound_image_sha, inbound, tasks,
                 applied_rx, push_notify, linked, histVars>>

DispatchText(h) ==
  /\ service[h] = Idle /\ text_rx[h] # <<>>
  /\ text_rx' = Put(text_rx, h, Tail(text_rx[h]))
  /\ LET t == Head(text_rx[h]) IN
       \/ /\ \/ t = clipboard_last_text[h]
             \/ LruContains(clipboard_lru[h], t)
          /\ clipboard_last_text' = Put(clipboard_last_text, h, t)
          /\ UNCHANGED <<clipboard_lru, clipboard_cache, inbound, unsent, service,
                         last_outbound_text_sha>>
       \/ /\ t # clipboard_last_text[h] /\ ~LruContains(clipboard_lru[h], t)
          /\ PushText(h, t)
  /\ UNCHANGED <<content, image_rx, image_lru_fingerprints, last_outbound_image_sha,
                 tasks, applied_rx, push_notify, linked, plan, lapsed, copies, faults>>

\* handle_clipboard_recover_push: the current text, whatever its fingerprint.
RecoverPush(h) ==
  /\ service[h] = Idle /\ push_notify[h]
  /\ push_notify' = Put(push_notify, h, FALSE)
  /\ \/ /\ content[h] \in Text /\ PushText(h, content[h])
     \/ /\ content[h] \notin Text
        /\ UNCHANGED <<clipboard_lru, clipboard_last_text, clipboard_cache, inbound,
                       unsent, service, last_outbound_text_sha>>
  /\ UNCHANGED <<content, text_rx, image_rx, image_lru_fingerprints,
                 last_outbound_image_sha, tasks, applied_rx, linked, plan, lapsed,
                 copies, faults>>

\* dispatch_image: the body is cached before the offer is broadcast.
DispatchImage(h) ==
  /\ service[h] = Idle /\ image_rx[h] # <<>>
  /\ image_rx' = Put(image_rx, h, Tail(image_rx[h]))
  /\ LET i == Head(image_rx[h]) IN
       \/ /\ \/ LruContains(image_lru_fingerprints[h], i)
             \/ i = last_outbound_image_sha[h]
          /\ UNCHANGED <<clipboard_cache, inbound, unsent, last_outbound_image_sha>>
       \/ /\ ~LruContains(image_lru_fingerprints[h], i)
          /\ i # last_outbound_image_sha[h]
          /\ clipboard_cache' =
               Put(clipboard_cache, h,
                   CacheInsert(EvictPrev(clipboard_cache[h],
                                         last_outbound_image_sha[h]), i))
          /\ Broadcast(h, i)
          /\ unsent' = Put(unsent, h, unsent[h] \ {i})
          /\ last_outbound_image_sha' = Put(last_outbound_image_sha, h, i)
  /\ UNCHANGED <<content, text_rx, clipboard_last_text, clipboard_lru,
                 image_lru_fingerprints, last_outbound_text_sha, service, tasks,
                 applied_rx, push_notify, linked, plan, lapsed, copies, faults>>

-----------------------------------------------------------------------------
(* The service loop: inbound. *)

\* mutated: the text is fingerprinted before it is looked for
InboundTextMarksFirst(h) ==
  /\ service[h] = Idle /\ inbound[h] # <<>> /\ Head(inbound[h]) \in Text
  /\ inbound' = Put(inbound, h, Tail(inbound[h]))
  /\ clipboard_lru' = Put(clipboard_lru, h, LruPush(clipboard_lru[h], Head(inbound[h])))
  /\ UNCHANGED <<content, text_rx, image_rx, clipboard_last_text, image_lru_fingerprints,
                 last_outbound_text_sha, last_outbound_image_sha, clipboard_cache, service,
                 tasks, applied_rx, push_notify, linked, histVars>>

\* handle_clipboard_inbound for a text: a fingerprint hit is skipped, an inline
\* text is marked and written, a large one is fetched first.
InboundText(h) ==
  /\ service[h] = Idle /\ inbound[h] # <<>> /\ Head(inbound[h]) \in Text
  /\ inbound' = Put(inbound, h, Tail(inbound[h]))
  /\ LET t == Head(inbound[h]) IN
       \/ /\ LruContains(clipboard_lru[h], t) \/ (t \in Big /\ ~linked)
          /\ UNCHANGED <<clipboard_lru, service>>
       \/ /\ ~LruContains(clipboard_lru[h], t) /\ t \in Small
          /\ clipboard_lru' = Put(clipboard_lru, h, LruPush(clipboard_lru[h], t))
          /\ service' = Put(service, h, <<"set", t>>)
       \/ /\ ~LruContains(clipboard_lru[h], t) /\ t \in Big /\ linked
          /\ service' = Put(service, h, <<"get", t>>)
          /\ UNCHANGED clipboard_lru
  /\ UNCHANGED <<content, text_rx, image_rx, clipboard_last_text, image_lru_fingerprints,
                 last_outbound_text_sha, last_outbound_image_sha, clipboard_cache, tasks,
                 applied_rx, push_notify, linked, histVars>>

\* The peer serves a GET from its cache; a miss (404) drops the text for good.
GetText(h) ==
  /\ service[h][1] = "get"
  /\ LET t == service[h][2]
         hit == linked /\ CacheHit(clipboard_cache[Peer(h)], t)
     IN  /\ clipboard_cache' =
              IF linked
              THEN Put(clipboard_cache, Peer(h), CacheLookup(clipboard_cache[Peer(h)], t))
              ELSE clipboard_cache
         /\ clipboard_lru' =
              IF hit THEN Put(clipboard_lru, h, LruPush(clipboard_lru[h], t))
              ELSE clipboard_lru
         /\ service' = Put(service, h, IF hit THEN <<"set", t>> ELSE Idle)
  /\ UNCHANGED <<content, text_rx, image_rx, clipboard_last_text, image_lru_fingerprints,
                 last_outbound_text_sha, last_outbound_image_sha, inbound, tasks,
                 applied_rx, push_notify, linked, histVars>>

\* handle_clipboard_inbound for an image: a task fetches and writes it.
InboundImage(h) ==
  /\ service[h] = Idle /\ inbound[h] # <<>> /\ Head(inbound[h]) \in Image
  /\ inbound' = Put(inbound, h, Tail(inbound[h]))
  /\ LET i == Head(inbound[h]) IN
       tasks' = IF LruContains(image_lru_fingerprints[h], i) \/ ~linked THEN tasks
                ELSE Put(tasks, h, tasks[h] \cup {<<"fetch", i>>})
  /\ UNCHANGED <<content, text_rx, image_rx, serviceVars, clipboard_cache, service,
                 applied_rx, push_notify, linked, histVars>>

MoveTask(h, a, b) == tasks' = Put(tasks, h, (tasks[h] \ {a}) \cup b)

FetchImage(h) ==
  \E i \in Image :
    /\ <<"fetch", i>> \in tasks[h]
    /\ MoveTask(h, <<"fetch", i>>,
                IF linked /\ CacheHit(clipboard_cache[Peer(h)], i)
                THEN {<<"write", i>>} ELSE {})
    /\ clipboard_cache' =
         IF linked
         THEN Put(clipboard_cache, Peer(h), CacheLookup(clipboard_cache[Peer(h)], i))
         ELSE clipboard_cache
    /\ UNCHANGED <<content, text_rx, image_rx, serviceVars, inbound, service,
                   applied_rx, push_notify, linked, histVars>>

\* BackendCmd::SetImage / SetDibImage, executed by the poller.
WriteImage(h) ==
  \E i \in Image :
    /\ <<"write", i>> \in tasks[h]
    /\ LET w == Written(h, i) IN
         \/ /\ w # NoItem
            /\ content' = Put(content, h, w)
            /\ MoveTask(h, <<"write", i>>, {<<"reread", i>>})
         \/ /\ w = NoItem
            /\ MoveTask(h, <<"write", i>>, {})
            /\ UNCHANGED content
    /\ UNCHANGED <<text_rx, image_rx, serviceVars, clipboard_cache, inbound, service,
                   applied_rx, push_notify, linked, histVars>>

\* BackendCmd::CurrentImage: what the write left on the clipboard.
RereadImage(h) ==
  \E i \in Image :
    /\ <<"reread", i>> \in tasks[h]
    /\ MoveTask(h, <<"reread", i>>, {})
    /\ applied_rx' =
         Put(applied_rx, h,
             Append(applied_rx[h],
                    <<i, IF content[h] \in Image THEN content[h] ELSE NoItem>>))
    /\ UNCHANGED <<content, text_rx, image_rx, serviceVars, clipboard_cache, inbound,
                   service, push_notify, linked, histVars>>

\* handle_inbound_image_applied: only now are the two hashes fingerprinted.
MarkImages(q, r) == LET p == LruPush(q, r[1])
                    IN  IF r[2] = NoItem THEN p ELSE LruPush(p, r[2])

ImageApplied(h) ==
  /\ service[h] = Idle /\ applied_rx[h] # <<>>
  /\ applied_rx' = Put(applied_rx, h, Tail(applied_rx[h]))
  /\ image_lru_fingerprints' =
       Put(image_lru_fingerprints, h,
           MarkImages(image_lru_fingerprints[h], Head(applied_rx[h])))
  /\ UNCHANGED <<content, text_rx, image_rx, clipboard_last_text, clipboard_lru,
                 last_outbound_text_sha, last_outbound_image_sha, clipboard_cache,
                 inbound, service, tasks, push_notify, linked, histVars>>

-----------------------------------------------------------------------------
HostStep(h) ==
  \/ Copy(h) \/ Lapse(h) \/ Poll(h) \/ SetText(h) \/ CastDone(h)
  \/ DispatchText(h) \/ RecoverPush(h) \/ DispatchImage(h)
  \/ InboundText(h) \/ GetText(h) \/ InboundImage(h) \/ FetchImage(h)
  \/ WriteImage(h) \/ RereadImage(h) \/ ImageApplied(h)

Next == DropLink \/ Relink \/ \E h \in Host : HostStep(h)

Spec == SyncInit /\ [][Next]_syncVars

(* The poller's interval keeps ticking; select! polls its branches in random *)
(* order, so a ready branch is taken; a fetch is answered or fails.          *)
Fairness ==
  \A h \in Host :
    /\ WF_syncVars(Poll(h)) /\ WF_syncVars(SetText(h)) /\ WF_syncVars(CastDone(h))
    /\ WF_syncVars(DispatchText(h)) /\ WF_syncVars(DispatchImage(h))
    /\ WF_syncVars(RecoverPush(h))
    /\ WF_syncVars(InboundText(h)) /\ WF_syncVars(GetText(h))
    /\ WF_syncVars(InboundImage(h)) /\ WF_syncVars(FetchImage(h))
    /\ WF_syncVars(WriteImage(h)) /\ WF_syncVars(RereadImage(h))
    /\ WF_syncVars(ImageApplied(h))

LiveSpec == Spec /\ Fairness

-----------------------------------------------------------------------------

\* A small text neither side has fingerprinted reaches the peer's clipboard,
\* unless the user replaces it first or something fails on the way.
SmallTextArrives ==
  \A h \in Host : \A t \in Small :
    (/\ content[h] = t
     /\ \A g \in Host : ~LruContains(clipboard_lru[g], t))
      ~> (content[Peer(h)] = t \/ content[h] # t \/ faults > 0)

\* No text bounces between the daemons.  A text is dispatched only if the local
\* user copied it and that copy has not been dispatched, or its loopback
\* fingerprint has lapsed: what a peer's text leaves on the clipboard is not
\* offered back within the minute.  And the two come to rest: once the users
\* stop copying, no text travels.
EchoesEnd ==
  /\ [][\A h \in Host :
          DispatchText(h) /\ clipboard_lru'[h] # clipboard_lru[h] =>
            Head(text_rx[h]) \in unsent[h] \cup lapsed[h]]_syncVars
  /\ <>[](\A h \in Host : \A n \in DOMAIN inbound[h] : inbound[h][n] \notin Text)
=============================================================================
