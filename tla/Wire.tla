-------------------------------- MODULE Wire --------------------------------
(***************************************************************************)
(* The byte formats: the codec of ProtoEvent (a fixed-size one for input   *)
(* and control events, a variable-size one for clipboard events), the      *)
(* length-prefixed frames of the streams, the request and response frames  *)
(* of HTTP/3-lite, and the test of the first four bytes that tells a       *)
(* request from a frame.  Bytes are 0..255 and integers are big-endian.    *)
(* An event is <<type, fields>>; Layout gives each type its field kinds,   *)
(* so that one encoder and one decoder stand for the code's match arms.    *)
(* Floats, hashes and strings are opaque runs of bytes.                    *)
(***************************************************************************)
EXTENDS Integers, Sequences, SequencesExt, FiniteSets

CONSTANTS
  HashLen,           \* length of a hash (32)
  InlineLimit        \* CLIPBOARD_TEXT_INLINE_LIMIT

Byte == 0..255
MAX_EVENT_SIZE == 21
Zeros(n) == [i \in 1..n |-> 0]

\* to_be_bytes and from_be_bytes, for a width in bytes.
BE(n, width) ==
  LET shifted[k \in 0..width] == IF k = 0 THEN n ELSE shifted[k - 1] \div 256
  IN [i \in 1..width |-> shifted[width - i] % 256]
FromBE(bytes) == FoldLeft(LAMBDA acc, b : acc * 256 + b, 0, bytes)

Width == [u8 |-> 1, bool |-> 1, position |-> 1, u32 |-> 4, u64 |-> 8]
Opaque == [f64 |-> 8, tag |-> 8, hash |-> HashLen]

\* enum EventType, in the order of its discriminants.
EventTypes == <<"PointerMotion", "PointerButton", "PointerAxis", "PointerAxisValue120",
  "KeyboardKey", "KeyboardModifiers", "Ping", "Pong", "Enter", "Leave", "Ack", "Hello",
  "ClipboardText", "ClipboardImage", "ClipboardFiles", "FileTransferOffer",
  "FileTransferResponse", "FileTransferCancel", "ClipboardRequest">>
Discriminant(type) == (CHOOSE i \in DOMAIN EventTypes : EventTypes[i] = type) - 1
IsFixed(type) == Discriminant(type) < 12

FixedLayout == [
  PointerMotion |-> <<"u32", "f64", "f64">>, PointerButton |-> <<"u32", "u32", "u32">>,
  PointerAxis |-> <<"u32", "u8", "f64">>, PointerAxisValue120 |-> <<"u8", "u32">>,
  KeyboardKey |-> <<"u32", "u32", "u8">>,
  KeyboardModifiers |-> <<"u32", "u32", "u32", "u32">>,
  Ping |-> <<>>, Pong |-> <<"bool">>, Enter |-> <<"position">>, Leave |-> <<"u32">>,
  Ack |-> <<"u32">>, Hello |-> <<"tag", "tag">>]
VarLayout == [
  ClipboardText |-> <<"hash", "hash", "u64", "inline">>,
  ClipboardImage |-> <<"hash", "string", "hash", "u64">>,
  ClipboardFiles |-> <<"hash", "entries">>,
  FileTransferOffer |-> <<"hash", "string", "u64", "string">>,
  FileTransferResponse |-> <<"hash", "bool">>,
  FileTransferCancel |-> <<"hash">>, ClipboardRequest |-> <<"hash">>]
FileEntryLayout == <<"string", "u64", "string", "hash">>
Layout(type) == IF IsFixed(type) THEN FixedLayout[type] ELSE VarLayout[type]

-----------------------------------------------------------------------------
(* Encoding. *)

LengthPrefixed(bytes) == BE(Len(bytes), 4) \o bytes

EncodeBasic(kind, v) ==
  CASE kind = "bool" -> <<IF v THEN 1 ELSE 0>>
    [] kind \in DOMAIN Width \ {"bool"} -> BE(v, Width[kind])
    [] kind \in DOMAIN Opaque -> v
    [] kind = "string" -> LengthPrefixed(v)
EncodeEntry(entry) ==
  FlattenSeq([i \in DOMAIN entry |-> EncodeBasic(FileEntryLayout[i], entry[i])])
EncodeField(kind, v) ==
  CASE kind = "inline" -> IF v = <<>> THEN <<0>> ELSE <<1>> \o LengthPrefixed(v[1])
    [] kind = "entries" -> LengthPrefixed(FlattenSeq([i \in DOMAIN v |-> EncodeEntry(v[i])]))
    [] OTHER -> EncodeBasic(kind, v)
EncodeFields(layout, fields) ==
  FlattenSeq([i \in DOMAIN layout |-> EncodeField(layout[i], fields[i])])

Encode(e) == <<Discriminant(e[1])>> \o EncodeFields(Layout(e[1]), e[2])

\* ClipboardText::from_content: short texts travel in the event.
FromContent(fingerprint, sha, content) ==
  <<"ClipboardText", <<fingerprint, sha, Len(content),
      IF Len(content) <= InlineLimit THEN <<content>> ELSE <<>>>>>>

-----------------------------------------------------------------------------
(* Decoding: <<value, rest>>, or <<>> for an error. *)

Error == <<>>
Take(buf, n) == SubSeq(buf, 1, n)
Drop(buf, n) == SubSeq(buf, n + 1, Len(buf))

\* The ? operator: Op continues with what was read.
Then(r, Op(_)) == IF r = Error THEN Error ELSE Op(r)

ReadBytes(buf, n) == IF Len(buf) < n THEN Error ELSE <<Take(buf, n), Drop(buf, n)>>
ReadPrefixed(buf) == Then(ReadBytes(buf, 4), LAMBDA r : ReadBytes(r[2], FromBE(r[1])))

DecodeInt(kind, n, rest) ==
  IF kind = "bool" THEN <<n # 0, rest>>
  ELSE IF kind = "position" /\ n > 3 THEN Error ELSE <<n, rest>>
DecodeBasic(kind, buf) ==
  CASE kind \in DOMAIN Width ->
         Then(ReadBytes(buf, Width[kind]), LAMBDA r : DecodeInt(kind, FromBE(r[1]), r[2]))
    [] kind \in DOMAIN Opaque -> ReadBytes(buf, Opaque[kind])
    [] kind = "string" -> ReadPrefixed(buf)

\* One more value, read by Field, for those in acc.
DecodeNext(Field(_, _), kind, acc) ==
  Then(Field(kind, acc[2]), LAMBDA r : <<Append(acc[1], r[1]), r[2]>>)
DecodeAll(Field(_, _), layout, buf) ==
  FoldLeft(LAMBDA acc, kind : Then(acc, LAMBDA a : DecodeNext(Field, kind, a)),
           <<<<>>, buf>>, layout)

\* Entries until the body is used up; an entry has 16 bytes at least.
DecodeEntry(kind, buf) == DecodeAll(DecodeBasic, FileEntryLayout, buf)
DecodeEntries(body) ==
  LET most == (Len(body) + 15) \div 16
      read[n \in 0..most] ==
        IF n = 0 THEN <<<<>>, body>>
        ELSE Then(read[n - 1],
                  LAMBDA a : IF a[2] = <<>> THEN a ELSE DecodeNext(DecodeEntry, "entry", a))
  IN read[most]

DecodeField(kind, buf) ==
  CASE kind = "inline" ->
         Then(DecodeBasic("bool", buf),
              LAMBDA some : IF ~some[1] THEN <<<<>>, some[2]>>
                            ELSE Then(ReadPrefixed(some[2]), LAMBDA r : <<<<r[1]>>, r[2]>>))
    [] kind = "entries" ->
         Then(ReadPrefixed(buf),
              LAMBDA r : Then(DecodeEntries(r[1]), LAMBDA items : <<items[1], r[2]>>))
    [] OTHER -> DecodeBasic(kind, buf)

DecodeFields(layout, buf) == DecodeAll(DecodeField, layout, buf)

\* TryFrom<[u8; MAX_EVENT_SIZE]>: the buffer is filled up with zeros and what
\* follows the fields is ignored; a variable-size type is unreachable!().
Padded(buf) == Take(buf \o Zeros(MAX_EVENT_SIZE), MAX_EVENT_SIZE)
Panic == "panic"
DecodeFixed(buf) ==
  IF buf[1] >= Len(EventTypes) THEN Error
  ELSE IF ~IsFixed(EventTypes[buf[1] + 1]) THEN <<Panic>>
  ELSE Then(DecodeFields(FixedLayout[EventTypes[buf[1] + 1]], Drop(Padded(buf), 1)),
            LAMBDA r : <<EventTypes[buf[1] + 1], r[1]>>)

\* TryFrom<&[u8]>: a variable-size event must use up the buffer.
Decode(buf) ==
  IF buf = <<>> \/ buf[1] >= Len(EventTypes) THEN Error
  ELSE IF IsFixed(EventTypes[buf[1] + 1]) THEN DecodeFixed(buf)
  ELSE Then(DecodeFields(VarLayout[EventTypes[buf[1] + 1]], Drop(buf, 1)),
            LAMBDA r : IF r[2] # <<>> THEN Error ELSE <<EventTypes[buf[1] + 1], r[1]>>)

-----------------------------------------------------------------------------
(* Frames on a stream that delivers the given bytes and then ends. *)

WriteFrame(e) == LengthPrefixed(Encode(e))

\* The same bytes for the first frame of stream A and for those of stream C.
write_hello_frame(e) == WriteFrame(e)
write_stream_c_frame(e) == WriteFrame(e)

\* read_frame (streams A and B) and read_stream_c_frame: <<"event", e, rest>>,
\* <<"undecodable", rest>>, or the reason why nothing more can be read.
Framed(e, rest) == IF e = Error THEN <<"undecodable", rest>> ELSE <<"event", e, rest>>
FixedFrame(n, rest) ==
  IF n > MAX_EVENT_SIZE THEN <<"too large">>
  ELSE IF Len(rest) < n THEN <<"truncated">>
  ELSE Framed(DecodeFixed(Padded(Take(rest, n))), Drop(rest, n))
VarFrame(n, rest) ==
  IF Len(rest) < n THEN <<"truncated">> ELSE Framed(Decode(Take(rest, n)), Drop(rest, n))
ReadFrame(stream) ==
  IF Len(stream) < 4 THEN <<"failed">> ELSE FixedFrame(FromBE(Take(stream, 4)), Drop(stream, 4))
ReadStreamCFrame(stream) ==
  IF Len(stream) < 4 THEN <<"failed">> ELSE VarFrame(FromBE(Take(stream, 4)), Drop(stream, 4))

\* read_frame with other error names.
read_hello_frame(stream) == ReadFrame(stream)


\* read_stream_b_loop and read_stream_c_loop: frames are handed on, one that
\* cannot be decoded is skipped, and any other error ends the loop.  A frame has
\* four bytes at least.
HandOn(got, frame) ==
  CASE frame[1] = "event" -> <<Append(got, frame[2]), frame[3]>>
    [] frame[1] = "undecodable" -> <<got, frame[2]>>
    [] OTHER -> <<got, <<>>>>
ReadOne(channel, state) ==
  IF state[2] = <<>> THEN state
  ELSE HandOn(state[1], IF channel = "C" THEN ReadStreamCFrame(state[2]) ELSE ReadFrame(state[2]))
ReadStream(channel, stream) ==
  LET most == Len(stream) \div 4
      after[n \in 0..most] ==
        IF n = 0 THEN <<<<>>, stream>> ELSE ReadOne(channel, after[n - 1])
  IN after[most][1]

\* datagram_reader_task: a datagram is one event and exactly MAX_EVENT_SIZE
\* bytes long, whatever the length of the event.
Datagram(e) == Padded(Encode(e))
ReadDatagram(bytes) ==
  IF Len(bytes) # MAX_EVENT_SIZE THEN Error ELSE DecodeFixed(bytes)

-----------------------------------------------------------------------------
(* HTTP/3-lite. *)

\* encode_request, and write_request, which sends the same: the lengths of the
\* method and the path are cut to 16 bits by "as u16".
EncodeRequest(method, path, body) ==
  BE(Len(method) % 65536, 2) \o method \o BE(Len(path) % 65536, 2) \o path
    \o LengthPrefixed(body)
write_request(method, path, body) == EncodeRequest(method, path, body)
EncodeResponse(status, body) == BE(status, 2) \o LengthPrefixed(body)

\* read_request and decode_request, which differ in where the bytes come from.
Field16(buf) == Then(ReadBytes(buf, 2), LAMBDA r : ReadBytes(r[2], FromBE(r[1])))
DecodeRequest(buf) ==
  Then(Field16(buf), LAMBDA method :
    Then(Field16(method[2]), LAMBDA path :
      Then(ReadPrefixed(path[2]), LAMBDA body :
        <<<<method[1], path[1], body[1]>>, body[2]>>)))
read_request(stream) == DecodeRequest(stream)
DecodeResponse(buf) ==
  Then(ReadBytes(buf, 2), LAMBDA status :
    Then(ReadPrefixed(status[2]), LAMBDA body : <<<<FromBE(status[1]), body[1]>>, body[2]>>))

Alphabetic == (65..90) \cup (97..122)

LooksLikeHttp3Request(first4) ==
  first4[1] = 0 /\ first4[2] \in 3..7 /\ first4[3] \in Alphabetic /\ first4[4] \in Alphabetic

-----------------------------------------------------------------------------
\* Every event is decoded to itself, from a frame and from a datagram too, although
\* datagrams are filled up to MAX_EVENT_SIZE: no event is longer, and the filling
\* changes none.
RoundTrip(e) ==
  /\ Decode(Encode(e)) = e
  /\ IsFixed(e[1]) =>
       /\ Len(Encode(e)) <= MAX_EVENT_SIZE /\ ReadDatagram(Datagram(e)) = e
       /\ read_hello_frame(write_hello_frame(e)) = <<"event", e, <<>>>>

\* A stream of frames is read back as the events written, with a frame that
\* cannot be decoded in between skipped, and a stream that is cut anywhere, inside
\* a length or a body, as the first of them: never as another event.
StreamReadsBack(channel, events, at) ==
  LET undecodable == LengthPrefixed(<<255>>)
      frame(e) == IF channel = "C" THEN write_stream_c_frame(e) ELSE WriteFrame(e)
      frames == [i \in DOMAIN events |->
                   (IF i = at THEN undecodable ELSE <<>>) \o frame(events[i])]
      stream == FlattenSeq(frames)
  IN /\ ReadStream(channel, stream) = events
     /\ \A cut \in 0..Len(stream) : IsPrefix(ReadStream(channel, Take(stream, cut)), events)

\* The accept loop, which sees four bytes before it decides, takes no event for a
\* request...
FrameIsNoRequest(e) == ~LooksLikeHttp3Request(Take(WriteFrame(e), 4))

\* ... and every request for one, and reads it back with what follows untouched.
RequestReadsBack(method, path, body, rest) ==
  LET bytes == write_request(method, path, body) \o rest
  IN /\ LooksLikeHttp3Request(Take(bytes, 4))
     /\ read_request(bytes) = <<<<method, path, body>>, rest>>
     /\ DecodeResponse(EncodeResponse(200, body) \o rest) = <<<<200, body>>, rest>>

-----------------------------------------------------------------------------
(* The routes of HTTP/3-lite: what a GET for a clipboard or a file body is *)
(* answered with.  A request path is <<route, suffix, query>>: the suffix  *)
(* is a hash or "malformed", the query a sequence of <<key, value>> pairs  *)
(* and a value a sequence of tokens, each a number, a dash or anything     *)
(* else (Junk).  A cache is a function from the hashes it would serve to   *)
(* their bodies.                                                           *)
Response(status, body) == [status |-> status, body |-> body]
ok(body) == Response(200, body)
not_found == Response(404, <<>>)
not_satisfiable == Response(416, <<>>)

-----------------------------------------------------------------------------
Open == -1   \* usize::MAX, the end of an open range
Dash == -2
Junk == -3

RangeInvalid == <<"Invalid">>
RangeNone == <<"None">>
RangeValid(start, end) == <<"Valid", start, end>>

IsNumber(value) == Len(value) = 1 /\ value[1] \in Nat

\* The last range key counts; a pair without "=" is ignored.
RangeValue(query) ==
  LET at == {i \in DOMAIN query : Len(query[i]) = 2 /\ query[i][1] = "range"}
  IN IF at = {} THEN <<>>
     ELSE <<query[CHOOSE i \in at : \A j \in at : j <= i][2]>>

\* strip_suffix('-'), and once more.
Stripped(value) ==
  LET one == SubSeq(value, 1, Len(value) - 1)
  IN IF one # <<>> /\ one[Len(one)] = Dash THEN SubSeq(one, 1, Len(one) - 1) ELSE one

parse_range(value) ==
  CASE value = <<>> -> RangeInvalid
    [] value # <<>> /\ value[Len(value)] = Dash ->
         IF IsNumber(Stripped(value)) THEN RangeValid(Stripped(value)[1], Open)
         ELSE RangeInvalid
    [] OTHER ->
         LET dashes == {i \in DOMAIN value : value[i] = Dash}
         IN IF dashes = {} THEN RangeInvalid
            ELSE LET d == CHOOSE i \in dashes : \A j \in dashes : i <= j
                     start_s == SubSeq(value, 1, d - 1)
                     end_s == SubSeq(value, d + 1, Len(value))
                 IN IF ~IsNumber(start_s) \/ ~IsNumber(end_s) \/ start_s[1] > end_s[1]
                    THEN RangeInvalid ELSE RangeValid(start_s[1], end_s[1])

parse_range_query(query) ==
  LET found == RangeValue(query)
  IN IF found = <<>> THEN RangeNone ELSE parse_range(found[1])

-----------------------------------------------------------------------------
\* The slice of a body; bodies are indexed from 1, ranges from 0.
Slice(body, start, end) ==
  LET last == IF end = Open \/ end > Len(body) - 1
              THEN (IF Len(body) = 0 THEN 0 ELSE Len(body) - 1) ELSE end
  IN IF start >= Len(body) \/ start > last THEN not_satisfiable
     ELSE ok(SubSeq(body, start + 1, last + 1))

file_cache_lookup_route(suffix, query, cache) ==
  IF suffix = "malformed" \/ suffix \notin DOMAIN cache THEN not_found
  ELSE LET r == parse_range_query(query)
       IN CASE r[1] = "None" -> ok(cache[suffix])
            [] r[1] = "Invalid" -> not_satisfiable
            [] r[1] = "Valid" -> Slice(cache[suffix], r[2], r[3])

\* A text or an image takes no query: with one, the suffix is not a hash.
cache_lookup_route(suffix, query, cache) ==
  IF suffix = "malformed" \/ query # <<>> \/ suffix \notin DOMAIN cache THEN not_found
  ELSE ok(cache[suffix])

\* The routes; no prefix is one of another.
default_router_with_caches(path, clipboard_cache, file_cache) ==
  CASE path[1] = "healthz" -> ok(<<"ok">>)
    [] path[1] \in {"text", "image"} ->
         cache_lookup_route(path[2], path[3], clipboard_cache)
    [] path[1] = "file" -> file_cache_lookup_route(path[2], path[3], file_cache)
    [] OTHER -> not_found

handle(method, path, clipboard_cache, file_cache) ==
  IF method # "GET" THEN Response(405, <<>>)
  ELSE default_router_with_caches(path, clipboard_cache, file_cache)

\* Http3Client: the paths a fetch asks for.
get_text(sha) == <<"text", sha, <<>>>>
get_image(sha) == <<"image", sha, <<>>>>
get_file(sha, range) ==
  <<"file", sha, IF range = <<>> THEN <<>> ELSE <<<<"range", range[1]>>>>>>

-----------------------------------------------------------------------------
Closed(value) == Len(value) = 3 /\ value[1] \in Nat /\ value[2] = Dash /\ value[3] \in Nat
OpenEnded(value) == Len(value) = 2 /\ value[1] \in Nat /\ value[2] = Dash

\* A ranged request is answered with exactly the bytes of the range that exist,
\* with 416 when there is none, and a range of any other form is refused (but for
\* one form: a second dash at the end is ignored).
RangeIsExact(body, value) ==
  LET r == handle("GET", get_file("h", <<value>>), <<>>, [h |-> body])
      wanted == {i \in 0..(Len(body) - 1) :
                   i >= value[1] /\ (Closed(value) => i <= value[3])}
  IN CASE Closed(value) /\ value[1] > value[3] -> r = not_satisfiable
       [] (Closed(value) /\ value[1] <= value[3]) \/ OpenEnded(value) ->
            IF wanted = {} THEN r = not_satisfiable
            ELSE r = ok([k \in 1..Cardinality(wanted) |-> body[value[1] + k]])
       [] Len(value) = 3 /\ OpenEnded(SubSeq(value, 1, 2)) /\ value[3] = Dash -> TRUE
       [] OTHER -> r = not_satisfiable

\* A fetch that is broken off after k bytes and resumed there is as whole as one
\* that is not, and a file is never served where a text or an image is asked for.
ResumedFetchIsWhole(body, k) ==
  LET get(value) == handle("GET", get_file("h", <<value>>), <<>>, [h |-> body])
      whole == handle("GET", get_file("h", <<>>), <<>>, [h |-> body]).body
  IN /\ k \in 1..(Len(body) - 1) =>
          get(<<0, Dash, k - 1>>).body \o get(<<k, Dash>>).body = whole
     /\ \A path \in {get_text("h"), get_image("h")} :
          /\ handle("GET", path, <<>>, [h |-> body]) = not_found
          /\ handle("GET", path, [h |-> body], <<>>) = ok(body)
=============================================================================
