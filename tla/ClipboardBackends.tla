------------------------- MODULE ClipboardBackends -------------------------
(***************************************************************************)
(* The clipboard of each operating system: the formats in which files and  *)
(* images lie on it, the cache that the macOS backend keeps of an image,   *)
(* and the calls with which the Windows backend reads and writes.          *)
(***************************************************************************)
EXTENDS Integers, Sequences, SequencesExt, FiniteSets

-----------------------------------------------------------------------------
(* Linux: a selection of files is a list of URIs.  A path is a sequence of *)
(* characters; the scheme of a URI counts as one of them.                  *)

Scheme == "file://"
CR == "\r"
LF == "\n"

build_uri_list(paths) ==
  FoldLeft(LAMBDA out, p : out \o <<Scheme>> \o p \o <<CR, LF>>, <<>>, paths)

\* The lines between any of the two separators.
Lines(text) ==
  LET cuts == {0, Len(text) + 1} \cup {i \in DOMAIN text : text[i] \in {CR, LF}}
      at == SetToSortSeq(cuts, LAMBDA a, b : a < b)
  IN  [k \in 1..(Len(at) - 1) |-> SubSeq(text, at[k] + 1, at[k + 1] - 1)]

HexDigit == [d \in {"0", "1", "2", "4", "a", "F"} |->
               CASE d = "0" -> 0 [] d = "1" -> 1 [] d = "2" -> 2 [] d = "4" -> 4
                 [] d = "a" -> 10 [] d = "F" -> 15]
\* The characters that an escape stands for in the instances.
Decoded == [code \in {33, 47, 65} |-> CASE code = 33 -> "!" [] code = 47 -> "/" [] code = 65 -> "A"]

RECURSIVE percent_decode(_)
percent_decode(s) ==
  IF s = <<>> THEN <<>>
  ELSE IF s[1] = "%" /\ Len(s) > 2 /\ s[2] \in DOMAIN HexDigit /\ s[3] \in DOMAIN HexDigit
       THEN <<Decoded[16 * HexDigit[s[2]] + HexDigit[s[3]]]>> \o percent_decode(SubSeq(s, 4, Len(s)))
       ELSE <<s[1]>> \o percent_decode(Tail(s))

\* The path behind the scheme and the host, without the slash that ends the host.
file_uri_to_path(uri) ==
  IF uri = <<>> \/ uri[1] # Scheme THEN <<>>
  ELSE LET rest == Tail(uri)
           slashes == {i \in DOMAIN rest : rest[i] = "/"}
       IN  IF slashes = {} THEN <<>>
           ELSE LET first == CHOOSE i \in slashes : \A j \in slashes : i <= j
                    host == SubSeq(rest, 1, first - 1)
                IN  IF host \notin {<<>>, <<"localhost">>} THEN <<>>
                    ELSE <<percent_decode(SubSeq(rest, first + 1, Len(rest)))>>

parse_uri_list(text) ==
  LET uris == SelectSeq(Lines(text), LAMBDA l : l # <<>> /\ l[1] # "#")
  IN  FlattenSeq([i \in DOMAIN uris |-> file_uri_to_path(uris[i])])

\* What lies on the clipboard after set_files, and what current_files returns.
linux_set_files(on, paths) == IF paths = <<>> THEN on ELSE build_uri_list(paths)
linux_current_files(on) == IF on = <<>> THEN <<>> ELSE parse_uri_list(on)

\* The list that set_files writes is read back by current_files as the same
\* paths: the round trip that the two functions promise together.
UrisReadBack(paths) == linux_current_files(linux_set_files(<<>>, paths)) = paths

-----------------------------------------------------------------------------
(* Windows: a selection of files is a DROPFILES block, which the system    *)
(* reads as NUL-terminated names up to an empty one.  The header is one    *)
(* unit here.                                                              *)
NUL == 0
Header == -1

build_dropfiles_payload(paths) ==
  IF paths = <<>> THEN <<>>
  ELSE <<Header>> \o FlattenSeq([i \in DOMAIN paths |-> Append(paths[i], NUL)]) \o <<NUL, NUL>>

\* DragQueryFileW.
RECURSIVE QueryFiles(_)
QueryFiles(units) ==
  LET nul == CHOOSE i \in DOMAIN units : units[i] = NUL /\ \A j \in 1..(i - 1) : units[j] # NUL
  IN  IF nul = 1 THEN <<>>
      ELSE <<SubSeq(units, 1, nul - 1)>> \o QueryFiles(SubSeq(units, nul + 1, Len(units)))

\* What set_files puts on the Windows clipboard is read back name by name.
DropFilesReadBack(paths) ==
  paths # <<>> => QueryFiles(Tail(build_dropfiles_payload(paths))) = paths

-----------------------------------------------------------------------------
(* Images.  A BMP file is a file header of 14 bytes and the DIB, which     *)
(* starts with the size of its own header; the pixels follow that header.  *)
FileHeader == 14
Bmp(dib) == [magic |-> "BM", size |-> FileHeader + Len(dib), offset |-> FileHeader + dib[1], dib |-> dib]

encode_png_to_dib(bmp) == bmp.dib

prepend_bmp_file_header(dib) ==
  [magic |-> "BM", size |-> FileHeader + Len(dib), offset |-> FileHeader + dib[1], dib |-> dib]

\* A DIB that a Windows machine made of an image by cutting off the file header
\* is, with the header macOS puts in front, the file it was cut from.
DibSurvives(dib) ==
  Len(dib) >= dib[1] => prepend_bmp_file_header(encode_png_to_dib(Bmp(dib))) = Bmp(dib)

\* What each poller reads, <<format, label>>; `on` is what lies on the clipboard.
\* macOS takes PNG, else JPEG, else TIFF, each made into PNG when it decodes.
windows_current_image(on) == IF "dib" \in on THEN <<"dib", "application/x-dib">> ELSE <<>>
linux_current_image(on) == IF "png" \in on THEN <<"png", "image/png">> ELSE <<>>
png_normalized == {"jpeg", "tiff"}
read_image_from_pasteboard(on) ==
  IF on \cap ({"png"} \cup png_normalized) = {} THEN <<>> ELSE <<"png", "image/png">>

current_image(os, on) == CASE os = "windows" -> windows_current_image(on)
                           [] os = "linux" -> linux_current_image(on)
                           [] os = "macos" -> read_image_from_pasteboard(on)

\* The formats on the clipboard after set_image, {} when the write is refused.
windows_set_image(image) == IF image[2] = "image/png" THEN {"dib"} ELSE {}
linux_set_image(image) == {"png"}
macos_set_image(image) == {"png"}

\* The same for set_dib_image.  Linux has no file header to put in front, so that
\* what its decoder is given is no BMP file.
windows_set_dib_image(image) == {"dib"}
linux_set_dib_image(image) == {}
macos_set_dib_image(image) == {"png"}

\* apply_image_inner: a DIB has a call of its own.
ApplyImage(os, image) ==
  LET dib == image[2] = "application/x-dib"
  IN  CASE os = "windows" -> IF dib THEN windows_set_dib_image(image) ELSE windows_set_image(image)
        [] os = "linux" -> IF dib THEN linux_set_dib_image(image) ELSE linux_set_image(image)
        [] os = "macos" -> IF dib THEN macos_set_dib_image(image) ELSE macos_set_image(image)

\* An image copied on one system lands on another in a format which that
\* system's own poller reads, or not at all.
LandsReadable(from, to, on) ==
  LET image == current_image(from, on)
      landed == ApplyImage(to, image)
  IN  image # <<>> /\ landed # {} => current_image(to, landed) # <<>>

-----------------------------------------------------------------------------
(* What the files of a selection are announced as.  A file is a record of  *)
(* its name, whether it is a directory, its size and its contents.         *)
FOUR_GIB == 4

should_mark_too_large(size) == size > FOUR_GIB

over_limit(size, max_size) == max_size > 0 /\ size > max_size

Entry(f) == [name |-> f.name, size |-> f.size,
             sha256 |-> IF should_mark_too_large(f.size) THEN "zeros" ELSE f.content]

\* The first file that cannot be sent refuses the whole selection.
collect_files_blocking(files, max_size) ==
  IF \E i \in DOMAIN files : files[i].dir \/ over_limit(files[i].size, max_size) THEN [err |-> TRUE, entries |-> <<>>]
  ELSE [err |-> FALSE, entries |-> [i \in DOMAIN files |-> Entry(files[i])]]

\* The same for a caller that may wait.
collect_files(files, max_size) == collect_files_blocking(files, max_size)

\* A selection is announced as a whole or not at all; it is announced exactly
\* when no file is a directory or exceeds the limit, where 0 means none.
SelectionIsWhole(files, max_size) ==
  LET ret == collect_files_blocking(files, max_size)
  IN  IF \A i \in DOMAIN files : ~files[i].dir /\ (max_size = 0 \/ files[i].size <= max_size)
      THEN /\ ~ret.err /\ Len(ret.entries) = Len(files)
           /\ \A i \in DOMAIN files :
                /\ ret.entries[i].name = files[i].name
                /\ ret.entries[i].sha256 = files[i].content \/ files[i].size > FOUR_GIB
      ELSE ret.err

-----------------------------------------------------------------------------
(* macOS: the image cache.  Converting an image takes long, so the result  *)
(* is kept together with the pasteboard's changeCount; the conversion runs *)
(* elsewhere while other programs write to the pasteboard.                 *)
CONSTANT MaxCount   \* bound on the writes to the pasteboard

VARIABLES
  count, content,   \* the pasteboard's changeCount and image
  reader,           \* "idle", or where current_image_async stands
  change_count,     \* the count it took
  read_image,       \* the image it took
  image_cache,      \* {} or {<<count, image>>}
  result            \* what the last call returned, with the count at its start
pbVars == <<count, content, reader, change_count, read_image, image_cache, result>>

Image == {"i1", "i2"}

PbInit ==
  /\ count = 0 /\ content \in Image /\ reader = "idle" /\ change_count = 0
  /\ read_image = "none" /\ image_cache = {} /\ result = <<>>

\* Another program writes an image, or set_image or set_dib_image does, and drops
\* the cache.
Write(i) ==
  /\ count < MaxCount
  /\ count' = count + 1 /\ content' = i
  /\ UNCHANGED <<reader, change_count, read_image, image_cache, result>>

pb_set_image(i) ==
  /\ reader = "idle" /\ count < MaxCount
  /\ count' = count + 1 /\ content' = i /\ image_cache' = {}
  /\ UNCHANGED <<reader, change_count, read_image, result>>

\* The change count, and on a hit the cached image.
ReadCount ==
  /\ reader = "idle"
  /\ change_count' = count
  /\ LET hit == {c \in image_cache : c[1] = count}
     IN  IF hit # {} THEN /\ result' = <<(CHOOSE c \in hit : TRUE)[2], count>>
                          /\ UNCHANGED reader
         ELSE reader' = "read" /\ UNCHANGED result
  /\ UNCHANGED <<count, content, read_image, image_cache>>

ReadBytes ==
  /\ reader = "read"
  /\ read_image' = content /\ reader' = "convert"
  /\ UNCHANGED <<count, content, change_count, image_cache, result>>

\* The conversion is done, or failed; a failure caches nothing.
Converted ==
  /\ reader = "convert" /\ reader' = "idle"
  /\ \/ image_cache' = {<<change_count, read_image>>}
        /\ result' = <<read_image, change_count>>
     \/ UNCHANGED <<image_cache, result>>
  /\ UNCHANGED <<count, content, change_count, read_image>>

PbNext == (\E i \in Image : Write(i) \/ pb_set_image(i)) \/ ReadCount \/ ReadBytes \/ Converted

\* The cache never answers with an image that is not the one on the pasteboard:
\* an entry with the current count holds the current image, however writes fall
\* between reading the count, reading the image and storing the conversion.
CachedImageIsCurrent == \A c \in image_cache : c[1] = count => c[2] = content

-----------------------------------------------------------------------------
(* Windows: a call opens the clipboard, reads one block or empties the      *)
(* clipboard and hands over one block for each format, any of which may     *)
(* fail, and closes it.  An image is written in two formats.                *)
Formats == [text |-> <<"unicode">>, image |-> <<"dibv5", "dib">>, files |-> <<"hdrop">>]

VARIABLES
  step,      \* "idle", or what the call does next
  op,        \* what is read or written
  placed,    \* number of formats the write has handed over or tried to
  is_open,   \* the clipboard is open for this process
  formats,   \* the formats on the clipboard, each with the copy it is from
  copy,      \* number of the last copy
  leaked,    \* a block was neither freed nor handed over
  ret        \* what the last call returned
winVars == <<step, op, placed, is_open, formats, copy, leaked, ret>>

WinInit ==
  /\ step = "idle" /\ op = "text" /\ placed = 0 /\ is_open = FALSE /\ formats = {} /\ copy = 0
  /\ leaked = FALSE /\ ret = "none"

\* Close the clipboard and return r.
Return(r) == step' = "idle" /\ is_open' = FALSE /\ ret' = r

\* OpenClipboard, with the value the call returns when it fails.
Open(o, then, failed) ==
  /\ step = "idle" /\ op' = o /\ placed' = 0
  /\ \/ step' = then /\ is_open' = TRUE /\ UNCHANGED ret
     \/ ret' = failed /\ UNCHANGED <<step, is_open>>
  /\ UNCHANGED <<formats, leaked>>

set_text == copy < MaxCount /\ copy' = copy + 1 /\ Open("text", "empty", "Err")
set_dib_image == copy < MaxCount /\ copy' = copy + 1 /\ Open("image", "empty", "Err")
set_files == copy < MaxCount /\ copy' = copy + 1 /\ Open("files", "empty", "Err")

EmptyClipboard == formats' = {}

EmptyFails == Return("Err")

Empty ==
  /\ step = "empty"
  /\ \/ EmptyClipboard /\ step' = "alloc" /\ UNCHANGED <<is_open, ret>>
     \/ EmptyFails /\ UNCHANGED formats
  /\ UNCHANGED <<op, placed, copy, leaked>>

\* GlobalAlloc and GlobalLock; when locking fails set_text does not free the
\* block.  Then SetClipboardData, whose result nobody looks at.
alloc_dib_handle_and_set ==
  /\ step = "alloc"
  /\ \/ Return("Err") /\ leaked' \in {leaked, leaked \/ op = "text"} /\ UNCHANGED <<placed, formats>>
     \/ \E taken \in BOOLEAN :
          /\ placed' = placed + 1
          /\ formats' = IF taken THEN formats \cup {<<Formats[op][placed + 1], copy>>} ELSE formats
          /\ leaked' = (leaked \/ ~taken)
          /\ IF placed' < Len(Formats[op]) THEN UNCHANGED <<step, is_open, ret>> ELSE Return("Ok")
  /\ UNCHANGED <<op, copy>>

win_current_text == Open("text", "get", "None") /\ UNCHANGED copy
win_current_image == Open("image", "get", "None") /\ UNCHANGED copy
win_current_files == Open("files", "get", "None") /\ UNCHANGED copy

\* GetClipboardData and GlobalLock; current_text answers a failure to lock or to
\* decode with the text of an error message.
GetData ==
  /\ step = "get"
  /\ \/ (\E f \in formats : f[1] = Formats[op][1]) /\ Return("data")
     \/ (\E f \in formats : f[1] = Formats[op][1]) /\ Return(IF op = "text" THEN "message" ELSE "None")
     \/ (\A f \in formats : f[1] # Formats[op][1]) /\ Return("None")
  /\ UNCHANGED <<op, placed, formats, copy, leaked>>

\* Another program copies something of its own.
OtherCopy(o) ==
  /\ ~is_open /\ copy < MaxCount /\ copy' = copy + 1
  /\ formats' = {<<Formats[o][i], copy'>> : i \in DOMAIN Formats[o]}
  /\ UNCHANGED <<step, op, placed, is_open, leaked, ret>>

WinNext == \/ set_text \/ set_dib_image \/ set_files \/ Empty \/ alloc_dib_handle_and_set
           \/ win_current_text \/ win_current_image \/ win_current_files \/ GetData
           \/ \E o \in DOMAIN Formats : OtherCopy(o)

\* Whatever fails, the clipboard is closed when a call returns: while it is open
\* no other program of the machine can copy or paste.
ClipboardIsClosed == step = "idle" => ~is_open

\* The formats on the clipboard are always of one copy: text of one selection
\* never lies beside the image or the files of an earlier one.
OneCopyAtATime == \A f, g \in formats : f[2] = g[2]

-----------------------------------------------------------------------------
(* Linux and macOS: text goes through a command-line tool, which is fed on  *)
(* its standard input, or read from its standard output, and whose exit     *)
(* status counts.                                                           *)
Text == {"t1", "t2"}

VARIABLES
  board,     \* the text on the clipboard, or bytes that are no text
  child,     \* the text the tool was fed and the call waits for
  seen,      \* every text that lay on the clipboard
  got,       \* what the last read returned
  wrote      \* the text whose write last returned Ok
toolVars == <<board, child, seen, got, wrote>>

ToolInit == board = "bytes" /\ child = "none" /\ seen = {} /\ got = "none" /\ wrote = "none"

OtherText(t) ==
  /\ board' = t /\ seen' = IF t \in Text THEN seen \cup {t} ELSE seen
  /\ UNCHANGED <<child, got, wrote>>

tool_output(output, success) == IF success /\ output \in Text THEN output ELSE "none"

\* A tool that fails may have written a part of the text.
tool_current_text ==
  /\ child = "none"
  /\ \/ got' = tool_output(board, TRUE)
     \/ \E cut \in {"cut", board} : got' = tool_output(cut, FALSE)
  /\ UNCHANGED <<board, child, seen, wrote>>

\* Start the tool and feed it, or fail at either.
tool_set_text(t) ==
  /\ child = "none"
  /\ child' \in {t, "none"}
  /\ UNCHANGED <<board, seen, got, wrote>>

\* The tool ends: it took over the clipboard, or failed.
tool_wait ==
  /\ child # "none" /\ child' = "none"
  /\ \/ board' = child /\ seen' = seen \cup {child} /\ wrote' = child
     \/ UNCHANGED <<board, seen, wrote>>
  /\ UNCHANGED got

ToolNext == \/ \E t \in Text : OtherText(t) \/ tool_set_text(t)
            \/ OtherText("bytes") \/ tool_current_text \/ tool_wait

\* A read returns a whole text that lay on the clipboard, or nothing, and a write
\* that reported success did put its text there, wherever the tool fails.
ToolTextIsWhole == {got, wrote} \subseteq seen \cup {"none"}
=============================================================================
