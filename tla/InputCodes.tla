----------------------------- MODULE InputCodes -----------------------------
(***************************************************************************)
(* How a backend turns what its operating system reports into the events   *)
(* of input-event, and how an emulation backend turns those back into what *)
(* it asks of its operating system.  The two sides are written per system, *)
(* by different hands and with different conventions: wheels count upwards *)
(* on Windows and macOS and downwards in the protocol, Windows counts 120  *)
(* to a notch, macOS lines, the side buttons are X buttons, button numbers *)
(* or X11 buttons 8 and 9.                                                 *)
(*                                                                         *)
(* A native event is a tuple headed by its kind.  Numbers are integers;    *)
(* the fractions of f64 and f32 scroll values are left out.                *)
(***************************************************************************)
EXTENDS Integers, Sequences, SequencesExt

Button == {"LEFT", "RIGHT", "MIDDLE", "BACK", "FORWARD"}

\* Integer division of Rust, which truncates towards zero.
Quot(a, b) == IF a >= 0 THEN a \div b ELSE -((-a) \div b)
NonZero(events) == SelectSeq(events, LAMBDA e : e[3] # 0)

LINES_PER_STEP == 3
V120_STEPS_PER_LINE == 120 \div LINES_PER_STEP

-----------------------------------------------------------------------------
(* Capture. *)

\* Windows: a wheel's delta is the upper half of mouseData.
to_mouse_event(n, entry) ==
  CASE n[1] = "button" -> <<<<"Button", n[2], n[3]>>>>
    [] n[1] = "xbutton" -> CASE n[2] = 1 -> <<<<"Button", "BACK", n[3]>>>>
                             [] n[2] = 2 -> <<<<"Button", "FORWARD", n[3]>>>>
                             [] OTHER -> <<>>
    [] n[1] = "move" -> <<<<"Motion", n[2] - entry[1], n[3] - entry[2]>>>>
    [] n[1] = "wheel" -> <<<<"AxisDiscrete120", 0, -n[2]>>>>
    [] n[1] = "hwheel" -> <<<<"AxisDiscrete120", 1, n[2]>>>>
    [] OTHER -> <<>>

\* macOS: buttons past the second are numbered; a trackpad scrolls by pixels
\* and a wheel by lines, both axes in one event.
get_events(n) ==
  CASE n[1] = "button" -> <<<<"Button", n[2], n[3]>>>>
    [] n[1] = "other" -> <<<<"Button", CASE n[2] = 3 -> "BACK"
                                         [] n[2] = 4 -> "FORWARD"
                                         [] OTHER -> "MIDDLE", n[3]>>>>
    [] n[1] = "delta" -> <<<<"Motion", n[2], n[3]>>>>
    [] n[1] = "pixel" -> NonZero(<<<<"Axis", 0, -n[2]>>, <<"Axis", 1, n[3]>>>>)
    [] n[1] = "line" -> NonZero(<<<<"AxisDiscrete120", 0, -(V120_STEPS_PER_LINE * n[2])>>,
                                  <<"AxisDiscrete120", 1, V120_STEPS_PER_LINE * n[3]>>>>)
    [] OTHER -> <<>>

\* libei: the vertical component first; no component that is zero.
to_input_events(n) ==
  CASE n[1] = "Button" -> <<n>>
    [] n[1] = "PointerMotion" -> <<<<"Motion", n[2], n[3]>>>>
    [] n[1] = "ScrollDelta" -> NonZero(<<<<"Axis", 0, n[3]>>, <<"Axis", 1, n[2]>>>>)
    [] n[1] = "ScrollDiscrete" ->
         NonZero(<<<<"AxisDiscrete120", 0, n[3]>>, <<"AxisDiscrete120", 1, n[2]>>>>)
    [] OTHER -> <<>>

-----------------------------------------------------------------------------
(* Emulation: the native events that one event of the protocol becomes. *)

mouse_button(b, s) ==
  IF b \in {"BACK", "FORWARD"} THEN <<<<"xbutton", IF b = "BACK" THEN 1 ELSE 2, s>>>>
  ELSE <<<<"button", b, s>>>>

\* Both wheels get the negated value.
scroll(axis, value) == CASE axis = 0 -> <<<<"wheel", -value>>>>
                         [] axis = 1 -> <<<<"hwheel", -value>>>>
                         [] OTHER -> <<>>

consume_windows(e) ==
  CASE e[1] = "Motion" -> <<<<"delta", e[2], e[3]>>>>
    [] e[1] = "Button" -> mouse_button(e[2], e[3])
    [] e[1] \in {"Axis", "AxisDiscrete120"} -> scroll(e[2], e[3])
    [] OTHER -> <<>>

macos_lines(axis, value) ==
  CASE axis = 0 -> <<<<"line", Quot(-value, V120_STEPS_PER_LINE), 0>>>>
    [] axis = 1 -> <<<<"line", 0, Quot(value, V120_STEPS_PER_LINE)>>>>
    [] OTHER -> <<>>

macos_pixels(axis, value) ==
  CASE axis = 0 -> <<<<"pixel", -value, 0>>>>
    [] axis = 1 -> <<<<"pixel", 0, value>>>>
    [] OTHER -> <<>>

\* The side buttons are other-mouse events that carry a button number.
macos_button(b, s) ==
  CASE b \in {"LEFT", "RIGHT"} -> <<<<"button", b, s>>>>
    [] b = "MIDDLE" -> <<<<"other", 2, s>>>>
    [] b = "BACK" -> <<<<"other", 3, s>>>>
    [] b = "FORWARD" -> <<<<"other", 4, s>>>>

consume_macos(e) ==
  CASE e[1] = "Motion" -> <<<<"delta", e[2], e[3]>>>>
    [] e[1] = "Button" -> macos_button(e[2], e[3])
    [] e[1] = "Axis" -> macos_pixels(e[2], e[3])
    [] e[1] = "AxisDiscrete120" -> macos_lines(e[2], e[3])
    [] OTHER -> <<>>

consume_libei(e) ==
  CASE e[1] = "Motion" -> <<<<"PointerMotion", e[2], e[3]>>>>
    [] e[1] = "Button" -> <<<<"Button", e[2], e[3]>>>>
    [] e[1] = "Axis" -> IF e[2] = 0 THEN <<<<"ScrollDelta", 0, e[3]>>>>
                        ELSE <<<<"ScrollDelta", e[3], 0>>>>
    [] e[1] = "AxisDiscrete120" -> IF e[2] = 0 THEN <<<<"ScrollDiscrete", 0, e[3]>>>>
                                   ELSE <<<<"ScrollDiscrete", e[3], 0>>>>
    [] OTHER -> <<>>

\* wlroots gets the distance as well as the steps, the portal the steps alone.
consume_wlroots(e) ==
  CASE e[1] = "AxisDiscrete120" -> <<<<"axis_discrete", e[2], e[3], Quot(e[3], 120)>>>>
    [] OTHER -> <<e>>

consume_portal(e) ==
  CASE e[1] = "AxisDiscrete120" ->
         <<<<"notify_axis_discrete", IF e[2] = 0 THEN 0 ELSE 1, Quot(e[3], 120)>>>>
    [] e[1] = "Axis" -> <<<<"notify_axis", IF e[2] = 0 THEN 0 ELSE 1, e[3]>>>>
    [] OTHER -> <<e>>

emulate_mouse_button(b) ==
  CASE b = "LEFT" -> 1 [] b = "MIDDLE" -> 2 [] b = "RIGHT" -> 3 [] b = "BACK" -> 8
    [] b = "FORWARD" -> 9 [] OTHER -> 1

\* X11 scrolls by clicks: one click whatever the distance.
emulate_scroll(axis, value) ==
  LET direction == IF axis = 1 THEN (IF value < 0 THEN 6 ELSE 7) ELSE (IF value < 0 THEN 4 ELSE 5)
  IN  <<<<"click", direction, 1>>, <<"click", direction, 0>>>>

consume_x11(e) ==
  CASE e[1] = "Motion" -> <<e>>
    [] e[1] = "Button" -> <<<<"click", emulate_mouse_button(e[2]), e[3]>>>>
    [] e[1] \in {"Axis", "AxisDiscrete120"} -> emulate_scroll(e[2], e[3])
    [] OTHER -> <<>>

-----------------------------------------------------------------------------
Each(events, F(_)) == FlattenSeq([i \in DOMAIN events |-> F(events[i])])

\* What `os` emulates for what `os` captured.
ThereAndBack(os, n) ==
  CASE os = "windows" -> Each(to_mouse_event(n, <<0, 0>>), consume_windows)
    [] os = "macos"   -> Each(get_events(n), consume_macos)
    [] os = "libei"   -> Each(to_input_events(n), consume_libei)

\* A native event of both axes in two, of one axis each.
Split(n) ==
  CASE n[1] \in {"pixel", "line"} -> NonZero(<<<<n[1], 0, n[2]>>, <<n[1], 1, n[3]>>>>)
    [] n[1] \in {"ScrollDelta", "ScrollDiscrete"} ->
         NonZero(<<<<n[1], 1, n[3]>>, <<n[1], 0, n[2]>>>>)
    [] OTHER -> <<n>>
SplitAll(events) == FlattenSeq([i \in DOMAIN events |-> Split(events[i])])

\* A button or scroll captured on one machine is emulated as itself on a
\* second machine of the same system.  Windows' horizontal wheel, which the
\* emulation negates and the capture does not, is excluded; so is its pointer,
\* whose absolute position becomes a distance.
EmulatedAsCaptured(os, n) ==
  n[1] \notin {"hwheel", "move"} => SplitAll(ThereAndBack(os, n)) = Split(n)

\* The buttons Windows and macOS name differently meet in the protocol: a
\* button captured on either arrives as the corresponding one on the other,
\* and as the X11 button that stands for it.
X11Button(n) == CASE n[1] = "xbutton" -> n[2] + 7
                  [] n[1] = "other" -> IF n[2] = 2 THEN 2 ELSE n[2] + 5
                  [] OTHER -> IF n[2] = "LEFT" THEN 1 ELSE IF n[2] = "MIDDLE" THEN 2 ELSE 3
ButtonKeepsItsMeaning(n) ==
  LET events == IF n[1] = "other" THEN get_events(n) ELSE to_mouse_event(n, <<0, 0>>)
      mac == Each(events, consume_macos)
      win == Each(events, consume_windows)
  IN  /\ Each(mac, get_events) = events
      /\ Each(win, LAMBDA m : to_mouse_event(m, <<0, 0>>)) = events
      /\ \A e \in {events[i] : i \in DOMAIN events} :
           consume_x11(e) = <<<<"click", X11Button(n), n[3]>>>>

-----------------------------------------------------------------------------
(* Key codes.  Events carry Linux key codes; Windows reports and takes a   *)
(* scan code of one byte and an "extended" flag, which the code writes as  *)
(* 0xE0 in the second byte (Pause alone has three).  The two tables        *)
(* between them, written out in the source one key a line, are given here  *)
(* by runs of consecutive codes; Err stands for a key without counterpart. *)
Err == -1

\* The Linux key codes.
Linux == 0..249

\* A run of codes that starts after the code first.
Run(first, codes) == {<<first + i, codes[i]>> : i \in DOMAIN codes}
Same == {<<c, c>> : c \in (1..83) \cup (86..88)}
At(pairs, c) ==
  IF \E p \in pairs : p[1] = c THEN (CHOOSE p \in pairs : p[1] = c)[2] ELSE Err

-----------------------------------------------------------------------------
\* TryFrom<Linux> for Windows: the Japanese keys, the grey keys, the keys of a
\* power or a media keyboard, and F13 to F24.
Japanese == Run(88, <<\h73, \h78, \h77, \h79, \h70, \h7B, \h7E>>)
Grey == Run(95, <<\hE01C, \hE01D, \hE035, \hE037, \hE038, \h1C, \hE047, \hE048, \hE049,
                  \hE04B, \hE04D, \hE04F, \hE050, \hE051, \hE052, \hE053>>)
Media ==
  Run(112, <<\hE020, \hE02E, \hE030, \hE05E, \h59, \h4E, \hE11D45>>)
    \cup Run(120, <<\h7E, \h72, \h71, \h7D, \hE05B, \hE05C, \hE05D, \hE068>>)
    \cup {<<136, \hE065>>, <<138, \h3B>>, <<139, \hE05D>>, <<140, \hE021>>, <<142, \hE05F>>,
          <<143, \hE063>>, <<144, \hE06B>>, <<150, \hE065>>}
    \cup Run(154, <<\hE06C, \hE066, \hE032, \hE06A, \hE069>>)
    \cup Run(162, <<\hE019, \hE022, \hE010, \hE024>>)
    \cup {<<172, \hE032>>, <<173, \hE067>>}
FunctionKeys == {<<85, \h76>>, <<194, \h76>>} \cup {<<c, c - 83>> : c \in 183..193}

ToWindows(c) == At(Same \cup Japanese \cup Grey \cup Media \cup FunctionKeys, c)

-----------------------------------------------------------------------------
\* TryFrom<Windows> for Linux, and the scan codes it knows.
FromOneByte ==
  Same \cup {<<\h59, 117>>, <<\h70, 93>>, <<\h71, 123>>, <<\h72, 122>>, <<\h73, 89>>,
             <<\h76, 194>>, <<\h77, 91>>, <<\h78, 90>>, <<\h79, 92>>, <<\h7B, 94>>,
             <<\h7D, 124>>, <<\h7E, 121>>, <<\hFF, 89>>}
       \cup {<<c, c + 83>> : c \in \h64..\h6E}
FromExtended ==
  {<<\hE010, 165>>, <<\hE019, 163>>, <<\hE01C, 96>>, <<\hE01D, 97>>, <<\hE020, 113>>,
   <<\hE021, 140>>, <<\hE022, 164>>, <<\hE024, 166>>, <<\hE02E, 114>>, <<\hE030, 115>>,
   <<\hE032, 172>>, <<\hE035, 98>>, <<\hE036, 54>>, <<\hE037, 99>>, <<\hE038, 100>>,
   <<\hE047, 102>>, <<\hE048, 103>>, <<\hE049, 104>>, <<\hE04B, 105>>, <<\hE04D, 106>>,
   <<\hE04F, 107>>, <<\hE050, 108>>, <<\hE051, 109>>, <<\hE052, 110>>, <<\hE053, 111>>}

FromSystem ==
  Run(\hE05A, <<125, 126, 139, 116, 142>>) \cup {<<\hE063, 143>>}
    \cup Run(\hE064, <<150, 156, 173, 128, 159, 158, 144, 155>>) \cup {<<\hE11D45, 119>>}

\* The scan codes that are known; one of them has no Linux key.
Windows == {p[1] : p \in FromOneByte \cup FromExtended \cup FromSystem} \cup {\hE06D}

ToLinux(w) == At(FromOneByte \cup FromExtended \cup FromSystem, w)

-----------------------------------------------------------------------------
\* A key of Windows: <<scan code of one byte, extended>>.
WindowsKey == (0..255) \X BOOLEAN

\* Capture: the Linux code, or Err when the key is left out.
ScanCode(k) == k[1] + (IF k[2] THEN \hE000 ELSE 0)
to_key_event(k) == IF ScanCode(k) \in Windows THEN ToLinux(ScanCode(k)) ELSE Err

\* Emulation: what is sent, if anything; "as u16" cuts Pause to two bytes.
linux_keycode_to_windows_scancode(c) ==
  LET w == ToWindows(c) IN IF w = Err THEN Err ELSE w % 65536

key_event(c) ==
  LET w == linux_keycode_to_windows_scancode(c)
  IN IF w = Err THEN <<>> ELSE <<<<w % 256, w > 255>>>>

-----------------------------------------------------------------------------
\* Scan codes that have a canonical other: the error code of an overrun buffer
\* and the shift that precedes a grey key.
Alias == {<<\hFF, FALSE>>, <<\h36, TRUE>>}

\* A key captured on Windows is emulated on Windows as the same key.
KeyArrivesAsItself(k) ==
  to_key_event(k) # Err /\ k \notin Alias => key_event(to_key_event(k)) = <<k>>

\* A key emulated for a peer can be captured and sent on, as the same key: the two
\* tables agree on which scan codes exist.  (Pause is the exception: cut to two
\* bytes it is the scan code of no key.)
EmulatedIsKnown(c) ==
  key_event(c) # <<>> /\ c # 119 =>
    LET k == key_event(c)[1]
    IN ScanCode(k) \in Windows /\ key_event(to_key_event(k)) = <<k>>
=============================================================================
