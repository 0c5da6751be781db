----------------------------- MODULE MC_Daemon -----------------------------
(***************************************************************************)
(* The parts of the daemon that do not share state with each other, in one *)
(* model: the service with its registry, configuration, frontends and      *)
(* connections, and what the capture, emulation and clipboard backends of  *)
(* the four platforms do.  `part` says which of them a behaviour is about: *)
(* it is <<name>> for a state machine, whose steps alone are taken (the    *)
(* variables of the others stay as they are initially), <<name, argument,  *)
(* ...>> for an algorithm without state, which is evaluated on that        *)
(* argument, and <<"tables">> for algorithms evaluated on samples.         *)
(***************************************************************************)
EXTENDS Registry, Integers, FiniteSets

VARIABLE part

R(x, y, w, h) == [x |-> x, y |-> y, w |-> w, h |-> h]
Two == {1, 2}
Three == 3
Four == 4

-----------------------------------------------------------------------------
(* Wayland: two outputs side by side, two barriers. *)
SideBySide == {R(0, 0, 2, 2), R(2, 0, 2, 2)}
EdgeKeys == {<<"Left", "None">>, <<"Right", "m1">>}

VARIABLES outputs, active_positions, active_windows, focused, pointer_lock,
          scroll_discrete_pending, pending_events, monitors, gen, over, gone, begun, stale, dead

\* two outputs and barriers, or one of each, whose surfaces are made again and again
Ls == INSTANCE LayerShell WITH Global <- Two, Layout <- SideBySide, Key <- EdgeKeys,
                               MaxGen <- 2, MaxQueue <- 1
Ls2 == INSTANCE LayerShell WITH Global <- {1}, Layout <- SideBySide, Key <- {<<"Left", "None">>},
                                MaxGen <- 4, MaxQueue <- 1
lsVars == <<outputs, active_positions, active_windows, focused, pointer_lock,
            scroll_discrete_pending, pending_events, monitors, gen, over, gone, begun, stale, dead>>

(* the input capture portal *)
VARIABLES wanted, caller, notify, ei_clients, occurred, zones_changed, outdated, signal,
          ei_phase, barriers, session, ei_reader, read_key, updater, current_key, cancel_session,
          cancel_ei, devices_changed, released, cancelled, chan, waiters, ei_begun

Lei == INSTANCE LibeiCapture WITH Key <- EdgeKeys, phase <- ei_phase, reader <- ei_reader,
                                  begun <- ei_begun
leiVars == <<wanted, caller, notify, ei_clients, occurred, zones_changed, outdated, signal,
             ei_phase, barriers, session, ei_reader, read_key, updater, current_key,
             cancel_session, cancel_ei, devices_changed, released, cancelled, chan, waiters,
             ei_begun>>

-----------------------------------------------------------------------------
(* Modifier state, from a macOS keyboard to two emulation backends. *)
VARIABLES sink, held, caps, captured, modifier_state, told_mods, pressed_keys, mods, active

Mod == INSTANCE Modifiers WITH told <- told_mods
modVars == <<sink, held, caps, captured, modifier_state, told_mods, pressed_keys, mods, active>>

(* the emulation backends *)
VARIABLES input_for_client, unsent, full, last_flush_failed,
          devices, ei_task, libei_error, error, connected, answers,
          pressed_buttons, previous_button, recent, button_click_state, trail

Eb == INSTANCE EmulationBackends WITH Handle <- Two, Device <- Two, MaxUnsent <- Three,
                                      MaxTrail <- Four
wlVars == <<input_for_client, unsent, full, last_flush_failed>>
eiVars == <<devices, ei_task, libei_error, error, connected, answers>>
clickVars == <<pressed_buttons, previous_button, recent, button_click_state, trail>>
ebVars == <<wlVars, eiVars, clickVars>>

(* display changes *)
VARIABLES os, layout, dw_thread, notices, generation, displays, dw_monitors, dw_missed

Dw == INSTANCE DisplayWatch WITH MaxChanges <- Four, thread <- dw_thread,
                                 monitors <- dw_monitors, missed <- dw_missed
dwVars == <<os, layout, dw_thread, notices, generation, displays, dw_monitors, dw_missed>>

(* the clipboards *)
VARIABLES count, content, reader, change_count, read_image, image_cache, result,
          step, op, placed, is_open, formats, copy, leaked, ret,
          board, child, seen, got, wrote

Cb == INSTANCE ClipboardBackends WITH MaxCount <- Three
pbVars == <<count, content, reader, change_count, read_image, image_cache, result>>
winVars == <<step, op, placed, is_open, formats, copy, leaked, ret>>
toolVars == <<board, child, seen, got, wrote>>
cbVars == <<pbVars, winVars, toolVars>>

Di == INSTANCE Displays
Ic == INSTANCE InputCodes

-----------------------------------------------------------------------------
DesktopVars == <<lsVars, leiVars, modVars, ebVars, dwVars, cbVars>>

DesktopMachines == {<<"layer_shell">>, <<"layer_shell_again">>, <<"libei">>, <<"modifiers">>,
                    <<"wlroots">>, <<"ei">>, <<"clicks">>, <<"displays">>, <<"pasteboard">>, <<"win_clipboard">>, <<"tool">>}

\* Where a machine may start in several states, it does so in its own part.
DesktopInit ==
  /\ Ls!LsInit
  /\ Lei!LeiInit
  /\ Mod!ModInit /\ (part # <<"modifiers">> => sink = "macos" /\ ~caps)
  /\ Eb!WlInit /\ Eb!EiInit /\ Eb!ClickInit
  /\ Dw!DwInit /\ (part # <<"displays">> => os = "macos")
  /\ Cb!PbInit /\ (part # <<"pasteboard">> => content = "i1")
  /\ Cb!WinInit /\ Cb!ToolInit

DesktopNext ==
  \/ /\ \/ part = <<"layer_shell">> /\ Ls!LsNext
        \/ part = <<"layer_shell_again">> /\ Ls2!LsNext
     /\ UNCHANGED <<leiVars, modVars, ebVars, dwVars, cbVars>>
  \/ part = <<"libei">> /\ Lei!LeiNext /\ UNCHANGED <<lsVars, modVars, ebVars, dwVars, cbVars>>
  \/ part = <<"modifiers">> /\ Mod!ModNext /\ UNCHANGED <<lsVars, leiVars, ebVars, dwVars, cbVars>>
  \/ /\ UNCHANGED <<lsVars, leiVars, modVars, dwVars, cbVars>>
     /\ \/ part = <<"wlroots">> /\ Eb!WlNext /\ UNCHANGED <<eiVars, clickVars>>
        \/ part = <<"ei">> /\ Eb!EiNext /\ UNCHANGED <<wlVars, clickVars>>
        \/ part = <<"clicks">> /\ Eb!ClickNext /\ UNCHANGED <<wlVars, eiVars>>
  \/ part = <<"displays">> /\ Dw!DwNext /\ UNCHANGED <<lsVars, leiVars, modVars, ebVars, cbVars>>
  \/ /\ UNCHANGED <<lsVars, leiVars, modVars, ebVars, dwVars>>
     /\ \/ part = <<"pasteboard">> /\ Cb!PbNext /\ UNCHANGED <<winVars, toolVars>>
        \/ part = <<"win_clipboard">> /\ Cb!WinNext /\ UNCHANGED <<pbVars, toolVars>>
        \/ part = <<"tool">> /\ Cb!ToolNext /\ UNCHANGED <<pbVars, winVars>>

-----------------------------------------------------------------------------
(* Samples. *)
Tables == part = <<"tables">>

Layouts == {<<R(0, 0, 3, 2)>>, <<R(0, 0, 2, 3), R(2, 1, 2, 1)>>,
            <<R(0, 2, 2, 2), R(1, 0, 3, 2)>>, <<R(0, 0, 2, 2), R(3, 0, 2, 2)>>,
            <<R(0, 0, 3, 3), R(1, 1, 3, 2)>>}
Grid == (-1..5) \X (-1..5)
Reported(rect, label, name, num, main, attached) ==
  [rect |-> rect, label |-> label, name |-> name, num |-> num, main |-> main,
   attached |-> attached, has_mode |-> TRUE]
DisplaySets ==
  LET a == Reported(R(0, 0, 2, 2), "dell", "DP-1", 7, TRUE, TRUE)
      b == Reported(R(2, 0, 2, 2), "", "DP-2", 8, FALSE, TRUE)
      c == Reported(R(0, 0, 3, 2), "", "", 9, FALSE, TRUE)
      d == Reported(R(4, 0, 0, 2), "eizo", "DP-3", 3, FALSE, FALSE)
  IN {<<>>} \cup UNION {[1..n -> {a, b, c, d}] : n \in 1..3}
Side == {"Left", "Right", "Top", "Bottom"}
Backends == {"layer_shell", "libei", "macos", "windows"}

Wheel == {-240, -120, -40, 40, 120, 360}
Buttons == {<<"button", b, s>> : b \in {"LEFT", "RIGHT", "MIDDLE"}, s \in {0, 1}}
             \cup {<<"xbutton", b, s>> : b \in Two, s \in {0, 1}}
             \cup {<<"other", b, s>> : b \in {2, 3, 4}, s \in {0, 1}}
NativeInput ==
  {<<"windows", <<"wheel", v>>>> : v \in Wheel}
  \cup {<<IF b[1] = "other" THEN "macos" ELSE "windows", b>> : b \in Buttons}
  \cup {<<"macos", <<k, v, h>>>> : k \in {"line", "pixel"}, v \in -2..2, h \in -2..2}
  \cup {<<"libei", <<k, v, h>>>> :
          k \in {"ScrollDelta", "ScrollDiscrete"}, v \in -2..2, h \in -2..2}
  \cup {<<"libei", <<"Button", b, s>>>> : b \in Ic!Button, s \in {0, 1}}

Names == UNION {[1..n -> {<<1>>, <<1, 2>>, <<2, 1, 1>>}] : n \in 0..2}
Dibs == {<<2, 0>>, <<3, 0, 0, 7>>, <<2, 5, 5, 5>>, <<4, 1>>}
Files == [name : {"a", "b"}, dir : BOOLEAN, size : {0, 1, 2, 5}, content : {"c"}]
Selections == UNION {[1..n -> Files] : n \in 0..2}
Systems == {"windows", "macos", "linux"}

-----------------------------------------------------------------------------
(* Barrier geometry: displays side by side, one above the other, with a gap *)
(* and overlapping.                                                         *)
Geo == INSTANCE Geometry

Points == (-1..4) \X (-1..4)
Bounds(rects) == [i \in DOMAIN rects |->
                    [rect |-> rects[i], monitor_id |-> IF i = 1 THEN "m1" ELSE "m2"]]
BarrierSets == {{<<"Left", "m1">>}, {<<"Left", "None">>, <<"Left", "m2">>},
                {<<"Right", "m2">>, <<"Top", "None">>}, {<<"Bottom", "m1">>}}
Moves == {<<"move", prev, curr, rects>> : prev \in Points, curr \in Points, rects \in Layouts}

-----------------------------------------------------------------------------
(* Byte formats. *)
Wi == INSTANCE Wire WITH HashLen <- 2, InlineLimit <- 3

F64 == <<64, 0, 0, 0, 0, 0, 0, 1>>
Word == {0, 1, 255, 256, 65535, 2147483647}
InputEvents ==
  {<<"PointerMotion", <<t, F64, F64>>>> : t \in Word}
  \cup {<<"PointerButton", <<0, b, 1>>>> : b \in Word}
  \cup {<<"PointerAxis", <<7, 1, F64>>>>, <<"PointerAxisValue120", <<1, 120>>>>}
  \cup {<<"KeyboardKey", <<t, k, 1>>>> : t \in {0, 256}, k \in Word}
  \cup {<<"KeyboardModifiers", <<a, 0, 1, b>>>> : a \in Word, b \in {0, 255}}
  \cup {<<"Ping", <<>>>>, <<"Pong", <<TRUE>>>>, <<"Pong", <<FALSE>>>>, <<"Enter", <<3>>>>}
  \cup {<<type, <<n>>>> : type \in {"Leave", "Ack"}, n \in Word}
  \cup {<<"Hello", <<F64, F64>>>>}
ClipboardEvents ==
  {Wi!FromContent(<<1, 2>>, <<3, 4>>, [i \in 1..n |-> 65]) : n \in 0..4}
  \cup {<<"ClipboardImage", <<<<1, 2>>, <<80>>, <<3, 4>>, n>>>> : n \in Word}
  \cup {<<"ClipboardFiles", <<<<1, 2>>, [i \in 1..n |-> <<<<97>>, 5, <<>>, <<0, i>>>>]>>>> :
          n \in 0..2}
  \cup {<<"FileTransferOffer", <<<<1, 2>>, <<>>, 9, <<46, 47>>>>>>,
        <<"FileTransferResponse", <<<<1, 2>>, TRUE>>>>,
        <<"FileTransferCancel", <<<<1, 2>>>>>>, <<"ClipboardRequest", <<<<1, 2>>>>>>}

Letters == {<<71, 69, 84>>, <<80, 79, 83, 84>>}
Bodies == {<<>>, <<1>>, <<9, 0, 9>>}
Formats ==
  {<<"event", e>> : e \in InputEvents \cup ClipboardEvents}
  \cup {<<"stream", "B", <<d, e>>, at>> :
          d \in {<<"Ping", <<>>>>, <<"Leave", <<7>>>>}, e \in InputEvents, at \in 0..2}
  \cup {<<"stream", "C", <<d, e>>, at>> :
          d \in {<<"FileTransferCancel", <<<<1, 2>>>>>>}, e \in ClipboardEvents, at \in 0..2}
  \cup {<<"request", m, p, b, rest>> :
          m \in Letters, p \in {<<47>>, <<47, 0, 5>>}, b \in Bodies, rest \in Bodies}

-----------------------------------------------------------------------------
(* Routes and ranges of HTTP/3-lite. *)
Tokens == {0, 1, 2, 5, Wi!Dash, Wi!Junk}
RangeValues == UNION {[1..n -> Tokens] : n \in 0..3}
Ranges == {<<"range", b, v>> : b \in {<<>>, <<7>>, <<7, 8, 9>>}, v \in RangeValues}

-----------------------------------------------------------------------------
(* The configuration file. *)
VARIABLES file, toml, cfg_clients, watching, cfg_events, saving, missed

Cf == INSTANCE Config WITH Client <- Two, MaxEvents <- 2, clients <- cfg_clients,
                           events <- cfg_events
cfgVars == <<file, toml, cfg_clients, watching, cfg_events, saving, missed>>

Channels == [mouse_button : {"datagram", "stream"}, keyboard : {"datagram", "stream"}]
TomlClients ==
  [ips : SUBSET Two, hostname : {<<>>, <<"h">>}, port : {2268, 80}, pos : {"left", "right"},
   active : BOOLEAN, enter_hook : {<<>>}, input_channels : Channels, monitor : {<<>>, <<"m">>},
   enable_clipboard_to : BOOLEAN]

(* the frontend *)
VARIABLES fe_clients, present, cfg, pump, open, requests, events, lagged, store, drafts, dropped

Fe == INSTANCE Frontend WITH Handle <- {1}, Field <- {"a"}, MaxRequests <- 1,
                             MaxQueue <- 2, clients <- fe_clients
feVars == <<fe_clients, present, cfg, pump, open, requests, events, lagged, store, drafts, dropped>>

Rows == [hostname : {"null", "a"}, port : {"1", "2"}, pos : {"left", "top"},
         input_channels : {"x", "y"}, monitor : {"null", "m1"}]
Typed == [hostname |-> {"", "a", "b"}, port |-> {"1", "2"}, pos |-> {"left", "top"},
          input_channels |-> {"x", "y"}, monitor |-> {"", "m1", "m2"}]

(* the socket and the command line *)
VARIABLES path, left, daemon_step, cli, lines, inbox, made, named, crowded

Ip == INSTANCE Ipc WITH Daemon <- 1..3, Cli <- 1..3, step <- daemon_step
sockVars == <<path, left, daemon_step>>
cliVars == <<cli, lines, inbox, made, named, crowded>>
ipcVars == <<sockVars, cliVars>>

(* the dial race and the exchange of Hello *)
VARIABLES at, allows, pin, dials, phase, link, rejected

Hs == INSTANCE Handshake WITH Addr <- {"a1", "a2"}, Primary <- "a1", Host <- {"h1", "h2"},
                              None <- "none"
hsVars == <<at, allows, pin, dials, phase, link, rejected>>

Channeled == {"Button", "Key", "Modifiers"} \cup Hs!Moving \cup Hs!Control \cup Hs!Bulk

(* name resolution, the identity files, the power notifications *)
VARIABLES hostname, dns_ips, dns_requests, tasks, dns_events, cert_pem, key_pem, daemon, starts,
          owner, run_loop, thread, ctx, wakes

Su == INSTANCE SupportTasks WITH Client <- {1}, Name <- Two, MaxPending <- 3, MaxStarts <- 4,
                                 MaxWakes <- 2, requests <- dns_requests, events <- dns_events
dnsVars == <<hostname, dns_ips, dns_requests, tasks, dns_events>>
idVars == <<cert_pem, key_pem, daemon, starts>>
powVars == <<owner, run_loop, thread, ctx, wakes>>
suVars == <<dnsVars, idVars, powVars>>

(* two hosts that control each other *)
VARIABLES crossings, hook, cmds, evs, task, trigger, capture_rq, emulation_rq, enters, replies

Ho == INSTANCE Handover WITH Host <- Two, MaxCrossings <- 2
hoVars == <<crossings, hook, cmds, evs, task, trigger, capture_rq, emulation_rq, enters, replies>>

-----------------------------------------------------------------------------
ServiceVars == <<cfgVars, feVars, ipcVars, hsVars, suVars, hoVars>>

ServiceMachines == {<<"config">>, <<"frontend">>, <<"socket">>, <<"cli">>, <<"dial">>, <<"dns">>,
                    <<"identity">>, <<"power">>, <<"handover">>}

ServiceInit ==
  /\ Cf!CfgInit /\ (part # <<"config">> => file = <<{}>> /\ toml = <<{}>>)
  /\ Fe!FeInit /\ (part # <<"frontend">> => fe_clients[1] = "none" /\ cfg = Fe!Placeholder)
  /\ Ip!SockInit /\ (part # <<"socket">> => ~left)
  /\ Ip!CliInit
  /\ Hs!HsInit
  /\ part # <<"dial">> => at = [a \in DOMAIN at |-> "h1"] /\ allows = {} /\ pin = "h1"
  /\ Su!DnsInit /\ Su!IdInit /\ Su!PowInit
  /\ Ho!HoInit

ServiceNext ==
  \/ part = <<"config">> /\ Cf!CfgNext /\ UNCHANGED <<feVars, ipcVars, hsVars, suVars, hoVars>>
  \/ part = <<"frontend">> /\ Fe!FeNext /\ UNCHANGED <<cfgVars, ipcVars, hsVars, suVars, hoVars>>
  \/ /\ UNCHANGED <<cfgVars, feVars, hsVars, suVars, hoVars>>
     /\ \/ part = <<"socket">> /\ Ip!SockNext /\ UNCHANGED cliVars
        \/ part = <<"cli">> /\ Ip!CliNext /\ UNCHANGED sockVars
  \/ part = <<"dial">> /\ Hs!HsNext /\ UNCHANGED <<cfgVars, feVars, ipcVars, suVars, hoVars>>
  \/ /\ UNCHANGED <<cfgVars, feVars, ipcVars, hsVars, hoVars>>
     /\ \/ part = <<"dns">> /\ Su!DnsNext /\ UNCHANGED <<idVars, powVars>>
        \/ part = <<"identity">> /\ Su!IdNext /\ UNCHANGED <<dnsVars, powVars>>
        \/ part = <<"power">> /\ Su!PowNext /\ UNCHANGED <<dnsVars, idVars>>
  \/ part = <<"handover">> /\ Ho!HoNext /\ UNCHANGED <<cfgVars, feVars, ipcVars, hsVars, suVars>>

-----------------------------------------------------------------------------
allVars == <<part, vars, DesktopVars, ServiceVars>>

MCInit ==
  /\ part \in {<<"registry">>, <<"tables">>} \cup DesktopMachines \cup ServiceMachines
                \cup Moves \cup Formats \cup Ranges
  /\ IF part = <<"registry">> THEN Init ELSE Started(NoClients)
  /\ DesktopInit
  /\ ServiceInit

\* Algorithms, and every machine but the registry, may come to rest.
MCNext ==
  \/ part = <<"registry">> /\ Next /\ UNCHANGED <<part, DesktopVars, ServiceVars>>
  \/ DesktopNext /\ UNCHANGED <<part, vars, ServiceVars>>
  \/ ServiceNext /\ UNCHANGED <<part, vars, DesktopVars>>
  \/ part # <<"registry">> /\ UNCHANGED allVars

MCSpec == MCInit /\ [][MCNext]_allVars

-----------------------------------------------------------------------------
(* What is checked of the parts; their modules state the conjuncts. *)






\* Of two hosts that control each other at most one does so, and it is the one
\* whose cursor is captured and that sends.
OneMaster == Ho!OneMaster /\ Ho!MasterIsSending


=============================================================================
