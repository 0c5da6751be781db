------------------------------ MODULE Modifiers ------------------------------
(***************************************************************************)
(* Modifier keys of a macOS machine, emulated by wlroots or by macOS.  The *)
(* event tap reports every change of a modifier as the flags that are set  *)
(* now; the capture backend guesses from the flags whether the key went    *)
(* down or up, and sends the key followed by the whole mask.  InputEmulation *)
(* drops a key event that changes nothing, the backend keeps a mask of its *)
(* own that key events and mask events both change.                        *)
(***************************************************************************)
EXTENDS Naturals, FiniteSets, FiniteSetsExt, Sequences

Modifier == [LeftShift |-> "Shift", RightShift |-> "Shift", LeftCtrl |-> "Control",
             LeftMeta |-> "Mod4", CapsLock |-> "Lock"]
ModKey == DOMAIN Modifier
Holdable == ModKey \ {"CapsLock"}
\* XMods: the bit of a mask.
Bit == [Shift |-> 1, Lock |-> 2, Control |-> 4, Mod4 |-> 64]
Bits(mask) == SumSet({Bit[m] : m \in mask})

VARIABLES
  sink,            \* the emulating machine: "wlroots" or "macos"
  held, caps,      \* modifier keys held on the capturing machine; its caps lock
  captured,        \* its input goes to the other machine
  modifier_state,  \* of the event tap
  told,            \* a change was reported since the capture began
  pressed_keys,    \* InputEmulation.pressed_keys
  mods,            \* XMods of the emulation backend
  active           \* modifiers its operating system was told last

modVars == <<sink, held, caps, captured, modifier_state, told, pressed_keys, mods, active>>

ModInit ==
  /\ sink \in {"wlroots", "macos"}
  /\ held = {} /\ caps \in BOOLEAN /\ captured = FALSE /\ modifier_state = {}
  /\ told = FALSE /\ pressed_keys = {} /\ mods = {} /\ active = {}

Flags(keys, lock) == {Modifier[k] : k \in keys} \cup IF lock THEN {"Lock"} ELSE {}

-----------------------------------------------------------------------------
(* The emulation backend; s is the pair of its mask and what the operating *)
(* system was told.                                                        *)

\* A key event: wlroots toggles a lock when its key is released.
update_by_key_event(mask, k, state) ==
  IF k = "CapsLock" THEN
    IF state = 1 THEN mask ELSE (mask \ {"Lock"}) \cup ({"Lock"} \ mask)
  ELSE IF state = 1 THEN mask \cup {Modifier[k]} ELSE mask \ {Modifier[k]}

update_modifiers(mask, k, state) ==
  IF state = 1 THEN mask \cup {Modifier[k]} ELSE mask \ {Modifier[k]}

ConsumeKey(s, k, state) ==
  LET mask == IF sink = "wlroots" THEN update_by_key_event(s[1], k, state)
              ELSE update_modifiers(s[1], k, state)
  IN  <<mask, mask>>

\* A mask event: wlroots passes it on, macOS ignores what is locked.
ConsumeModifiers(s, depressed, locked) ==
  IF sink = "wlroots" THEN <<depressed \cup locked, depressed \cup locked>>
  ELSE <<depressed, depressed>>

\* InputEmulation::consume of a key: nothing that changes nothing.
Consume(s, keys, k, state) ==
  IF (state = 1) = (k \in keys) THEN s ELSE ConsumeKey(s, k, state)
Keys(keys, k, state) == IF state = 1 THEN keys \cup {k} ELSE keys \ {k}

\* get_events on a change of the flags: the key, then the mask.
FlagsChanged(k, flags) ==
  LET state == IF Bits(flags) > Bits(modifier_state) THEN 1 ELSE 0
      s == ConsumeModifiers(Consume(<<mods, active>>, pressed_keys, k, state), flags, flags \cap {"Lock"})
  IN  /\ modifier_state' = flags /\ told' = TRUE
      /\ mods' = s[1] /\ active' = s[2]
      /\ pressed_keys' = Keys(pressed_keys, k, state)

Report(k, flags) ==
  IF captured THEN FlagsChanged(k, flags)
  ELSE UNCHANGED <<modifier_state, told, pressed_keys, mods, active>>

Press(k) ==
  /\ k \in Holdable \ held
  /\ held' = held \cup {k} /\ Report(k, Flags(held', caps))
  /\ UNCHANGED <<caps, captured>>

Release(k) ==
  /\ k \in held
  /\ held' = held \ {k} /\ Report(k, Flags(held', caps))
  /\ UNCHANGED <<caps, captured>>

ToggleCaps ==
  /\ caps' = ~caps /\ Report("CapsLock", Flags(held, caps'))
  /\ UNCHANGED <<held, captured>>

Begin ==
  /\ ~captured /\ captured' = TRUE /\ told' = FALSE
  /\ UNCHANGED <<held, caps, modifier_state, pressed_keys, mods, active>>


\* release_keys: every key, in any order, and then an empty mask.
release_keys(s) == ConsumeModifiers(s, {}, {})

\* The capture ends, and the other machine lets go of what it holds.
End ==
  /\ captured /\ captured' = FALSE
  /\ LET s == release_keys(<<mods, active>>) IN mods' = s[1] /\ active' = s[2]
  /\ pressed_keys' = {}
  /\ UNCHANGED <<held, caps, modifier_state, told>>

ModNext ==
  /\ UNCHANGED sink
  /\ \/ \E k \in ModKey : Press(k) \/ Release(k)
     \/ ToggleCaps \/ Begin \/ End

-----------------------------------------------------------------------------
\* Once a capture has reported a change, the emulating machine's modifiers are
\* those held on the capturing one, although the direction of a key is guessed
\* and two keys share a modifier.
ModifiersFollow == captured /\ told => active = Flags(held, caps)

\* Between captures no modifier is left active, whatever was held at its end.
NoModifierLingers == ~captured => active = {} /\ mods = {} /\ pressed_keys = {}
=============================================================================
