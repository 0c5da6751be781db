---------------------------- MODULE MC_Clipboard ----------------------------
(***************************************************************************)
(* Two daemons for TLC: a Mac that dials a Windows machine.                *)
(***************************************************************************)
EXTENDS ClipboardSync, TLC

CONSTANTS mac, win, s1, b1, p1

MCPlatform == [h \in Host |-> IF h = mac THEN "macos" ELSE "windows"]
Copying(m, w) == [h \in Host |-> IF h = mac THEN m ELSE w]
MCPlans == {Copying({s1, b1}, {s1, b1}), Copying({p1}, {})}
MCSha == Text \cup Image
MCSize == [s \in MCSha |-> IF s \in Image THEN 2 ELSE 1]
=============================================================================
