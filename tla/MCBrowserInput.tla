--------------------------- MODULE MCBrowserInput ---------------------------
(* The keys of the shortcut, one mouse button, two fingers, two gamepads,  *)
(* two places.  Six things the user does suffice: hold, focus away,        *)
(* release, focus back; a key held into the shortcut; two touches with     *)
(* their timers; open a device, drag or press, stop, close, open again.    *)
EXTENDS OnScreen
=============================================================================
