------------------------------ MODULE MCAsync ------------------------------
(***************************************************************************)
(* Instances of module Async for TLC.                                      *)
(***************************************************************************)
EXTENDS Async

AllEndings == {"eof", "garbage", "refused", "reset"}

\* A context freed in the callback of a failed connect or of a timeout, under
\* VALKEY_OPT_NOAUTOFREE: the handlers do not look at VALKEY_FREEING, and the
\* user gave it away.
Abandoned == pc = "idle" /\ ~attached /\ {"FREEING", "NO_AUTO_FREE"} \subseteq flags

\* Only a released or abandoned context may stop.
Stopped == (pc = "freed" \/ Abandoned) /\ UNCHANGED vars
MCSpec == Init /\ [][Next \/ Stopped]_vars
=============================================================================
