---------------------------- MODULE CommandQueue ----------------------------
(***************************************************************************)
(* What a valkeyAsyncContext promises the application that gives it        *)
(* commands with callbacks (docs/standalone.md, "Asynchronous API"),       *)
(* without connections, buffers, timers or handlers: commands wait in one  *)
(* queue; the first is answered with its own reply, or refused by the      *)
(* server, and once the context is closing every command that is left, or  *)
(* still comes, gets NULL.  Module Async implements it.                    *)
(***************************************************************************)
EXTENDS Integers, Sequences

CONSTANTS Cmds, NullReply, ErrorReply

VARIABLES issued,    \* commands accepted so far
          pending,   \* those not answered yet, [id, fn]
          calls,     \* calls[i]: the replies handed to command i's callback
          closing,   \* nothing but NULL is to be expected
          released   \* the context is gone

vars == <<issued, pending, calls, closing, released>>

Init == /\ issued = 0 /\ pending = <<>>
        /\ calls = [i \in Cmds |-> <<>>]
        /\ closing = FALSE /\ released = FALSE

Issue ==
    /\ ~released
    /\ issued + 1 \in Cmds
    /\ issued' = issued + 1
    /\ \E fn \in BOOLEAN : pending' = Append(pending, [id |-> issued + 1, fn |-> fn])
    /\ UNCHANGED <<calls, closing, released>>

\* The first command is done and its callback, if it has one, gets reply r.
Finish(r) ==
    /\ pending # <<>>
    /\ pending' = Tail(pending)
    /\ calls' = IF Head(pending).fn
                THEN [calls EXCEPT ![Head(pending).id] = Append(@, r)] ELSE calls
    /\ UNCHANGED <<issued, closing, released>>

Answer == ~closing /\ pending # <<>> /\ Finish(Head(pending).id)
Refuse == ~closing /\ Finish(ErrorReply)
Fail   == closing /\ Finish(NullReply)

Close == /\ ~closing /\ closing' = TRUE
         /\ UNCHANGED <<issued, pending, calls, released>>

Release == /\ closing /\ ~released /\ pending = <<>>
           /\ released' = TRUE
           /\ UNCHANGED <<issued, pending, calls, closing>>

Next == Issue \/ Answer \/ Refuse \/ Fail \/ Close \/ Release

Spec == Init /\ [][Next]_vars
=============================================================================
