------------------------------ MODULE Adapters ------------------------------
(***************************************************************************)
(* The event library adapters of src/include/valkey/adapters: what stands   *)
(* between an asynchronous context, which asks for read and write events    *)
(* and for a timer through the hooks of ac->ev, and an event library, which *)
(* calls back.  A callback of the library may make the context close, and   *)
(* with it the adapter's container go away, while the library or the        *)
(* adapter is still in the middle of it; each adapter has its own way to    *)
(* survive that.                                                           *)
(*                                                                         *)
(* The context is connected and modelled by what its handlers do to the     *)
(* hooks (module Async models the rest of it); it is freed when it closes.  *)
(* The event libraries are modelled by how the adapters use them: an event  *)
(* that was cancelled is not delivered any more, but events that are        *)
(* delivered in one callback are.                                           *)
(***************************************************************************)
EXTENDS Integers, Sequences, FiniteSets

CONSTANTS
    Kinds,      \* the adapters to look at
    MaxAsks     \* commands the application issues from outside of callbacks

VARIABLES
    s,          \* the context's side and the adapter's container
    pc,         \* "loop", or "callback" while the adapter's handler runs
    got,        \* events the library has found and not delivered yet
    calls,      \* events the running handler still has to look at
    asks        \* commands issued so far

vars == <<s, pc, got, calls, asks>>

Events == {"read", "write"}
AllKinds == {"libevent", "libsdevent", "libuv", "libev", "ae", "valkeymoduleapi", "poll",
             "ivykis", "libhv", "glib", "macosx", "qt"}

\* One callback is called with all events of the socket.
Combined == {"libevent", "libsdevent", "libuv", "libhv", "glib", "poll"}
\* scheduleTimer is NULL.
Timerless == {"ae", "ivykis", "glib", "macosx", "qt"}

ASSUME KindsAssumption == Kinds \subseteq AllKinds /\ MaxAsks \in Nat
-----------------------------------------------------------------------------
(* The container.  A pointer that is followed after its target is gone is   *)
(* recorded in bad.                                                         *)

Use(x) == IF x.data = "alloc" THEN x ELSE [x EXCEPT !.bad = @ \cup {"container"}]
Release(x) == [Use(x) EXCEPT !.data = "freed"]

\* The library watches what the mask says; or one event more, one less.
Mask(x, flags) == [Use(x) EXCEPT !.flags = flags, !.watch = flags]
Start(x, ev) == [Use(x) EXCEPT !.flags = @ \cup {ev}, !.watch = @ \cup {ev}]
Stop(x, ev) == [Use(x) EXCEPT !.flags = @ \ {ev}, !.watch = @ \ {ev}]

\* A timer the library runs once.
Arm(x) == [Use(x) EXCEPT !.timer = "armed"]
Quiet(x) == [x EXCEPT !.watch = {}, !.timer = "none"]

\* libevent.h
valkeyLibeventUpdate(x, ev, isRemove) ==
    IF isRemove THEN IF ev \notin x.flags THEN x ELSE Mask(x, x.flags \ {ev})
    ELSE IF ev \in x.flags THEN x ELSE Mask(x, x.flags \cup {ev})
\* Faulty variant: the container is freed under the running handler.
valkeyLibeventCleanup_AtOnce(x) == Release(Quiet(x))
valkeyLibeventCleanup(x) ==
    IF "ENTERED" \in x.state THEN [Quiet(Use(x)) EXCEPT !.state = @ \cup {"DELETED"}]
    ELSE Release(Quiet(x))
valkeyLibeventSetTimeout(x) == Arm(x)

\* libsdevent.h: the source exists as long as some flag is set.
valkeyLibsdeventAddEvent(x, ev) ==
    IF ev \in x.flags THEN x
    ELSE [Mask(x, x.flags \cup {ev}) EXCEPT
            !.watch = IF x.flags # {} /\ ~ x.source THEN {} ELSE @,
            !.source = @ \/ x.flags = {}]
valkeyLibsdeventDelEvent(x, ev) ==
    [Mask(x, x.flags \ {ev}) EXCEPT !.source = @ /\ x.flags \ {ev} # {}]
valkeyLibsdeventDestroy(x) == Release(Quiet([x EXCEPT !.source = FALSE]))
valkeyLibsdeventCleanup(x) ==
    IF "ENTERED" \in x.state THEN [Use(x) EXCEPT !.state = @ \cup {"DELETED"}]
    ELSE valkeyLibsdeventDestroy(x)
\* A new source is enabled for one shot; setting its time again does not enable it.
valkeyLibsdeventSetTimeout(x) == IF x.timer = "off" THEN Use(x) ELSE Arm(x)

\* libuv.h: the handles are closed by the loop, later.
valkeyLibuvAddEvent(x, ev) == IF ev \in x.flags THEN Use(x) ELSE Mask(x, x.flags \cup {ev})
\* Faulty variant: the event stays in p->events when it is stopped.
valkeyLibuvDelEvent_KeepsFlag(x, ev) == [Mask(x, x.flags \ {ev}) EXCEPT !.flags = x.flags]
valkeyLibuvDelEvent(x, ev) == Mask(x, x.flags \ {ev})
valkeyLibuvSetTimeout(x) == [Arm(x) EXCEPT !.handles = @ \cup {"timer"}]
valkeyLibuvCleanup(x) ==
    [Quiet(Use(x)) EXCEPT !.context = FALSE, !.closing = {"poll"} \cup (x.handles \cap {"timer"})]
\* on_timer_close and on_handle_close: the last one frees the container.
on_close(x, h) ==
    LET y == [Use(x) EXCEPT !.handles = @ \ {h}, !.closing = @ \ {h}]
    IN  IF y.handles = {} THEN Release(y) ELSE y

\* libev.h, ae.h, valkeymoduleapi.h and qt.h: a flag and a watcher per event.
valkeyLibevAddEvent(x, ev) == IF ev \in x.flags THEN Use(x) ELSE Start(x, ev)
valkeyLibevDelEvent(x, ev) == IF ev \in x.flags THEN Stop(x, ev) ELSE Use(x)
valkeyLibevCleanup(x) == Release(Quiet(valkeyLibevDelEvent(valkeyLibevDelEvent(x, "read"), "write")))
valkeyLibevSetTimeout(x) == [Arm(x) EXCEPT !.timer = "repeating"]

valkeyAeAddEvent(x, ev) == IF ev \in x.flags THEN Use(x) ELSE Start(x, ev)
valkeyAeDelEvent(x, ev) == IF ev \in x.flags THEN Stop(x, ev) ELSE Use(x)
valkeyAeCleanup(x) == Release(valkeyAeDelEvent(valkeyAeDelEvent(x, "read"), "write"))

valkeyModuleAddEvent(x, ev) == IF ev \in x.flags THEN Use(x) ELSE Start(x, ev)
valkeyModuleDelEvent(x, ev) == IF ev \in x.flags THEN Stop(x, ev) ELSE Use(x)
valkeyModuleStopTimer(x) == [Use(x) EXCEPT !.timer = "none"]
valkeyModuleCleanup(x) ==
    Release(valkeyModuleStopTimer(valkeyModuleDelEvent(valkeyModuleDelEvent(x, "read"), "write")))
valkeyModuleSetTimeout(x) == Arm(valkeyModuleStopTimer(x))

\* The adapter object belongs to the application.
ValkeyQtAddEvent(x, ev) == IF ev \in x.flags THEN x ELSE Start(x, ev)
ValkeyQtDelEvent(x, ev) == IF ev \in x.flags THEN Stop(x, ev) ELSE x
ValkeyQtCleanup(x) == ValkeyQtDelEvent(ValkeyQtDelEvent(x, "read"), "write")

\* poll.h: the flags are read by the next tick.
valkeyPollAddEvent(x, ev) == Mask(x, x.flags \cup {ev})
valkeyPollDelEvent(x, ev) == Mask(x, x.flags \ {ev})
valkeyPollCleanup(x) ==
    IF "ENTERED" \in x.state THEN [Use(x) EXCEPT !.state = @ \cup {"DELETED"}]
    ELSE Release(Quiet(x))
valkeyPollScheduleTimer(x) == Arm(x)

\* ivykis.h, libhv.h and macosx.h leave the bookkeeping to the library.
valkeyIvykisSetEvent(x, ev, on) == IF on THEN Start(x, ev) ELSE Stop(x, ev)
valkeyIvykisCleanup(x) == Release(Quiet(x))

valkeyLibhvSetEvent(x, ev, on) == IF on THEN Start(x, ev) ELSE Stop(x, ev)
\* events->timer is set once and kept after the timer, a one-shot, has fired: it is
\* "stale" as soon as the library has released the timer, and whatever is done to a
\* stale timer is recorded in late.
Touch(x) == [x EXCEPT !.late = @ \/ x.timer = "stale"]
valkeyLibhvCleanup(x) == Release(Quiet(Touch(x)))
\* A timeout under a millisecond deletes the timer, any other starts it or starts
\* it again; a timer that is reset in its own callback is not released.
valkeyLibhvSetTimeout(x) ==
    IF x.brief THEN [Touch(Use(x)) EXCEPT !.timer = "none"]
    ELSE IF x.timer = "stale" THEN Touch(Use(x))
    ELSE Arm(x)

valkeyMacOSSetEvent(x, ev, on) == IF on THEN Start(x, ev) ELSE Stop(x, ev)
valkeyMacOSCleanup(x) == Release(Quiet(x))

\* glib.h: the source belongs to the main loop.
valkey_source_set(x, ev, on) == Mask(x, IF on THEN x.flags \cup {ev} ELSE x.flags \ {ev})
valkey_source_cleanup(x) == Quiet(valkey_source_set(valkey_source_set(x, "read", FALSE), "write", FALSE))
-----------------------------------------------------------------------------
(* The hooks of ac->ev, as the context calls them. *)

addEvent(x, ev) ==
    CASE x.kind = "libevent" -> valkeyLibeventUpdate(x, ev, FALSE)
      [] x.kind = "libsdevent" -> valkeyLibsdeventAddEvent(x, ev)
      [] x.kind = "libuv" -> valkeyLibuvAddEvent(x, ev)
      [] x.kind = "libev" -> valkeyLibevAddEvent(x, ev)
      [] x.kind = "ae" -> valkeyAeAddEvent(x, ev)
      [] x.kind = "valkeymoduleapi" -> valkeyModuleAddEvent(x, ev)
      [] x.kind = "qt" -> ValkeyQtAddEvent(x, ev)
      [] x.kind = "poll" -> valkeyPollAddEvent(x, ev)
      [] x.kind = "ivykis" -> valkeyIvykisSetEvent(x, ev, TRUE)
      [] x.kind = "libhv" -> valkeyLibhvSetEvent(x, ev, TRUE)
      [] x.kind = "macosx" -> valkeyMacOSSetEvent(x, ev, TRUE)
      [] x.kind = "glib" -> valkey_source_set(x, ev, TRUE)

delEvent(x, ev) ==
    CASE x.kind = "libevent" -> valkeyLibeventUpdate(x, ev, TRUE)
      [] x.kind = "libsdevent" -> valkeyLibsdeventDelEvent(x, ev)
      [] x.kind = "libuv" -> valkeyLibuvDelEvent(x, ev)
      [] x.kind = "libev" -> valkeyLibevDelEvent(x, ev)
      [] x.kind = "ae" -> valkeyAeDelEvent(x, ev)
      [] x.kind = "valkeymoduleapi" -> valkeyModuleDelEvent(x, ev)
      [] x.kind = "qt" -> ValkeyQtDelEvent(x, ev)
      [] x.kind = "poll" -> valkeyPollDelEvent(x, ev)
      [] x.kind = "ivykis" -> valkeyIvykisSetEvent(x, ev, FALSE)
      [] x.kind = "libhv" -> valkeyLibhvSetEvent(x, ev, FALSE)
      [] x.kind = "macosx" -> valkeyMacOSSetEvent(x, ev, FALSE)
      [] x.kind = "glib" -> valkey_source_set(x, ev, FALSE)

cleanup(x) ==
    CASE x.kind = "libevent" -> valkeyLibeventCleanup(x)
      [] x.kind = "libsdevent" -> valkeyLibsdeventCleanup(x)
      [] x.kind = "libuv" -> valkeyLibuvCleanup(x)
      [] x.kind = "libev" -> valkeyLibevCleanup(x)
      [] x.kind = "ae" -> valkeyAeCleanup(x)
      [] x.kind = "valkeymoduleapi" -> valkeyModuleCleanup(x)
      [] x.kind = "qt" -> ValkeyQtCleanup(x)
      [] x.kind = "poll" -> valkeyPollCleanup(x)
      [] x.kind = "ivykis" -> valkeyIvykisCleanup(x)
      [] x.kind = "libhv" -> valkeyLibhvCleanup(x)
      [] x.kind = "macosx" -> valkeyMacOSCleanup(x)
      [] x.kind = "glib" -> valkey_source_cleanup(x)

scheduleTimer(x) ==
    CASE x.kind = "libevent" -> valkeyLibeventSetTimeout(x)
      [] x.kind = "libsdevent" -> valkeyLibsdeventSetTimeout(x)
      [] x.kind = "libuv" -> valkeyLibuvSetTimeout(x)
      [] x.kind = "libev" -> valkeyLibevSetTimeout(x)
      [] x.kind = "valkeymoduleapi" -> valkeyModuleSetTimeout(x)
      [] x.kind = "poll" -> valkeyPollScheduleTimer(x)
      [] x.kind = "libhv" -> valkeyLibhvSetTimeout(x)

\* A connected context starts the timer of its commands if it does not run.
refreshTimeout(x) ==
    IF x.waiting \/ x.kind \in Timerless THEN x ELSE [scheduleTimer(x) EXCEPT !.waiting = TRUE]

Want(x, ev) == LET y == [refreshTimeout(x) EXCEPT !.want = @ \cup {ev}]
               IN  IF x.hooks THEN addEvent(y, ev) ELSE y
Unwant(x, ev) == LET y == [x EXCEPT !.want = @ \ {ev}]
                 IN  IF x.hooks THEN delEvent(y, ev) ELSE y

\* The context disconnects and is freed.
Close(x) == [IF x.hooks THEN cleanup(x) ELSE x EXCEPT !.ctx = "freed"]

\* What a handler of the context may do to the hooks.
valkeyAsyncHandleRead(x) ==
    {Close(x), Want(x, "read"), Want(Want(x, "read"), "write"), Close(Want(x, "read"))}
valkeyAsyncHandleWrite(x) ==
    {Close(x), Want(Want(x, "write"), "read"), Want(Unwant(x, "write"), "read")}
\* Nothing outstanding, replies since the timer was started, or none.
valkeyAsyncHandleTimeout(x) == {[x EXCEPT !.waiting = FALSE], scheduleTimer(x), Close(x)}

Handle(x, ev) ==
    IF x.ctx = "freed" THEN {[x EXCEPT !.bad = @ \cup {"context"}]}
    ELSE CASE ev = "read" -> valkeyAsyncHandleRead(x)
           [] ev = "write" -> valkeyAsyncHandleWrite(x)
           [] ev = "timer" -> valkeyAsyncHandleTimeout(x)
-----------------------------------------------------------------------------
(* Attaching *)

Detached(kind) ==
    [kind |-> kind, ctx |-> "open", hooks |-> FALSE, data |-> "none", context |-> FALSE,
     want |-> {}, flags |-> {}, watch |-> {}, source |-> FALSE, handles |-> {},
     closing |-> {}, timer |-> "none", waiting |-> FALSE, brief |-> FALSE, late |-> FALSE,
     state |-> {}, bad |-> {}, failed |-> FALSE]

\* The hooks are set before anything can fail (libuv), the container is freed
\* under them (macosx), or they are set last.
AttachFailed(kind) ==
    CASE kind = "libuv" -> [Detached(kind) EXCEPT !.hooks = TRUE, !.failed = TRUE]
      [] kind = "macosx" -> [Detached(kind) EXCEPT !.hooks = TRUE, !.data = "freed", !.failed = TRUE]
      [] OTHER -> [Detached(kind) EXCEPT !.failed = TRUE]

\* ivykis and macosx begin with both events on.
Attached(kind) ==
    LET on == IF kind \in {"ivykis", "macosx"} THEN Events ELSE {}
    IN  [Detached(kind) EXCEPT !.hooks = TRUE, !.data = "alloc", !.context = TRUE,
                               !.flags = on, !.watch = on, !.handles = {"poll"}]

Init ==
    /\ \E kind \in Kinds : s \in {Attached(kind), AttachFailed(kind)}
    /\ pc = "loop"
    /\ got = {}
    /\ calls = <<>>
    /\ asks = 0

\* Between two callbacks the application, or a callback of some other source of
\* the loop, acts; not so during a tick of the poll adapter.
Outside == pc = "loop" /\ (s.kind = "poll" => got = {})

\* A command is issued, or valkeyAsyncFree called, outside of callbacks.
Command ==
    /\ Outside /\ asks < MaxAsks /\ s.ctx = "open" /\ ~ s.failed
    /\ asks' = asks + 1
    /\ s' = Want(s, "write")
    /\ UNCHANGED <<pc, got, calls>>

\* The command timeout is set to less than a millisecond, or to more; only libhv
\* tells them apart.
SetTimeout ==
    /\ Outside /\ s.ctx = "open" /\ s.kind = "libhv"
    /\ s' = [s EXCEPT !.brief = ~ @]
    /\ UNCHANGED <<pc, got, calls, asks>>

Free ==
    /\ Outside /\ s.ctx = "open"
    /\ s' = Close(s)
    /\ UNCHANGED <<pc, got, calls, asks>>
-----------------------------------------------------------------------------
(* The event loop *)

\* The library finds events.  valkeyPollTick is called by the application, which
\* must not do so once the context is gone.
Collect ==
    /\ pc = "loop" /\ got = {}
    /\ got' \in (SUBSET s.watch) \ {{}}
    /\ s.kind = "poll" => s.ctx = "open"
    /\ UNCHANGED <<s, pc, calls, asks>>

\* Events that were cancelled meanwhile are dropped.
Drop ==
    /\ pc = "loop" /\ got # {} /\ got \cap s.watch = {} /\ s.kind # "glib"
    /\ got' = {}
    /\ UNCHANGED <<s, pc, calls, asks>>

\* A callback per event.
Single ==
    /\ pc = "loop" /\ s.kind \notin Combined
    /\ \E ev \in got \cap s.watch :
        /\ got' = got \ {ev}
        /\ s' \in Handle(Use(s), ev)
    /\ UNCHANGED <<pc, calls, asks>>

\* The order in which a handler looks at its events.
Order(kind, evs) ==
    IF evs # Events THEN <<CHOOSE ev \in evs : TRUE>>
    ELSE IF kind = "glib" THEN <<"write", "read">> ELSE <<"read", "write">>

\* The events the callback is called with: glib decides which sources are ready
\* before it dispatches the first of them.
Delivered == IF s.kind = "glib" THEN got ELSE got \cap s.watch

Enter ==
    /\ pc = "loop" /\ Delivered # {} /\ s.kind \in Combined
    /\ pc' = "callback"
    /\ calls' = Order(s.kind, Delivered)
    /\ got' = {}
    /\ s' = [Use(s) EXCEPT !.state = IF s.kind \in {"libevent", "libsdevent", "poll"}
                                     THEN @ \cup {"ENTERED"} ELSE @]
    /\ UNCHANGED asks

\* Whether the handler goes on to its next event.
valkeyLibeventHandler(x) == "DELETED" \notin x.state
valkeyLibsdeventHandler(x) == "DELETED" \notin x.state
valkeyLibuvPoll(x) == x.context
valkeyLibhvHandleEvents(x) == TRUE          \* the context was fetched at the beginning
valkey_source_dispatch(x) == TRUE           \* valkey->ac is not reset
valkeyPollTick(x) == "DELETED" \notin x.state

GoesOn(x) ==
    CASE x.kind = "libevent" -> valkeyLibeventHandler(x)
      [] x.kind = "libsdevent" -> valkeyLibsdeventHandler(x)
      [] x.kind = "libuv" -> valkeyLibuvPoll(x)
      [] x.kind = "libhv" -> valkeyLibhvHandleEvents(x)
      [] x.kind = "glib" -> valkey_source_dispatch(x)
      [] x.kind = "poll" -> valkeyPollTick(x)

CallHandler ==
    /\ pc = "callback" /\ calls # <<>>
    /\ calls' = Tail(calls)
    /\ IF GoesOn(s) THEN s' \in Handle(s, Head(calls)) ELSE s' = s
    /\ UNCHANGED <<pc, got, asks>>

\* Faulty variant: a postponed deletion is forgotten.
Left_ForgetsDeletion(x) == [x EXCEPT !.state = @ \ {"ENTERED"}]

\* Leaving the handler: a postponed deletion is done, or ENTERED is reset.
Left(x) ==
    IF "DELETED" \in x.state
    THEN IF x.kind = "libsdevent" THEN valkeyLibsdeventDestroy(x) ELSE Release(Quiet(x))
    ELSE [x EXCEPT !.state = @ \ {"ENTERED"}]

\* A tick of the poll adapter looks at its deadline before it ends.
Leave ==
    /\ pc = "callback" /\ calls = <<>>
    /\ pc' = "loop"
    /\ \/ s' = Left(s)
       \/ /\ s.kind = "poll" /\ "DELETED" \notin s.state /\ s.timer = "armed"
          /\ \E y \in Handle([s EXCEPT !.timer = "none"], "timer") : s' = Left(y)
    /\ UNCHANGED <<got, calls, asks>>

\* What is left of a timer that fired.
Fired(x) ==
    [x EXCEPT !.timer = CASE x.kind = "libev" -> "repeating"
                          [] x.kind = "libsdevent" -> "off"
                          [] x.kind = "libhv" -> "ending"
                          [] OTHER -> "none"]

\* libhv releases a timer that fired for the last time after its callback.
Expired(x) == IF x.timer = "ending" THEN [x EXCEPT !.timer = "stale"] ELSE x

TimerFires ==
    /\ Outside /\ s.kind # "poll"
    /\ s.timer \in {"armed", "repeating"}
    /\ \E y \in Handle(Fired(Use(s)), "timer") : s' = Expired(y)
    /\ UNCHANGED <<pc, got, calls, asks>>

\* The application destroys the qt adapter of a context that is gone; its
\* destructor writes to the context, since m_ctx is never reset.
DestroyQtAdapter ==
    /\ Outside /\ s.kind = "qt" /\ s.ctx = "freed" /\ ~ s.failed /\ s.data = "alloc"
    /\ s' = [s EXCEPT !.data = "freed", !.bad = @ \cup {"context"}]
    /\ UNCHANGED <<pc, got, calls, asks>>

\* libuv calls the close callbacks.
CloseHandle ==
    /\ Outside
    /\ \E h \in s.closing : s' = on_close(s, h)
    /\ UNCHANGED <<pc, got, calls, asks>>

Loop == Drop \/ Single \/ Enter \/ CallHandler \/ Leave \/ CloseHandle
Next == Command \/ SetTimeout \/ Free \/ DestroyQtAdapter \/ Collect \/ TimerFires \/ Loop

Spec == Init /\ [][Next]_vars

\* The loop delivers what it has found and runs close callbacks.
LiveSpec == Spec /\ WF_vars(Loop)
-----------------------------------------------------------------------------
(* Properties *)

\* Types; only libuv closes handles.
TypeOK ==
    /\ s.kind \in Kinds
    /\ s.ctx \in {"open", "freed"} /\ s.data \in {"none", "alloc", "freed"}
    /\ s.flags \subseteq Events /\ s.watch \subseteq Events /\ s.want \subseteq Events
    /\ s.timer \in {"none", "armed", "repeating", "off", "ending", "stale"}
    /\ s.kind \in Timerless => ~ s.waiting
    /\ pc \in {"loop", "callback"} /\ (pc = "loop" => calls = <<>>)
    /\ s.closing \subseteq s.handles \/ s.bad # {}

\* glib and libhv call the second handler of a callback whatever the first one
\* did; a failed attachment of libuv or macosx leaves hooks without a container;
\* the destructor of qt's adapter writes to a context that is gone.
Exposed ==
    \/ s.kind \in {"glib", "libhv"}
    \/ s.failed /\ s.kind \in {"libuv", "macosx"}
    \/ s.kind = "qt" /\ s.data = "freed"

\* However a context closes, inside or outside of a handler, in the first or
\* the second event of a callback, by a timer or with close callbacks under
\* way, neither it nor the container is used afterwards or freed twice (the
\* ENTERED and DELETED flags, p->context = NULL, in_tick).
NoLateUse == ~ Exposed => s.bad = {}

\* Between callbacks the library watches exactly the events the context last
\* asked for, in spite of the copies in the container (the add and del hooks);
\* ivykis and macosx begin with more.
Watched ==
    pc = "loop" /\ s.ctx = "open" /\ ~ s.failed =>
        /\ s.want \subseteq s.watch
        /\ s.kind \notin {"ivykis", "macosx"} => s.watch = s.want

\* The adapters whose timer does not come back once it has fired (libsdevent does
\* not enable it again, libhv resets one that was released) or is not started at
\* all (libhv, by a timeout under a millisecond).
Untimed == {"libsdevent", "libhv"}

\* While a context waits for its command timeout the library runs a timer, started
\* again after it has fired (the scheduleTimer hooks, but for the Untimed ones).
TimerRuns ==
    pc = "loop" /\ s.ctx = "open" /\ s.waiting /\ s.kind \notin Untimed
        => s.timer \in {"armed", "repeating"}

\* The timer that valkeyLibhvSetTimeout resets and valkeyLibhvCleanup deletes is
\* one the library has not released yet.
\* The code does not keep it (README.md, section 4).
TimerExists == ~ s.late

\* The library watches what the context believes it does, and times it but for
\* libsdevent and libhv (the add, del and scheduleTimer hooks).
LoopAgrees == TypeOK /\ Watched /\ TimerRuns

\* Nothing is left of the adapter: no handler runs and nothing is watched or being
\* closed; the container is freed, unless the application owns it (qt).
Gone ==
    /\ pc = "loop" /\ s.closing = {} /\ s.watch = {}
    /\ ~ s.failed => /\ s.data = "freed" \/ s.kind = "qt"
                     /\ s.timer \in {"none", "off"}

\* A context that was freed gets its adapter out of the loop with all it held,
\* for good, although deletion may have been postponed (the cleanup hooks).
ReleasedInTheEnd == s.ctx = "freed" /\ ~ Exposed ~> []Gone
=============================================================================
