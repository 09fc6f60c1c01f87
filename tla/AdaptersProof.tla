--------------------------- MODULE AdaptersProof ---------------------------
(***************************************************************************)
(* Proofs about module Adapters, for every set of adapters and any number   *)
(* of commands: no adapter but glib, libhv and a destroyed qt adapter       *)
(* touches the context or the container after they are gone, the library    *)
(* watches and, but for libsdevent and libhv, times what the context asked  *)
(* for, and what was given back stays given back.                           *)
(***************************************************************************)
EXTENDS Adapters, TLAPS

(* The container and the context's side of it. *)
Record ==
    [kind : Kinds, ctx : {"open", "freed"}, hooks : BOOLEAN,
     data : {"none", "alloc", "freed"}, context : BOOLEAN, want : SUBSET Events,
     flags : SUBSET Events, watch : SUBSET Events, source : BOOLEAN,
     handles : SUBSET {"poll", "timer"}, closing : SUBSET {"poll", "timer"},
     timer : {"none", "armed", "repeating", "off", "ending", "stale"}, waiting : BOOLEAN,
     brief : BOOLEAN, late : BOOLEAN,
     state : SUBSET {"ENTERED", "DELETED"}, bad : SUBSET {"container", "context"},
     failed : BOOLEAN]

\* The adapters that postpone a deletion to the end of their handler.
Postponing == {"libevent", "libsdevent", "poll"}

\* Only libhv releases its timer after the callback.
Expiring(kind, timer) == timer \in {"ending", "stale"} => kind = "libhv"

\* The container of an open context is whole; in is TRUE inside a handler.
Whole(x, in) ==
    /\ x \in Record
    /\ x.ctx = "open" /\ x.failed = FALSE /\ x.hooks = TRUE
    /\ x.data = "alloc" /\ x.context = TRUE /\ x.closing = {} /\ x.bad = {}
    /\ "poll" \in x.handles
    /\ x.flags = x.watch
    /\ x.state = IF in = TRUE /\ x.kind \in Postponing THEN {"ENTERED"} ELSE {}
    /\ x.kind = "libsdevent" => x.source = (x.flags # {})
    /\ x.kind \in Timerless => x.waiting = FALSE /\ x.timer = "none"
    /\ Expiring(x.kind, x.timer)

\* The library watches what the context wants.
Agreed(x) ==
    /\ x.want \subseteq x.watch
    /\ x.kind \notin {"ivykis", "macosx"} => x.watch = x.want

\* The timer the context waits for runs, but for libsdevent and libhv.
Timed(x) ==
    x.waiting = TRUE /\ x.kind \notin Untimed => x.timer \in {"armed", "repeating"}

Open(x, in) == Whole(x, in) /\ Agreed(x) /\ Timed(x)

\* Nothing is left to be cleaned up.  Inside of a handler a postponed deletion
\* keeps the container; libuv keeps it until its handles are closed.
Shut(x, in) ==
    /\ x \in Record
    /\ x.failed = FALSE
    /\ x.kind \notin {"glib", "libhv"} /\ (x.kind = "qt" => x.data # "freed") => x.bad = {}
    /\ x.kind # "libuv" => x.closing = {}
    /\ x.kind = "libuv" => /\ x.context = FALSE /\ x.closing = x.handles
                           /\ x.data = IF x.handles = {} THEN "freed" ELSE "alloc"
    /\ x.kind \in Postponing /\ in = TRUE => x.data = "alloc" /\ "DELETED" \in x.state
    /\ x.kind \in Postponing /\ in = FALSE => x.data = "freed"
    /\ x.kind \notin Postponing => "DELETED" \notin x.state
    /\ x.kind \notin Postponing \cup {"libuv", "qt", "glib"} => x.data = "freed"
    /\ x.kind = "glib" => x.data = "alloc"
    /\ x.kind \in Timerless => x.waiting = FALSE
    /\ ~ (x.kind \in {"libsdevent", "poll"} /\ in = TRUE) => x.watch = {} /\ x.timer = "none"

\* The context is gone.
Closed(x, in) == Shut(x, in) /\ x.ctx = "freed"

\* What an attachment that failed leaves behind.
Unattached(x) ==
    /\ x \in Record
    /\ x.failed = TRUE
    /\ x.watch = {} /\ x.timer = "none" /\ x.waiting = FALSE
    /\ x.state = {}
    /\ x.kind \notin {"libuv", "macosx"} => x.hooks = FALSE /\ x.bad = {}
    /\ x.kind # "libuv" => x.closing = {}
    /\ x.kind = "libuv" /\ x.ctx = "open" => x.data = "none" /\ x.closing = {}
    /\ x.closing \subseteq x.handles \/ x.bad # {}

Sound(x, in) == Unattached(x) \/ Open(x, in) \/ Closed(x, in)

Inside == pc = "callback"

\* The inductive invariant.
IInv ==
    /\ Sound(s, Inside)
    /\ pc \in {"loop", "callback"}
    /\ pc = "loop" => calls = <<>>
    /\ pc = "callback" => s.kind \in Combined /\ s.failed = FALSE
    /\ calls \in Seq(Events)
    /\ got \in SUBSET Events
    /\ s.failed = TRUE => got = {}
-----------------------------------------------------------------------------
(* What the hooks do to a whole container. *)

\* y is x but for the events watched, the timer and what the context wants.
Kept(x, y) ==
    /\ y \in Record
    /\ y.kind = x.kind /\ y.ctx = x.ctx /\ y.hooks = x.hooks /\ y.data = x.data
    /\ y.context = x.context /\ y.closing = x.closing /\ y.state = x.state
    /\ y.bad = x.bad /\ y.failed = x.failed /\ x.handles \subseteq y.handles

\* Exactly the events of evs are watched in y, the rest is as in x.
Watching(x, y, evs) ==
    /\ Kept(x, y)
    /\ y.want = x.want /\ y.timer = x.timer /\ y.waiting = x.waiting
    /\ y.flags = evs /\ y.watch = evs
    /\ x.kind = "libsdevent" => y.source = (evs # {})
    /\ y.handles = x.handles

\* The mask and the events the library watches are set together.
LEMMA Masked ==
    ASSUME NEW x \in Record, NEW evs \in SUBSET Events, x.kind # "libsdevent"
    PROVE  Watching(x, [x EXCEPT !.flags = evs, !.watch = evs], evs)
  BY DEF Record, Watching, Kept

\* The same for libsdevent, which creates and deletes its source.
LEMMA MaskedSource ==
    ASSUME NEW x \in Record, NEW evs \in SUBSET Events, NEW b \in BOOLEAN, b = (evs # {})
    PROVE  Watching(x, [x EXCEPT !.flags = evs, !.watch = evs, !.source = b], evs)
  BY DEF Record, Watching, Kept

\* Nothing changes when the mask is right.
LEMMA MaskedAlready ==
    ASSUME NEW x \in Record, x.flags = x.watch,
           x.kind = "libsdevent" => x.source = (x.flags # {})
    PROVE  Watching(x, x, x.flags)
  BY DEF Record, Watching, Kept

\* A container that can be given to the add and del hooks.
Usable(x) ==
    /\ x \in Record
    /\ x.data = "alloc" /\ x.flags = x.watch
    /\ x.kind = "libsdevent" => x.source = (x.flags # {})

\* addEvent makes the library watch ev too (the add hooks).
LEMMA AddEvent ==
    ASSUME NEW x, Usable(x), NEW ev \in Events
    PROVE  Watching(x, addEvent(x, ev), x.flags \cup {ev})
  <1> DEFINE evs == x.flags \cup {ev}
  <1>1. /\ x \in Record /\ x.kind \in Kinds /\ x.flags \in SUBSET Events /\ x.data = "alloc"
        /\ x.flags = x.watch
    BY DEF Usable, Record
  <1>2. evs \in SUBSET Events
    BY <1>1
  <1>3. x.kind \in AllKinds
    BY <1>1, KindsAssumption
  <1>4. Use(x) = x
    BY <1>1 DEF Use
  <1>5. ev \in x.flags => Watching(x, x, evs)
    <2> SUFFICES ASSUME ev \in x.flags PROVE Watching(x, x, evs)
      OBVIOUS
    <2>1. evs = x.flags
      OBVIOUS
    <2> QED BY <2>1, MaskedAlready DEF Usable
  <1>6. CASE x.kind = "libsdevent"
    <2>1. addEvent(x, ev) = valkeyLibsdeventAddEvent(x, ev)
      BY <1>6 DEF addEvent
    <2>2. CASE ev \in x.flags
      BY <2>1, <2>2, <1>5 DEF valkeyLibsdeventAddEvent
    <2>3. CASE ev \notin x.flags
      <3>1. x.source = (x.flags # {}) /\ x.source \in BOOLEAN
        BY <1>6 DEF Usable, Record
      <3>2. PICK y : y = [x EXCEPT !.flags = evs, !.watch = evs]
        OBVIOUS
      <3>3. Mask(x, evs) = y
        BY <1>4, <3>2 DEF Mask
      <3>4. addEvent(x, ev) = [y EXCEPT !.watch = y.watch, !.source = TRUE]
        <4>1. addEvent(x, ev) = [y EXCEPT
                !.watch = IF x.flags # {} /\ ~ x.source THEN {} ELSE @,
                !.source = @ \/ x.flags = {}]
          BY <2>1, <2>3, <3>3 DEF valkeyLibsdeventAddEvent
        <4>2. y.source = x.source
          BY <3>2, <1>1 DEF Record
        <4>3. (y.source \/ x.flags = {}) = TRUE
          BY <4>2, <3>1
        <4>4. (IF x.flags # {} /\ ~ x.source THEN {} ELSE y.watch) = y.watch
          BY <3>1
        <4> QED BY <4>1, <4>3, <4>4, Zenon
      <3>5. addEvent(x, ev) = [x EXCEPT !.flags = evs, !.watch = evs, !.source = TRUE]
        BY <3>2, <3>4, <1>1 DEF Record
      <3>6. evs # {}
        OBVIOUS
      <3> QED BY <3>5, <3>6, <1>1, <1>2, MaskedSource, ZenonT(40)
    <2> QED BY <2>2, <2>3
  <1>7. CASE x.kind # "libsdevent"
    <2>1. Watching(x, Mask(x, evs), evs)
      BY <1>1, <1>2, <1>4, <1>7, Masked DEF Mask
    <2>2. Watching(x, Start(x, ev), evs)
      <3>1. Start(x, ev) = [x EXCEPT !.flags = evs, !.watch = evs]
        BY <1>1, <1>4 DEF Start
      <3> QED BY <3>1, <1>1, <1>2, <1>7, Masked
    <2> HIDE DEF evs
    <2>3. \/ ev \in x.flags /\ addEvent(x, ev) = x
          \/ ev \in x.flags /\ addEvent(x, ev) = Use(x)
          \/ addEvent(x, ev) = Mask(x, evs)
          \/ addEvent(x, ev) = Start(x, ev)
      BY <1>3, <1>7 DEF addEvent, AllKinds, valkeyLibeventUpdate, valkeyLibuvAddEvent,
         valkeyLibevAddEvent, valkeyAeAddEvent, valkeyModuleAddEvent, ValkeyQtAddEvent,
         valkeyPollAddEvent, valkeyIvykisSetEvent, valkeyLibhvSetEvent, valkeyMacOSSetEvent,
         valkey_source_set, evs
    <2> QED BY <2>1, <2>2, <2>3, <1>4, <1>5 DEF evs
  <1> QED BY <1>6, <1>7

\* delEvent makes the library watch ev no more (the del hooks).
LEMMA DelEvent ==
    ASSUME NEW x, Usable(x), NEW ev \in Events
    PROVE  Watching(x, delEvent(x, ev), x.flags \ {ev})
  <1> DEFINE evs == x.flags \ {ev}
  <1>1. /\ x \in Record /\ x.kind \in Kinds /\ x.flags \in SUBSET Events /\ x.data = "alloc"
        /\ x.flags = x.watch
    BY DEF Usable, Record
  <1>2. evs \in SUBSET Events
    BY <1>1
  <1>3. x.kind \in AllKinds
    BY <1>1, KindsAssumption
  <1>4. Use(x) = x
    BY <1>1 DEF Use
  <1>5. ev \notin x.flags => Watching(x, x, evs)
    <2> SUFFICES ASSUME ev \notin x.flags PROVE Watching(x, x, evs)
      OBVIOUS
    <2>1. evs = x.flags
      OBVIOUS
    <2> QED BY <2>1, MaskedAlready DEF Usable
  <1>6. CASE x.kind = "libsdevent"
    <2>1. delEvent(x, ev) = [Mask(x, evs) EXCEPT !.source = @ /\ evs # {}]
      BY <1>6 DEF delEvent, valkeyLibsdeventDelEvent
    <2>2. PICK b \in BOOLEAN : b = (evs # {})
      OBVIOUS
    <2>3. x.source = (x.flags # {}) /\ x.source \in BOOLEAN
      BY <1>6 DEF Usable, Record
    <2>4. PICK y : y = [x EXCEPT !.flags = evs, !.watch = evs]
      OBVIOUS
    <2>5. Mask(x, evs) = y
      BY <1>4, <2>4 DEF Mask
    <2>6. y.source = x.source
      BY <2>4, <1>1 DEF Record
    <2>7. (y.source /\ evs # {}) = b
      BY <2>2, <2>3, <2>6
    <2>8. delEvent(x, ev) = [y EXCEPT !.source = b]
      BY <2>1, <2>5, <2>7, Zenon
    <2>9. delEvent(x, ev) = [x EXCEPT !.flags = evs, !.watch = evs, !.source = b]
      BY <2>4, <2>8, <1>1 DEF Record
    <2> HIDE DEF evs
    <2>10. Watching(x, [x EXCEPT !.flags = evs, !.watch = evs, !.source = b], evs)
      BY <2>2, <1>1, <1>2, MaskedSource
    <2> QED BY <2>9, <2>10 DEF evs
  <1>7. CASE x.kind # "libsdevent"
    <2>1. Watching(x, Mask(x, evs), evs)
      BY <1>1, <1>2, <1>4, <1>7, Masked DEF Mask
    <2>2. Watching(x, Stop(x, ev), evs)
      <3>1. Stop(x, ev) = [x EXCEPT !.flags = evs, !.watch = evs]
        BY <1>1, <1>4 DEF Stop
      <3> QED BY <3>1, <1>1, <1>2, <1>7, Masked
    <2> HIDE DEF evs
    <2>3. \/ ev \notin x.flags /\ delEvent(x, ev) = x
          \/ ev \notin x.flags /\ delEvent(x, ev) = Use(x)
          \/ delEvent(x, ev) = Mask(x, evs)
          \/ delEvent(x, ev) = Stop(x, ev)
      BY <1>3, <1>7 DEF delEvent, AllKinds, valkeyLibeventUpdate, valkeyLibuvDelEvent,
         valkeyLibevDelEvent, valkeyAeDelEvent, valkeyModuleDelEvent, ValkeyQtDelEvent,
         valkeyPollDelEvent, valkeyIvykisSetEvent, valkeyLibhvSetEvent, valkeyMacOSSetEvent,
         valkey_source_set, evs
    <2> QED BY <2>1, <2>2, <2>3, <1>4, <1>5 DEF evs
  <1> QED BY <1>6, <1>7

\* The timer of y runs, but for libsdevent and libhv; the rest is as in x.
Timing(x, y) ==
    /\ Kept(x, y)
    /\ y.want = x.want /\ y.flags = x.flags /\ y.watch = x.watch /\ y.source = x.source
    /\ y.waiting = x.waiting
    /\ x.kind \notin Untimed => y.timer \in {"armed", "repeating"}
    /\ Expiring(x.kind, x.timer) => Expiring(x.kind, y.timer)

\* y is x but for what was recorded of a timer that does not exist any more.
Touched(x, y) ==
    /\ y \in Record
    /\ y.kind = x.kind /\ y.ctx = x.ctx /\ y.hooks = x.hooks /\ y.data = x.data
    /\ y.context = x.context /\ y.want = x.want /\ y.flags = x.flags /\ y.watch = x.watch
    /\ y.source = x.source /\ y.handles = x.handles /\ y.closing = x.closing
    /\ y.timer = x.timer /\ y.waiting = x.waiting /\ y.bad = x.bad /\ y.failed = x.failed
    /\ y.state = x.state

\* Using a timer of libhv that was released is recorded, and no more.
LEMMA TouchKeeps ==
    ASSUME NEW x \in Record
    PROVE  Touched(x, Touch(x))
  <1>1. PICK b : b = (x.late \/ x.timer = "stale")
    OBVIOUS
  <1>2. b \in BOOLEAN
    BY <1>1
  <1>3. Touch(x) = [x EXCEPT !.late = b]
    BY <1>1 DEF Touch
  <1>4. PICK y : y = [x EXCEPT !.late = b]
    OBVIOUS
  <1>5. Touched(x, y)
    BY <1>2, <1>4 DEF Touched, Record
  <1> QED BY <1>3, <1>4, <1>5

\* scheduleTimer starts the timer (the scheduleTimer hooks).
LEMMA ScheduleTimer ==
    ASSUME NEW x, Usable(x), x.kind \notin Timerless
    PROVE  Timing(x, scheduleTimer(x))
  <1>1. x \in Record /\ x.kind \in Kinds /\ x.data = "alloc"
                     /\ x.handles \in SUBSET {"poll", "timer"}
    BY DEF Usable, Record
  <1>2. x.kind \in {"libevent", "libsdevent", "libuv", "libev", "valkeymoduleapi", "poll",
                    "libhv"}
    BY <1>1, KindsAssumption DEF AllKinds, Timerless
  <1>3. Use(x) = x
    BY <1>1 DEF Use
  <1>4. Timing(x, [x EXCEPT !.timer = "armed"])
    BY <1>1 DEF Record, Timing, Kept, Expiring
  <1>5. Arm(x) = [x EXCEPT !.timer = "armed"]
    BY <1>3 DEF Arm
  <1>6. CASE x.kind \in {"libevent", "poll"}
    BY <1>4, <1>5, <1>6 DEF scheduleTimer, valkeyLibeventSetTimeout, valkeyPollScheduleTimer
  <1>7. CASE x.kind = "libsdevent"
    <2>1. scheduleTimer(x) = x \/ scheduleTimer(x) = [x EXCEPT !.timer = "armed"]
      BY <1>3, <1>5, <1>7 DEF scheduleTimer, valkeyLibsdeventSetTimeout
    <2>2. Timing(x, x)
      BY <1>1, <1>7 DEF Timing, Kept, Untimed
    <2> QED BY <2>1, <2>2, <1>4
  <1>11. CASE x.kind = "libhv"
    <2>1. PICK y : y = Touch(x)
      OBVIOUS
    <2>2. Touched(x, y)
      BY <2>1, <1>1, TouchKeeps
    <2>3. PICK z : z = [y EXCEPT !.timer = "none"]
      OBVIOUS
    <2>4. Timing(x, z)
      <3>1. /\ z \in Record
            /\ z.kind = y.kind /\ z.ctx = y.ctx /\ z.hooks = y.hooks /\ z.data = y.data
            /\ z.context = y.context /\ z.closing = y.closing /\ z.state = y.state
            /\ z.bad = y.bad /\ z.failed = y.failed /\ z.want = y.want
            /\ z.flags = y.flags /\ z.watch = y.watch /\ z.source = y.source
            /\ z.waiting = y.waiting /\ z.handles = y.handles
        BY <2>2, <2>3 DEF Touched, Record
      <3> QED BY <2>2, <3>1, <1>11 DEF Touched, Timing, Kept, Untimed, Expiring
    <2>5. Timing(x, y)
      BY <2>2, <1>11 DEF Touched, Timing, Kept, Untimed
    <2>6. scheduleTimer(x) \in {y, z, [x EXCEPT !.timer = "armed"]}
      BY <2>1, <2>3, <1>3, <1>5, <1>11 DEF scheduleTimer, valkeyLibhvSetTimeout
    <2> QED BY <2>4, <2>5, <2>6, <1>4
  <1>8. CASE x.kind = "libuv"
    <2>1. scheduleTimer(x) = [[x EXCEPT !.timer = "armed"] EXCEPT !.handles = @ \cup {"timer"}]
      BY <1>5, <1>8 DEF scheduleTimer, valkeyLibuvSetTimeout
    <2>2. PICK y : y = [x EXCEPT !.timer = "armed"]
      OBVIOUS
    <2>3. Timing(x, y) /\ y \in Record /\ y.handles = x.handles
      BY <2>2, <1>1, <1>4 DEF Timing, Kept, Record
    <2>4. PICK hs : hs = x.handles \cup {"timer"}
      OBVIOUS
    <2>5. hs \in SUBSET {"poll", "timer"} /\ x.handles \subseteq hs
      BY <2>4, <1>1
    <2>6. scheduleTimer(x) = [y EXCEPT !.handles = hs]
      BY <2>1, <2>2, <2>3, <2>4, Zenon
    <2>7. PICK z : z = [y EXCEPT !.handles = hs]
      OBVIOUS
    <2>8. /\ z \in Record
          /\ z.kind = y.kind /\ z.ctx = y.ctx /\ z.hooks = y.hooks /\ z.data = y.data
          /\ z.context = y.context /\ z.closing = y.closing /\ z.state = y.state
          /\ z.bad = y.bad /\ z.failed = y.failed /\ z.want = y.want
          /\ z.flags = y.flags /\ z.watch = y.watch /\ z.source = y.source
          /\ z.waiting = y.waiting /\ z.timer = y.timer /\ z.handles = hs
      BY <2>3, <2>5, <2>7 DEF Record
    <2>9. Timing(x, z)
      BY <2>3, <2>5, <2>8 DEF Timing, Kept
    <2> QED BY <2>6, <2>7, <2>9
  <1>9. CASE x.kind = "libev"
    <2>1. scheduleTimer(x) = [[x EXCEPT !.timer = "armed"] EXCEPT !.timer = "repeating"]
      BY <1>5, <1>9 DEF scheduleTimer, valkeyLibevSetTimeout
    <2>2. scheduleTimer(x) = [x EXCEPT !.timer = "repeating"]
      BY <2>1, <1>1 DEF Record
    <2> QED BY <2>2, <1>1 DEF Record, Timing, Kept, Expiring
  <1>10. CASE x.kind = "valkeymoduleapi"
    <2>1. PICK y : y = [x EXCEPT !.timer = "none"]
      OBVIOUS
    <2>0. y.data = "alloc"
      BY <2>1, <1>1 DEF Record
    <2>2. valkeyModuleStopTimer(x) = y /\ Use(y) = y
      BY <2>0, <2>1, <1>3 DEF valkeyModuleStopTimer, Use
    <2>3. scheduleTimer(x) = [y EXCEPT !.timer = "armed"]
      BY <2>2, <1>10 DEF scheduleTimer, valkeyModuleSetTimeout, Arm
    <2>4. scheduleTimer(x) = [x EXCEPT !.timer = "armed"]
      BY <2>1, <2>3, <1>1 DEF Record
    <2> QED BY <2>4, <1>4
  <1> QED BY <1>2, <1>6, <1>7, <1>8, <1>9, <1>10, <1>11

\* One event after the other is given up.
LEMMA DelBoth ==
    ASSUME NEW x, Usable(x)
    PROVE  Watching(x, delEvent(delEvent(x, "read"), "write"), {})
  <1>1. PICK y : y = delEvent(x, "read")
    OBVIOUS
  <1>2. PICK evs : evs = x.flags \ {"read"}
    OBVIOUS
  <1>3. x.flags \subseteq Events /\ "read" \in Events /\ "write" \in Events
    BY DEF Usable, Record, Events
  <1>4. Watching(x, y, evs)
    BY <1>1, <1>2, <1>3, DelEvent
  <1>5. Usable(y)
    BY <1>4 DEF Watching, Kept, Usable
  <1>6. PICK z : z = delEvent(y, "write")
    OBVIOUS
  <1>7. y.flags \ {"write"} = {}
    BY <1>2, <1>3, <1>4 DEF Watching, Events
  <1>8. Watching(y, z, {})
    BY <1>3, <1>5, <1>6, <1>7, DelEvent
  <1>9. Watching(x, z, {})
    BY <1>4, <1>8 DEF Watching, Kept
  <1> QED BY <1>1, <1>6, <1>9

\* The library lets go of the container and it is freed.
Dropped(x, y) ==
    /\ y \in Record
    /\ y.kind = x.kind /\ y.ctx = x.ctx /\ y.hooks = x.hooks /\ y.data = "freed"
    /\ y.context = x.context /\ y.closing = x.closing /\ y.state = x.state
    /\ y.bad = x.bad /\ y.failed = x.failed /\ y.waiting = x.waiting /\ y.watch = {}
    /\ y.timer = "none"

\* Freeing a container that is there and no longer watched.
LEMMA ReleaseUnwatched ==
    ASSUME NEW x \in Record, x.data = "alloc", x.watch = {}, x.timer = "none"
    PROVE  Dropped(x, Release(x))
  <1>1. Release(x) = [x EXCEPT !.data = "freed"]
    BY DEF Release, Use
  <1> QED BY <1>1 DEF Dropped, Record

\* The same after the library is told.
LEMMA ReleaseQuiet ==
    ASSUME NEW x \in Record, x.data = "alloc"
    PROVE  Dropped(x, Release(Quiet(x)))
  <1>1. PICK y : y = Quiet(x)
    OBVIOUS
  <1>2. /\ y \in Record
        /\ y.kind = x.kind /\ y.ctx = x.ctx /\ y.hooks = x.hooks /\ y.data = x.data
        /\ y.context = x.context /\ y.closing = x.closing /\ y.state = x.state
        /\ y.bad = x.bad /\ y.failed = x.failed /\ y.waiting = x.waiting /\ y.watch = {}
        /\ y.timer = "none"
    BY <1>1 DEF Quiet, Record
  <1>3. Dropped(y, Release(y))
    BY <1>2, ReleaseUnwatched
  <1> QED BY <1>1, <1>2, <1>3 DEF Dropped

\* y is what a whole container x becomes.
ShutOf(x, y, in) == Shut(y, in) /\ y.kind = x.kind

\* A whole container of an adapter that frees it at once.
LEMMA DroppedShut ==
    ASSUME NEW x, NEW y, NEW in, Whole(x, in), Dropped(x, y),
           x.kind \notin {"libuv", "qt", "glib"},
           x.kind \in Postponing => in = FALSE
    PROVE  ShutOf(x, y, in)
  BY DEF Whole, Dropped, Shut, ShutOf, Postponing

\* The cleanup hooks (but for the context itself).
LEMMA Cleanup ==
    ASSUME NEW x, NEW in \in BOOLEAN, Whole(x, in)
    PROVE  ShutOf(x, cleanup(x), in)
  <1>1. /\ x \in Record /\ x.kind \in Kinds /\ x.data = "alloc" /\ Use(x) = x
        /\ x.state \subseteq {"ENTERED", "DELETED"} /\ x.handles \subseteq {"poll", "timer"}
    BY DEF Whole, Record, Use
  <1>2. x.kind \in AllKinds
    BY <1>1, KindsAssumption
  <1>3. Usable(x)
    BY DEF Whole, Usable
  <1>4. Dropped(x, Release(Quiet(x)))
    BY <1>1, ReleaseQuiet
  <1>10. CASE x.kind = "libhv"
    <2>1. PICK y : y = Touch(x)
      OBVIOUS
    <2>2. Touched(x, y)
      BY <2>1, <1>1, TouchKeeps
    <2>3. Dropped(y, Release(Quiet(y)))
      BY <2>2, <1>1, ReleaseQuiet DEF Touched
    <2>4. Dropped(x, Release(Quiet(y)))
      BY <2>2, <2>3 DEF Touched, Dropped
    <2>5. cleanup(x) = Release(Quiet(y))
      BY <2>1, <1>10 DEF cleanup, valkeyLibhvCleanup
    <2>6. x.kind \notin {"libuv", "qt", "glib"} /\ x.kind \notin Postponing
      BY <1>10 DEF Postponing
    <2> QED BY <2>4, <2>5, <2>6, DroppedShut
  <1>5. CASE x.kind \in {"ivykis", "macosx"}
    <2>1. cleanup(x) = Release(Quiet(x))
      BY <1>5 DEF cleanup, valkeyIvykisCleanup, valkeyMacOSCleanup
    <2>2. x.kind \notin {"libuv", "qt", "glib"} /\ x.kind \notin Postponing
      BY <1>5 DEF Postponing
    <2> QED BY <2>1, <2>2, <1>4, DroppedShut
  <1>6. CASE x.kind \in Postponing /\ in = FALSE
    <2>1. "ENTERED" \notin x.state
      BY <1>6 DEF Whole
    <2>2. CASE x.kind = "libsdevent"
      <3>1. PICK y : y = [x EXCEPT !.source = FALSE]
        OBVIOUS
      <3>2. /\ y \in Record
            /\ y.kind = x.kind /\ y.ctx = x.ctx /\ y.hooks = x.hooks /\ y.data = x.data
            /\ y.context = x.context /\ y.closing = x.closing /\ y.state = x.state
            /\ y.bad = x.bad /\ y.failed = x.failed /\ y.waiting = x.waiting
        BY <3>1, <1>1 DEF Record
      <3>3. cleanup(x) = Release(Quiet(y))
        BY <2>1, <2>2, <3>1 DEF cleanup, valkeyLibsdeventCleanup, valkeyLibsdeventDestroy
      <3>4. Dropped(y, Release(Quiet(y)))
        BY <3>2, <1>1, ReleaseQuiet
      <3>5. Dropped(x, Release(Quiet(y)))
        BY <3>2, <3>4 DEF Dropped
      <3> QED BY <2>2, <3>3, <3>5, <1>6, DroppedShut
    <2>3. CASE x.kind \in {"libevent", "poll"}
      <3>1. cleanup(x) = Release(Quiet(x))
        BY <2>1, <2>3 DEF cleanup, valkeyLibeventCleanup, valkeyPollCleanup
      <3> QED BY <2>3, <3>1, <1>4, <1>6, DroppedShut
    <2> QED BY <2>2, <2>3, <1>6 DEF Postponing
  <1>7. CASE x.kind \in Postponing /\ in = TRUE
    <2>1. x.state = {"ENTERED"}
      BY <1>7 DEF Whole
    <2>2. PICK y : y = IF x.kind = "libevent" THEN Quiet(x) ELSE x
      OBVIOUS
    <2>3. /\ y \in Record
          /\ y.kind = x.kind /\ y.data = x.data /\ y.closing = x.closing
          /\ y.state = x.state /\ y.bad = x.bad /\ y.failed = x.failed /\ y.waiting = x.waiting
          /\ x.kind = "libevent" => y.watch = {} /\ y.timer = "none"
      BY <2>2, <1>1 DEF Quiet, Record
    <2>4. PICK st : st = y.state \cup {"DELETED"}
      OBVIOUS
    <2>5. cleanup(x) = [y EXCEPT !.state = st]
      <3>1. CASE x.kind = "libevent"
        BY <3>1, <1>1, <2>1, <2>2, <2>4 DEF cleanup, valkeyLibeventCleanup
      <3>2. CASE x.kind = "libsdevent"
        BY <3>2, <1>1, <2>1, <2>2, <2>4 DEF cleanup, valkeyLibsdeventCleanup
      <3>3. CASE x.kind = "poll"
        BY <3>3, <1>1, <2>1, <2>2, <2>4 DEF cleanup, valkeyPollCleanup
      <3> QED BY <3>1, <3>2, <3>3, <1>7 DEF Postponing
    <2>6. PICK z : z = [y EXCEPT !.state = st]
      OBVIOUS
    <2>7. st \in SUBSET {"ENTERED", "DELETED"} /\ "DELETED" \in st
      BY <2>1, <2>3, <2>4
    <2>8. /\ z \in Record
          /\ z.kind = y.kind /\ z.data = y.data /\ z.closing = y.closing
          /\ z.state = st /\ z.bad = y.bad /\ z.failed = y.failed /\ z.waiting = y.waiting
          /\ z.watch = y.watch /\ z.timer = y.timer
      BY <2>3, <2>6, <2>7 DEF Record
    <2>9. ShutOf(x, z, in)
      BY <1>1, <1>7, <2>3, <2>7, <2>8 DEF Shut, ShutOf, Postponing, Whole
    <2> QED BY <2>5, <2>6, <2>9
  <1>8. CASE x.kind = "libuv"
    <2>1. PICK y : y = Quiet(x)
      OBVIOUS
    <2>2. /\ y \in Record
          /\ y.kind = x.kind /\ y.data = x.data /\ y.handles = x.handles
          /\ y.state = x.state /\ y.bad = x.bad /\ y.failed = x.failed /\ y.waiting = x.waiting
          /\ y.watch = {} /\ y.timer = "none"
      BY <2>1, <1>1 DEF Quiet, Record
    <2>3. PICK cl : cl = {"poll"} \cup (x.handles \cap {"timer"})
      OBVIOUS
    <2>4. cl = x.handles /\ cl # {}
      BY <2>3, <1>1 DEF Whole
    <2>5. cleanup(x) = [y EXCEPT !.context = FALSE, !.closing = cl]
      BY <2>1, <2>3, <1>1, <1>8 DEF cleanup, valkeyLibuvCleanup
    <2>6. PICK z : z = [y EXCEPT !.context = FALSE, !.closing = cl]
      OBVIOUS
    <2>7. /\ z \in Record
          /\ z.kind = y.kind /\ z.data = y.data /\ z.handles = y.handles
          /\ z.state = y.state /\ z.bad = y.bad /\ z.failed = y.failed /\ z.waiting = y.waiting
          /\ z.watch = y.watch /\ z.timer = y.timer /\ z.context = FALSE /\ z.closing = cl
      BY <2>2, <2>4, <2>6, <1>1 DEF Record
    <2>8. ShutOf(x, z, in)
      BY <1>8, <2>2, <2>4, <2>7 DEF Shut, ShutOf, Postponing, Whole
    <2> QED BY <2>5, <2>6, <2>8
  <1>9. CASE x.kind \in {"libev", "ae", "valkeymoduleapi", "qt", "glib"}
    <2>1. PICK y : y = delEvent(x, "read")
      OBVIOUS
    <2>2. PICK z : z = delEvent(y, "write")
      OBVIOUS
    <2>3. Watching(x, z, {})
      BY <2>1, <2>2, <1>3, DelBoth
    <2>4. y.kind = x.kind
      <3>1. "read" \in Events
        BY DEF Events
      <3>2. Watching(x, y, x.flags \ {"read"})
        BY <2>1, <3>1, <1>3, DelEvent
      <3> QED BY <3>2 DEF Watching, Kept
    <2>5. z \in Record /\ z.data = "alloc" /\ z.watch = {} /\ Whole(x, in)
      BY <2>3, <1>1 DEF Watching, Kept
    <2>6. x.kind \notin Postponing
      BY <1>9 DEF Postponing
    <2>7. ASSUME NEW w, Dropped(z, w), x.kind \notin {"qt", "glib"}
          PROVE  ShutOf(x, w, in)
      BY <2>3, <2>5, <2>6, <2>7, <1>9 DEF Dropped, Shut, ShutOf, Postponing, Whole, Watching,
         Kept
    <2>8. CASE x.kind = "libev"
      <3>1. cleanup(x) = Release(Quiet(z))
        BY <2>1, <2>2, <2>4, <2>8 DEF cleanup, valkeyLibevCleanup, delEvent
      <3> QED BY <3>1, <2>5, <2>7, <2>8, ReleaseQuiet
    <2>9. CASE x.kind = "ae"
      <3>1. cleanup(x) = Release(z)
        BY <2>1, <2>2, <2>4, <2>9 DEF cleanup, valkeyAeCleanup, delEvent
      <3>2. z.timer = "none"
        BY <2>3, <2>5, <2>9 DEF Whole, Watching, Timerless
      <3> QED BY <3>1, <3>2, <2>5, <2>7, <2>9, ReleaseUnwatched
    <2>10. CASE x.kind = "valkeymoduleapi"
      <3>1. PICK v : v = [z EXCEPT !.timer = "none"]
        OBVIOUS
      <3>2. cleanup(x) = Release(v)
        <4>1. valkeyModuleStopTimer(z) = v
          BY <2>5, <3>1 DEF valkeyModuleStopTimer, Use
        <4> QED BY <2>1, <2>2, <2>4, <2>10, <4>1 DEF cleanup, valkeyModuleCleanup, delEvent
      <3>3. /\ v \in Record
            /\ v.kind = z.kind /\ v.ctx = z.ctx /\ v.hooks = z.hooks /\ v.data = z.data
            /\ v.context = z.context /\ v.closing = z.closing /\ v.state = z.state
            /\ v.bad = z.bad /\ v.failed = z.failed /\ v.waiting = z.waiting /\ v.watch = z.watch
            /\ v.timer = "none"
        BY <3>1, <2>5 DEF Record
      <3>4. Dropped(v, Release(v))
        BY <3>3, <2>5, ReleaseUnwatched
      <3>5. Dropped(z, Release(v))
        BY <3>3, <3>4 DEF Dropped
      <3> QED BY <3>2, <3>5, <2>7, <2>10
    <2>11. CASE x.kind = "qt"
      <3>1. cleanup(x) = z
        BY <2>1, <2>2, <2>4, <2>11 DEF cleanup, ValkeyQtCleanup, delEvent
      <3>2. z.timer = "none"
        BY <2>3, <2>5, <2>11 DEF Whole, Watching, Timerless
      <3>3. ShutOf(x, z, in)
        BY <2>3, <2>5, <2>6, <3>2, <2>11 DEF Shut, ShutOf, Postponing, Whole, Watching, Kept
      <3> QED BY <3>1, <3>3
    <2>12. CASE x.kind = "glib"
      <3>1. cleanup(x) = Quiet(z)
        BY <2>1, <2>2, <2>4, <2>12 DEF cleanup, valkey_source_cleanup, delEvent
      <3>2. PICK v : v = Quiet(z)
        OBVIOUS
      <3>3. /\ v \in Record
            /\ v.kind = z.kind /\ v.data = z.data /\ v.closing = z.closing
            /\ v.state = z.state /\ v.failed = z.failed /\ v.waiting = z.waiting /\ v.watch = {}
            /\ v.timer = "none"
        BY <3>2, <2>5 DEF Record, Quiet
      <3>4. ShutOf(x, v, in)
        BY <2>3, <2>5, <2>6, <3>3, <2>12 DEF Shut, ShutOf, Postponing, Whole, Watching, Kept
      <3> QED BY <3>1, <3>2, <3>4
    <2> QED BY <2>8, <2>9, <2>10, <2>11, <2>12, <1>9
  <1> QED BY <1>2, <1>5, <1>6, <1>7, <1>8, <1>9, <1>10 DEF AllKinds, Postponing

\* The context lets go of the adapter and is freed.
LEMMA CloseWhole ==
    ASSUME NEW x, NEW in \in BOOLEAN, Whole(x, in)
    PROVE  Closed(Close(x), in) /\ Close(x).kind = x.kind
  <1>1. PICK y : y = cleanup(x)
    OBVIOUS
  <1>2. Shut(y, in) /\ y \in Record /\ y.kind = x.kind
    BY <1>1, Cleanup DEF Shut, ShutOf
  <1>3. PICK z : z = [y EXCEPT !.ctx = "freed"]
    OBVIOUS
  <1>4. Close(x) = z
    BY <1>1, <1>3 DEF Close, Whole
  <1>5. /\ z \in Record /\ z.ctx = "freed"
        /\ z.kind = y.kind /\ z.data = y.data /\ z.closing = y.closing /\ z.handles = y.handles
        /\ z.state = y.state /\ z.bad = y.bad /\ z.failed = y.failed /\ z.waiting = y.waiting
        /\ z.watch = y.watch
        /\ z.timer = y.timer /\ z.context = y.context
    BY <1>2, <1>3 DEF Record
  <1>6. Closed(z, in)
    BY <1>2, <1>5 DEF Shut, Closed
  <1> QED BY <1>2, <1>4, <1>5, <1>6

\* A timer that is started leaves the container whole.
LEMMA TimingWhole ==
    ASSUME NEW x, NEW y, NEW in, Whole(x, in), Timing(x, y), x.kind \notin Timerless
    PROVE  Whole(y, in) /\ y.want = x.want /\ y.watch = x.watch /\ Timed(y)
  BY DEF Whole, Timing, Kept, Timed

\* A context that begins to wait has its timer started (refreshTimeout).
LEMMA RefreshTimeout ==
    ASSUME NEW x, NEW in, Whole(x, in), Timed(x)
    PROVE  /\ Whole(refreshTimeout(x), in) /\ Timed(refreshTimeout(x))
           /\ refreshTimeout(x).want = x.want /\ refreshTimeout(x).watch = x.watch
           /\ refreshTimeout(x).kind = x.kind
  <1>1. CASE x.waiting = TRUE \/ x.kind \in Timerless
    BY <1>1 DEF refreshTimeout
  <1>2. CASE x.waiting = FALSE /\ x.kind \notin Timerless
    <2>1. PICK y : y = scheduleTimer(x)
      OBVIOUS
    <2>2. Usable(x)
      BY DEF Whole, Usable
    <2>3. Timing(x, y)
      BY <2>1, <2>2, <1>2, ScheduleTimer
    <2>4. Whole(y, in) /\ y.want = x.want /\ y.watch = x.watch /\ Timed(y) /\ y.kind = x.kind
      BY <2>3, <1>2, TimingWhole DEF Timing, Kept
    <2>5. PICK z : z = [y EXCEPT !.waiting = TRUE]
      OBVIOUS
    <2>6. refreshTimeout(x) = z
      BY <2>1, <2>5, <1>2 DEF refreshTimeout
    <2>7. y \in Record
      BY <2>4 DEF Whole
    <2>8. /\ z \in Record /\ z.ctx = y.ctx /\ z.hooks = y.hooks /\ z.want = y.want
          /\ z.kind = y.kind /\ z.data = y.data /\ z.closing = y.closing /\ z.handles = y.handles
          /\ z.state = y.state /\ z.bad = y.bad /\ z.failed = y.failed /\ z.watch = y.watch
          /\ z.flags = y.flags /\ z.source = y.source /\ z.timer = y.timer
          /\ z.context = y.context
      BY <2>5, <2>7 DEF Record
    <2>9. Whole(z, in)
      BY <2>4, <2>8, <1>2 DEF Whole
    <2>10. Timed(z)
      BY <2>3, <2>4, <2>8 DEF Timing, Timed
    <2> QED BY <2>4, <2>6, <2>8, <2>9, <2>10
  <1>3. x.waiting \in BOOLEAN
    BY DEF Whole, Record
  <1> QED BY <1>1, <1>2, <1>3

\* Changing what is wanted and what is watched together leaves them agreed.
LEMMA WatchingOpen ==
    ASSUME NEW x, NEW y, NEW z, NEW in, NEW want \in SUBSET Events, NEW evs,
           Whole(x, in), Timed(x), y = [x EXCEPT !.want = want], Watching(y, z, evs),
           want \subseteq evs, x.kind \notin {"ivykis", "macosx"} => evs = want
    PROVE  Open(z, in) /\ z.kind = x.kind
  <1>1. x \in Record
    BY DEF Whole
  <1>2. /\ y \in Record /\ y.ctx = x.ctx /\ y.hooks = x.hooks /\ y.want = want
        /\ y.kind = x.kind /\ y.data = x.data /\ y.closing = x.closing /\ y.handles = x.handles
        /\ y.state = x.state /\ y.bad = x.bad /\ y.failed = x.failed /\ y.waiting = x.waiting
        /\ y.timer = x.timer /\ y.context = x.context
    BY <1>1 DEF Record
  <1>3. Whole(z, in)
    BY <1>2 DEF Watching, Kept, Whole
  <1>4. Timed(z)
    BY <1>2 DEF Watching, Kept, Timed
  <1>5. Agreed(z)
    BY <1>2 DEF Watching, Kept, Agreed
  <1> QED BY <1>2, <1>3, <1>4, <1>5 DEF Open, Watching, Kept

\* What is wanted can be changed in a container the hooks can be given.
LEMMA WantedUsable ==
    ASSUME NEW x, NEW in, NEW want \in SUBSET Events, Whole(x, in)
    PROVE  LET y == [x EXCEPT !.want = want]
           IN  Usable(y) /\ y.flags = x.flags /\ y.want = want
  <1>1. x \in Record
    BY DEF Whole
  <1>2. PICK y : y = [x EXCEPT !.want = want]
    OBVIOUS
  <1>3. /\ y \in Record /\ y.kind = x.kind /\ y.data = x.data /\ y.flags = x.flags
        /\ y.watch = x.watch /\ y.source = x.source /\ y.want = want
    BY <1>1, <1>2 DEF Record
  <1>4. Usable(y)
    BY <1>3 DEF Whole, Usable
  <1> QED BY <1>2, <1>3, <1>4

\* The context asks for an event.
LEMMA WantOpen ==
    ASSUME NEW x, NEW in, NEW ev \in Events, Open(x, in)
    PROVE  Open(Want(x, ev), in) /\ Want(x, ev).kind = x.kind
  <1>1. PICK w : w = refreshTimeout(x)
    OBVIOUS
  <1>2. /\ Whole(w, in) /\ Timed(w) /\ w.want = x.want /\ w.watch = x.watch /\ Whole(x, in)
        /\ w.kind = x.kind
    BY <1>1, RefreshTimeout DEF Open
  <1>3. PICK want : want = w.want \cup {ev}
    OBVIOUS
  <1>4. /\ want \in SUBSET Events /\ w.flags = w.watch /\ x.hooks = TRUE
    BY <1>2, <1>3 DEF Whole, Record
  <1>5. PICK y : y = [w EXCEPT !.want = want]
    OBVIOUS
  <1>6. Usable(y) /\ y.flags = w.flags
    BY <1>2, <1>4, <1>5, WantedUsable
  <1>7. PICK z : z = addEvent(y, ev)
    OBVIOUS
  <1>8. PICK evs : evs = y.flags \cup {ev}
    OBVIOUS
  <1>9. Watching(y, z, evs)
    BY <1>6, <1>7, <1>8, AddEvent
  <1>10. Want(x, ev) = z
    BY <1>1, <1>3, <1>4, <1>5, <1>7 DEF Want
  <1>11. want \subseteq evs /\ (w.kind \notin {"ivykis", "macosx"} => evs = want)
    BY <1>2, <1>3, <1>4, <1>6, <1>8 DEF Open, Agreed
  <1>12. Open(z, in) /\ z.kind = w.kind
    BY <1>2, <1>4, <1>5, <1>9, <1>11, WatchingOpen
  <1> QED BY <1>2, <1>10, <1>12

\* The context asks for an event no more.
LEMMA UnwantOpen ==
    ASSUME NEW x, NEW in, NEW ev \in Events, Open(x, in)
    PROVE  Open(Unwant(x, ev), in) /\ Unwant(x, ev).kind = x.kind
  <1>1. Whole(x, in) /\ Timed(x) /\ x.flags = x.watch /\ x.hooks = TRUE
    BY DEF Open, Whole
  <1>2. PICK want : want = x.want \ {ev}
    OBVIOUS
  <1>3. want \in SUBSET Events
    BY <1>1, <1>2 DEF Whole, Record
  <1>4. PICK y : y = [x EXCEPT !.want = want]
    OBVIOUS
  <1>5. Usable(y) /\ y.flags = x.flags
    BY <1>1, <1>3, <1>4, WantedUsable
  <1>6. PICK z : z = delEvent(y, ev)
    OBVIOUS
  <1>7. PICK evs : evs = y.flags \ {ev}
    OBVIOUS
  <1>8. Watching(y, z, evs)
    BY <1>5, <1>6, <1>7, DelEvent
  <1>9. Unwant(x, ev) = z
    BY <1>1, <1>2, <1>4, <1>6 DEF Unwant
  <1>10. want \subseteq evs /\ (x.kind \notin {"ivykis", "macosx"} => evs = want)
    BY <1>1, <1>2, <1>5, <1>7 DEF Open, Agreed
  <1>11. Open(z, in) /\ z.kind = x.kind
    BY <1>1, <1>3, <1>4, <1>8, <1>10, WatchingOpen
  <1> QED BY <1>9, <1>11

\* A handler of the context leaves it open or closes it, the container along
\* with it (valkeyAsyncHandleRead, valkeyAsyncHandleWrite).
LEMMA HandleEvent ==
    ASSUME NEW x, NEW in \in BOOLEAN, NEW ev \in Events, Open(x, in), NEW y \in Handle(x, ev)
    PROVE  (Open(y, in) \/ Closed(y, in)) /\ y.kind = x.kind
  <1>1. x.ctx = "open" /\ "read" \in Events /\ "write" \in Events
    BY DEF Open, Whole, Events
  <1>2. Closed(Close(x), in) /\ Close(x).kind = x.kind
    BY CloseWhole DEF Open
  <1>3. PICK r : r = Want(x, "read")
    OBVIOUS
  <1>4. Open(r, in) /\ r.kind = x.kind
    BY <1>1, <1>3, WantOpen
  <1>5. Open(Want(r, "write"), in) /\ Want(r, "write").kind = x.kind
    BY <1>1, <1>4, WantOpen
  <1>6. Closed(Close(r), in) /\ Close(r).kind = x.kind
    BY <1>4, CloseWhole DEF Open
  <1>7. CASE ev = "read"
    <2>1. y \in {Close(x), r, Want(r, "write"), Close(r)}
      BY <1>1, <1>3, <1>7 DEF Handle, valkeyAsyncHandleRead
    <2> QED BY <2>1, <1>2, <1>4, <1>5, <1>6
  <1>8. CASE ev = "write"
    <2>1. PICK w : w = Want(x, "write")
      OBVIOUS
    <2>2. PICK u : u = Unwant(x, "write")
      OBVIOUS
    <2>3. Open(w, in) /\ Open(u, in) /\ w.kind = x.kind /\ u.kind = x.kind
      BY <2>1, <2>2, <1>1, WantOpen, UnwantOpen
    <2>4. /\ Open(Want(w, "read"), in) /\ Want(w, "read").kind = x.kind
          /\ Open(Want(u, "read"), in) /\ Want(u, "read").kind = x.kind
      BY <2>3, <1>1, WantOpen
    <2>5. y \in {Close(x), Want(w, "read"), Want(u, "read")}
      BY <2>1, <2>2, <1>1, <1>8 DEF Handle, valkeyAsyncHandleWrite
    <2> QED BY <2>4, <2>5, <1>2
  <1> QED BY <1>7, <1>8 DEF Events

\* So does the timer's handler, which starts the timer again if it is needed
\* (valkeyAsyncHandleTimeout).
LEMMA HandleTimer ==
    ASSUME NEW x, NEW in \in BOOLEAN, Whole(x, in), Agreed(x), x.kind \notin Timerless,
           NEW y \in Handle(x, "timer")
    PROVE  (Open(y, in) \/ Closed(y, in)) /\ y.kind = x.kind
  <1>1. x \in Record /\ x.ctx = "open" /\ Usable(x)
    BY DEF Whole, Usable
  <1>2. y \in {[x EXCEPT !.waiting = FALSE], scheduleTimer(x), Close(x)}
    BY <1>1 DEF Handle, valkeyAsyncHandleTimeout
  <1>3. CASE y = Close(x)
    BY <1>3, CloseWhole
  <1>4. CASE y = scheduleTimer(x)
    <2>1. Timing(x, y) /\ y.kind = x.kind
      BY <1>1, <1>4, ScheduleTimer DEF Timing, Kept
    <2>2. Whole(y, in) /\ y.want = x.want /\ y.watch = x.watch /\ Timed(y)
      BY <2>1, TimingWhole
    <2> QED BY <2>1, <2>2 DEF Open, Agreed
  <1>5. CASE y = [x EXCEPT !.waiting = FALSE]
    <2>1. /\ y \in Record /\ y.ctx = x.ctx /\ y.hooks = x.hooks /\ y.want = x.want
          /\ y.kind = x.kind /\ y.data = x.data /\ y.closing = x.closing /\ y.handles = x.handles
          /\ y.state = x.state /\ y.bad = x.bad /\ y.failed = x.failed /\ y.watch = x.watch
          /\ y.flags = x.flags /\ y.source = x.source /\ y.timer = x.timer
          /\ y.context = x.context /\ y.waiting = FALSE
      BY <1>1, <1>5 DEF Record
    <2>2. Whole(y, in)
      BY <2>1 DEF Whole
    <2> QED BY <2>1, <2>2 DEF Open, Agreed, Timed
  <1> QED BY <1>2, <1>3, <1>4, <1>5

-----------------------------------------------------------------------------
(* The steps of the loop, on the container they find. *)

\* Following the pointer to a container that is there changes nothing.
LEMMA UseAllocated ==
    ASSUME NEW x, x.data = "alloc"
    PROVE  Use(x) = x
  BY DEF Use

\* u is x, but for what was recorded of the pointer that was followed.
Followed(x, u) ==
    /\ u \in Record
    /\ u.hooks = x.hooks /\ u.waiting = x.waiting /\ u.ctx = x.ctx
    /\ u.kind = x.kind /\ u.closing = x.closing /\ u.handles = x.handles
    /\ u.state = x.state /\ u.failed = x.failed /\ u.watch = x.watch
    /\ u.timer = x.timer /\ u.data = x.data /\ x.bad \subseteq u.bad
    /\ x.data # "alloc" => u.bad # {}

\* Following the pointer to a container that may be gone.
LEMMA UseFollows ==
    ASSUME NEW x \in Record
    PROVE  Followed(x, Use(x))
  <1>1. CASE x.data = "alloc"
    BY <1>1, UseAllocated DEF Followed
  <1>2. CASE x.data # "alloc"
    <2>1. PICK bad : bad = x.bad \cup {"container"}
      OBVIOUS
    <2>2. PICK u : u = [x EXCEPT !.bad = bad]
      OBVIOUS
    <2>3. Use(x) = u
      BY <1>2, <2>1, <2>2 DEF Use
    <2>4. bad \in SUBSET {"container", "context"} /\ x.bad \subseteq bad /\ bad # {}
      BY <2>1 DEF Record
    <2>5. /\ u \in Record
          /\ u.hooks = x.hooks /\ u.waiting = x.waiting /\ u.ctx = x.ctx
          /\ u.kind = x.kind /\ u.closing = x.closing /\ u.handles = x.handles
          /\ u.state = x.state /\ u.failed = x.failed /\ u.watch = x.watch
          /\ u.timer = x.timer /\ u.data = x.data /\ u.bad = bad
      BY <2>2, <2>4 DEF Record
    <2> QED BY <2>3, <2>4, <2>5 DEF Followed
  <1> QED BY <1>1, <1>2

\* A context whose attachment failed is freed.
LEMMA CloseUnattached ==
    ASSUME NEW x, Unattached(x), x.ctx = "open"
    PROVE  Unattached(Close(x)) /\ Close(x).kind = x.kind
  <1>1. x \in Record /\ x.hooks \in BOOLEAN
    BY DEF Unattached, Record
  <1>2. PICK c : c = IF x.hooks THEN cleanup(x) ELSE x
    OBVIOUS
  <1>3. Close(x) = [c EXCEPT !.ctx = "freed"]
    BY <1>2 DEF Close
  <1>4. PICK z : z = [c EXCEPT !.ctx = "freed"]
    OBVIOUS
  <1>5. ASSUME c \in Record
        PROVE  /\ z \in Record /\ z.ctx = "freed" /\ z.hooks = c.hooks /\ z.waiting = c.waiting
               /\ z.kind = c.kind /\ z.data = c.data /\ z.closing = c.closing
               /\ z.handles = c.handles /\ z.state = c.state /\ z.bad = c.bad
               /\ z.failed = c.failed /\ z.watch = c.watch /\ z.timer = c.timer
    BY <1>4, <1>5 DEF Record
  <1>6. CASE x.hooks = FALSE
    BY <1>1, <1>2, <1>3, <1>4, <1>5, <1>6 DEF Unattached
  <1>7. CASE x.hooks = TRUE
    <2>1. x.kind \in {"libuv", "macosx"}
      BY <1>1, <1>7 DEF Unattached
    <2>2. PICK u : u = Use(x)
      OBVIOUS
    <2>3. /\ u \in Record /\ u.hooks = x.hooks /\ u.waiting = x.waiting
          /\ u.kind = x.kind /\ u.closing = x.closing /\ u.handles = x.handles
          /\ u.state = x.state /\ u.failed = x.failed /\ u.watch = x.watch
          /\ u.timer = x.timer /\ u.data = x.data
          /\ x.data # "alloc" => u.bad # {}
      BY <2>2, <1>1, UseFollows DEF Followed
    <2>4. CASE x.kind = "libuv"
      <3>1. PICK q : q = Quiet(u)
        OBVIOUS
      <3>2. /\ q \in Record /\ q.hooks = u.hooks /\ q.waiting = u.waiting
            /\ q.kind = u.kind /\ q.state = u.state /\ q.failed = u.failed /\ q.watch = {}
            /\ q.timer = "none" /\ q.bad = u.bad
        BY <2>3, <3>1 DEF Quiet, Record
      <3>3. PICK cl : cl = {"poll"} \cup (x.handles \cap {"timer"})
        OBVIOUS
      <3>4. cl \in SUBSET {"poll", "timer"}
        BY <3>3
      <3>5. c = [q EXCEPT !.context = FALSE, !.closing = cl]
        BY <1>2, <1>7, <2>2, <2>4, <3>1, <3>3 DEF cleanup, valkeyLibuvCleanup
      <3>6. /\ c \in Record /\ c.hooks = q.hooks /\ c.waiting = q.waiting
            /\ c.kind = q.kind /\ c.state = q.state /\ c.failed = q.failed
            /\ c.watch = q.watch /\ c.timer = q.timer /\ c.bad = q.bad
        BY <3>2, <3>4, <3>5 DEF Record
      <3>7. c.bad # {}
        BY <2>3, <2>4, <3>2, <3>6 DEF Unattached
      <3>8. Unattached(z)
        BY <1>5, <2>3, <2>4, <3>2, <3>6, <3>7 DEF Unattached
      <3> QED BY <1>3, <1>4, <1>5, <2>3, <3>2, <3>6, <3>8
    <2>5. CASE x.kind = "macosx"
      <3>1. PICK q : q = Quiet(x)
        OBVIOUS
      <3>2. /\ q \in Record /\ q.hooks = x.hooks /\ q.waiting = x.waiting /\ q.data = x.data
            /\ q.kind = x.kind /\ q.state = x.state /\ q.failed = x.failed /\ q.watch = {}
            /\ q.timer = "none" /\ q.bad = x.bad /\ q.closing = x.closing
        BY <1>1, <3>1 DEF Quiet, Record
      <3>3. PICK v : v = Use(q)
        OBVIOUS
      <3>4. /\ v \in Record /\ v.hooks = q.hooks /\ v.waiting = q.waiting
            /\ v.kind = q.kind /\ v.state = q.state /\ v.failed = q.failed
            /\ v.watch = q.watch /\ v.timer = q.timer /\ v.closing = q.closing
        BY <3>2, <3>3, UseFollows DEF Followed
      <3>5. c = [v EXCEPT !.data = "freed"]
        BY <1>2, <1>7, <2>5, <3>1, <3>3 DEF cleanup, valkeyMacOSCleanup, Release
      <3>6. /\ c \in Record /\ c.hooks = v.hooks /\ c.waiting = v.waiting
            /\ c.kind = v.kind /\ c.state = v.state /\ c.failed = v.failed
            /\ c.watch = v.watch /\ c.timer = v.timer /\ c.closing = v.closing
        BY <3>4, <3>5 DEF Record
      <3>7. Unattached(z)
        BY <1>5, <2>5, <3>2, <3>4, <3>6 DEF Unattached
      <3> QED BY <1>3, <1>4, <1>5, <3>2, <3>4, <3>6, <3>7
    <2> QED BY <2>1, <2>4, <2>5
  <1> QED BY <1>1, <1>6, <1>7

\* A handle is closed after a failed attachment.
LEMMA OnCloseUnattached ==
    ASSUME NEW x, Unattached(x), NEW h \in x.closing
    PROVE  Unattached(on_close(x, h)) /\ on_close(x, h).kind = x.kind
  <1>1. /\ x \in Record /\ x.kind = "libuv" /\ x.handles \in SUBSET {"poll", "timer"}
        /\ x.closing \in SUBSET {"poll", "timer"}
    BY DEF Unattached, Record
  <1>2. PICK u : u = Use(x)
    OBVIOUS
  <1>3. /\ u \in Record /\ u.hooks = x.hooks /\ u.waiting = x.waiting /\ u.ctx = x.ctx
        /\ u.kind = x.kind /\ u.closing = x.closing /\ u.handles = x.handles
        /\ u.state = x.state /\ u.failed = x.failed /\ u.watch = x.watch
        /\ u.timer = x.timer /\ u.data = x.data /\ x.bad \subseteq u.bad
    BY <1>1, <1>2, UseFollows DEF Followed
  <1>4. PICK hs : hs = x.handles \ {h}
    OBVIOUS
  <1>5. PICK cl : cl = x.closing \ {h}
    OBVIOUS
  <1>6. hs \in SUBSET {"poll", "timer"} /\ cl \in SUBSET {"poll", "timer"}
    BY <1>1, <1>4, <1>5
  <1>7. PICK y : y = [u EXCEPT !.handles = hs, !.closing = cl]
    OBVIOUS
  <1>8. /\ y \in Record /\ y.hooks = u.hooks /\ y.waiting = u.waiting /\ y.ctx = u.ctx
        /\ y.kind = u.kind /\ y.closing = cl /\ y.handles = hs
        /\ y.state = u.state /\ y.failed = u.failed /\ y.watch = u.watch
        /\ y.timer = u.timer /\ y.data = u.data /\ y.bad = u.bad
    BY <1>3, <1>6, <1>7 DEF Record
  <1>9. on_close(x, h) = IF y.handles = {} THEN Release(y) ELSE y
    BY <1>2, <1>3, <1>4, <1>5, <1>7 DEF on_close
  <1>10. x.ctx # "open"
    <2>1. x.ctx = "open" => x.closing = {}
      BY <1>1 DEF Unattached
    <2> QED BY <2>1
  <1>11. y.closing \subseteq y.handles \/ y.bad # {}
    BY <1>3, <1>4, <1>5, <1>8 DEF Unattached
  <1>12. Unattached(y)
    BY <1>1, <1>3, <1>8, <1>10, <1>11 DEF Unattached
  <1>13. CASE y.handles # {}
    BY <1>3, <1>8, <1>9, <1>12, <1>13
  <1>14. CASE y.handles = {}
    <2>1. PICK v : v = Use(y)
      OBVIOUS
    <2>2. /\ v \in Record /\ v.hooks = y.hooks /\ v.waiting = y.waiting /\ v.ctx = y.ctx
          /\ v.kind = y.kind /\ v.closing = y.closing /\ v.handles = y.handles
          /\ v.state = y.state /\ v.failed = y.failed /\ v.watch = y.watch
          /\ v.timer = y.timer /\ v.data = y.data /\ y.bad \subseteq v.bad
      BY <2>1, <1>8, UseFollows DEF Followed
    <2>3. PICK r : r = [v EXCEPT !.data = "freed"]
      OBVIOUS
    <2>4. /\ r \in Record /\ r.hooks = v.hooks /\ r.waiting = v.waiting /\ r.ctx = v.ctx
          /\ r.kind = v.kind /\ r.closing = v.closing /\ r.handles = v.handles
          /\ r.state = v.state /\ r.failed = v.failed /\ r.watch = v.watch
          /\ r.timer = v.timer /\ r.bad = v.bad
      BY <2>2, <2>3 DEF Record
    <2>5. on_close(x, h) = r
      BY <1>9, <1>14, <2>1, <2>3 DEF Release
    <2>6. Unattached(r)
      BY <1>1, <1>3, <1>8, <1>10, <1>11, <1>12, <2>2, <2>4 DEF Unattached
    <2> QED BY <1>3, <1>8, <2>2, <2>4, <2>5, <2>6
  <1> QED BY <1>13, <1>14

\* A handle of libuv is closed; the last one takes the container along.
LEMMA OnCloseClosed ==
    ASSUME NEW x, Closed(x, FALSE), NEW h \in x.closing
    PROVE  Closed(on_close(x, h), FALSE) /\ on_close(x, h).kind = x.kind
  <1>1. /\ x \in Record /\ x.kind = "libuv" /\ x.closing = x.handles /\ x.data = "alloc"
        /\ x.handles \in SUBSET {"poll", "timer"} /\ Use(x) = x
    <2>1. x \in Record /\ x.kind = "libuv"
      BY DEF Closed, Shut
    <2>2. x.closing = x.handles /\ x.handles # {} /\ x.data = "alloc"
      BY <2>1 DEF Closed, Shut
    <2> QED BY <2>1, <2>2, UseAllocated DEF Record
  <1>2. PICK hs : hs = x.handles \ {h}
    OBVIOUS
  <1>3. hs \in SUBSET {"poll", "timer"}
    BY <1>1, <1>2
  <1>4. PICK y : y = [x EXCEPT !.handles = hs, !.closing = hs]
    OBVIOUS
  <1>5. /\ y \in Record /\ y.ctx = x.ctx /\ y.kind = x.kind /\ y.closing = hs
        /\ y.handles = hs /\ y.state = x.state /\ y.failed = x.failed /\ y.waiting = x.waiting
        /\ y.watch = x.watch
        /\ y.timer = x.timer /\ y.data = x.data /\ y.bad = x.bad /\ y.context = x.context
    BY <1>1, <1>3, <1>4 DEF Record
  <1>6. on_close(x, h) = IF y.handles = {} THEN Release(y) ELSE y
    BY <1>1, <1>2, <1>4 DEF on_close
  <1>7. CASE hs # {}
    BY <1>1, <1>5, <1>6, <1>7 DEF Closed, Shut, Postponing
  <1>8. CASE hs = {}
    <2>1. Release(y) = [y EXCEPT !.data = "freed"]
      BY <1>1, <1>5, UseAllocated DEF Release
    <2>2. PICK r : r = [y EXCEPT !.data = "freed"]
      OBVIOUS
    <2>3. /\ r \in Record /\ r.ctx = y.ctx /\ r.kind = y.kind /\ r.closing = y.closing
          /\ r.handles = y.handles /\ r.state = y.state /\ r.failed = y.failed
          /\ r.waiting = y.waiting
          /\ r.watch = y.watch /\ r.timer = y.timer /\ r.data = "freed" /\ r.bad = y.bad
          /\ r.context = y.context
      BY <1>5, <2>2 DEF Record
    <2>4. Closed(r, FALSE)
      BY <1>1, <1>5, <1>8, <2>3 DEF Closed, Shut, Postponing
    <2> QED BY <1>5, <1>6, <1>8, <2>1, <2>2, <2>3, <2>4
  <1> QED BY <1>7, <1>8

\* y is x but for the flags of the running handler.
Flagged(x, y, st) ==
    /\ y \in Record /\ y.state = st
    /\ y.kind = x.kind /\ y.ctx = x.ctx /\ y.hooks = x.hooks /\ y.data = x.data
    /\ y.context = x.context /\ y.want = x.want /\ y.flags = x.flags /\ y.watch = x.watch
    /\ y.source = x.source /\ y.handles = x.handles /\ y.closing = x.closing
    /\ y.timer = x.timer /\ y.waiting = x.waiting /\ y.bad = x.bad /\ y.failed = x.failed

\* The flags of the running handler are set.
LEMMA SetState ==
    ASSUME NEW x \in Record, NEW st \in SUBSET {"ENTERED", "DELETED"}
    PROVE  Flagged(x, [x EXCEPT !.state = st], st)
  BY DEF Record, Flagged

\* The container as the handler begins: ENTERED is set by those who look at it.
Entered(x) ==
    [Use(x) EXCEPT !.state = IF x.kind \in {"libevent", "libsdevent", "poll"}
                             THEN @ \cup {"ENTERED"} ELSE @]

\* The handler of an open context begins.
LEMMA EnterOpen ==
    ASSUME NEW x, Open(x, FALSE)
    PROVE  Open(Entered(x), TRUE) /\ Entered(x).kind = x.kind
  <1>1. x \in Record /\ x.data = "alloc" /\ x.state = {} /\ Use(x) = x
    BY UseAllocated DEF Open, Whole
  <1>2. PICK st : st = IF x.kind \in Postponing THEN {"ENTERED"} ELSE {}
    OBVIOUS
  <1>3. st \in SUBSET {"ENTERED", "DELETED"}
    BY <1>2
  <1>4. PICK y : y = [x EXCEPT !.state = st]
    OBVIOUS
  <1>5. Entered(x) = y
    BY <1>1, <1>2, <1>4 DEF Entered, Postponing
  <1>6. Flagged(x, y, st)
    BY <1>1, <1>3, <1>4, SetState
  <1>7. Open(y, TRUE)
    BY <1>2, <1>6 DEF Open, Whole, Agreed, Timed, Flagged
  <1> QED BY <1>5, <1>6, <1>7 DEF Flagged

\* The source of glib may be dispatched although its context is gone.
LEMMA EnterClosed ==
    ASSUME NEW x, Closed(x, FALSE), x.kind = "glib"
    PROVE  Closed(Entered(x), TRUE) /\ Entered(x).kind = x.kind
  <1>1. x \in Record /\ x.data = "alloc" /\ Use(x) = x
    BY UseAllocated DEF Closed, Shut
  <1>2. Entered(x) = [x EXCEPT !.state = x.state]
    BY <1>1 DEF Entered
  <1>3. Entered(x) = x
    BY <1>1, <1>2 DEF Record
  <1> QED BY <1>3 DEF Closed, Shut, Postponing

\* A handler that goes on after its context has gone (glib, libhv).
LEMMA HandleClosed ==
    ASSUME NEW x, Closed(x, TRUE), x.kind \in {"glib", "libhv"}, NEW ev, NEW y \in Handle(x, ev)
    PROVE  Closed(y, TRUE) /\ y.kind = x.kind
  <1>1. x \in Record /\ x.ctx = "freed" /\ x.bad \in SUBSET {"container", "context"}
    BY DEF Closed, Shut, Record
  <1>2. PICK bad : bad = x.bad \cup {"context"}
    OBVIOUS
  <1>3. y = [x EXCEPT !.bad = bad] /\ bad \in SUBSET {"container", "context"}
    BY <1>1, <1>2 DEF Handle
  <1>4. /\ y \in Record /\ y.ctx = x.ctx /\ y.kind = x.kind /\ y.closing = x.closing
        /\ y.handles = x.handles /\ y.state = x.state /\ y.failed = x.failed
        /\ y.waiting = x.waiting
        /\ y.watch = x.watch /\ y.timer = x.timer /\ y.data = x.data
        /\ y.context = x.context
    BY <1>1, <1>3 DEF Record
  <1> QED BY <1>4 DEF Closed, Shut, Postponing

\* The other handlers see that the context has gone.
LEMMA StopsWhenClosed ==
    ASSUME NEW x, Closed(x, TRUE), x.kind \in Combined, x.kind \notin {"glib", "libhv"}
    PROVE  GoesOn(x) = FALSE
  <1>1. CASE x.kind = "libuv"
    <2>1. x.context = FALSE
      BY <1>1 DEF Closed, Shut
    <2> QED BY <1>1, <2>1 DEF GoesOn, valkeyLibuvPoll
  <1>2. CASE x.kind \in Postponing
    <2>1. "DELETED" \in x.state
      BY <1>2 DEF Closed, Shut
    <2> QED BY <1>2, <2>1 DEF GoesOn, valkeyLibeventHandler, valkeyLibsdeventHandler,
            valkeyPollTick, Postponing
  <1> QED BY <1>1, <1>2 DEF Combined, Postponing

\* The handler of a context that is still open ends.
LEMMA LeftOpen ==
    ASSUME NEW x, Open(x, TRUE)
    PROVE  Open(Left(x), FALSE) /\ Left(x).kind = x.kind
  <1>1. x \in Record /\ x.state \subseteq {"ENTERED"}
    BY DEF Open, Whole
  <1>2. PICK st : st = x.state \ {"ENTERED"}
    OBVIOUS
  <1>3. st = {} /\ "DELETED" \notin x.state
    BY <1>1, <1>2
  <1>4. PICK y : y = [x EXCEPT !.state = st]
    OBVIOUS
  <1>5. Left(x) = y
    BY <1>2, <1>3, <1>4 DEF Left
  <1>6. Flagged(x, y, st)
    BY <1>1, <1>3, <1>4, SetState
  <1>7. Open(y, FALSE)
    BY <1>3, <1>6 DEF Open, Whole, Agreed, Timed, Flagged
  <1> QED BY <1>5, <1>6, <1>7 DEF Flagged

\* The handler of a context that has gone ends: a postponed deletion is done.
LEMMA LeftClosed ==
    ASSUME NEW x, Closed(x, TRUE)
    PROVE  Closed(Left(x), FALSE) /\ Left(x).kind = x.kind
  <1>1. x \in Record
    BY DEF Closed, Shut
  <1>2. CASE x.kind \in Postponing
    <2>1. "DELETED" \in x.state /\ x.data = "alloc"
      BY <1>2 DEF Closed, Shut
    <2>2. PICK y : y = IF x.kind = "libsdevent" THEN [x EXCEPT !.source = FALSE] ELSE x
      OBVIOUS
    <2>3. /\ y \in Record
          /\ y.kind = x.kind /\ y.ctx = x.ctx /\ y.hooks = x.hooks /\ y.data = x.data
          /\ y.context = x.context /\ y.closing = x.closing /\ y.state = x.state
          /\ y.bad = x.bad /\ y.failed = x.failed /\ y.waiting = x.waiting
      BY <2>2, <1>1 DEF Record
    <2>4. Left(x) = Release(Quiet(y))
      BY <2>1, <2>2 DEF Left, valkeyLibsdeventDestroy
    <2>5. PICK z : z = Release(Quiet(y))
      OBVIOUS
    <2>6. Dropped(y, z)
      BY <2>1, <2>3, <2>5, ReleaseQuiet
    <2>7. Closed(z, FALSE)
      BY <1>2, <2>3, <2>6 DEF Dropped, Closed, Shut, Postponing
    <2> QED BY <2>3, <2>4, <2>5, <2>6, <2>7 DEF Dropped
  <1>3. CASE x.kind \notin Postponing
    <2>1. "DELETED" \notin x.state
      BY <1>3 DEF Closed, Shut
    <2>2. PICK st : st = x.state \ {"ENTERED"}
      OBVIOUS
    <2>3. st \in SUBSET {"ENTERED", "DELETED"} /\ "DELETED" \notin st
      BY <1>1, <2>1, <2>2 DEF Record
    <2>4. PICK y : y = [x EXCEPT !.state = st]
      OBVIOUS
    <2>5. Left(x) = y
      BY <2>1, <2>2, <2>4 DEF Left
    <2>6. Flagged(x, y, st)
      BY <1>1, <2>3, <2>4, SetState
    <2>7. Closed(y, FALSE)
      BY <1>3, <2>3, <2>6 DEF Closed, Shut, Postponing, Flagged
    <2> QED BY <2>5, <2>6, <2>7 DEF Flagged
  <1> QED BY <1>2, <1>3

\* A timer that has fired leaves the container whole.
LEMMA FiredWhole ==
    ASSUME NEW x, NEW in, Open(x, in), x.timer # "none",
           NEW t \in {"none", "repeating", "off", "ending"}, Expiring(x.kind, t)
    PROVE  LET y == [x EXCEPT !.timer = t]
           IN  Whole(y, in) /\ Agreed(y) /\ y.kind = x.kind /\ y.kind \notin Timerless
  <1>1. x \in Record /\ x.kind \notin Timerless
    BY DEF Open, Whole
  <1>2. PICK y : y = [x EXCEPT !.timer = t]
    OBVIOUS
  <1>3. /\ y \in Record
        /\ y.kind = x.kind /\ y.ctx = x.ctx /\ y.hooks = x.hooks /\ y.data = x.data
        /\ y.context = x.context /\ y.want = x.want /\ y.flags = x.flags /\ y.watch = x.watch
        /\ y.source = x.source /\ y.handles = x.handles /\ y.closing = x.closing
        /\ y.waiting = x.waiting /\ y.bad = x.bad /\ y.failed = x.failed /\ y.state = x.state
    BY <1>1, <1>2 DEF Record
  <1>5. y.timer = t
    BY <1>1, <1>2 DEF Record
  <1>4. Whole(y, in) /\ Agreed(y) /\ y.kind \notin Timerless
    BY <1>1, <1>3, <1>5 DEF Open, Whole, Agreed
  <1> QED BY <1>2, <1>3, <1>4

\* The callback of a timer ends.
LEMMA ExpiredKeeps ==
    ASSUME NEW x, Open(x, FALSE) \/ Closed(x, FALSE)
    PROVE  (Open(Expired(x), FALSE) \/ Closed(Expired(x), FALSE)) /\ Expired(x).kind = x.kind
  <1>1. CASE x.timer # "ending"
    BY <1>1 DEF Expired
  <1>2. CASE x.timer = "ending"
    <2>2. ~ Closed(x, FALSE)
      BY <1>2 DEF Closed, Shut
    <2>3. Open(x, FALSE) /\ x \in Record
      BY <2>2 DEF Open, Whole
    <2>1. x.kind = "libhv"
      BY <1>2, <2>3 DEF Open, Whole, Expiring
    <2>4. PICK y : y = [x EXCEPT !.timer = "stale"]
      OBVIOUS
    <2>5. /\ y \in Record /\ Expiring(y.kind, y.timer)
          /\ y.kind = x.kind /\ y.ctx = x.ctx /\ y.hooks = x.hooks /\ y.data = x.data
          /\ y.context = x.context /\ y.want = x.want /\ y.flags = x.flags
          /\ y.watch = x.watch /\ y.source = x.source /\ y.handles = x.handles
          /\ y.closing = x.closing /\ y.waiting = x.waiting /\ y.bad = x.bad
          /\ y.failed = x.failed /\ y.state = x.state
      BY <2>1, <2>3, <2>4 DEF Record, Expiring
    <2>6. x.kind \notin Timerless /\ x.kind \in Untimed
      BY <2>1 DEF Timerless, Untimed
    <2>7. Whole(y, FALSE) /\ Agreed(y) /\ Timed(y)
      BY <2>3, <2>5, <2>6 DEF Open, Whole, Agreed, Timed
    <2>8. Expired(x) = y
      BY <1>2, <2>4 DEF Expired
    <2> QED BY <2>5, <2>7, <2>8 DEF Open
  <1> QED BY <1>1, <1>2

\* The library calls the handler of a timer.
LEMMA FiredHandled ==
    ASSUME NEW x, Open(x, FALSE), x.timer # "none", NEW y \in Handle(Fired(x), "timer")
    PROVE  (Open(y, FALSE) \/ Closed(y, FALSE)) /\ y.kind = x.kind
  <1>1. PICK t : t = CASE x.kind = "libev" -> "repeating"
                       [] x.kind = "libsdevent" -> "off"
                       [] x.kind = "libhv" -> "ending"
                       [] OTHER -> "none"
    OBVIOUS
  <1>2. t \in {"none", "repeating", "off", "ending"} /\ Expiring(x.kind, t)
    BY <1>1 DEF Expiring
  <1>3. PICK z : z = [x EXCEPT !.timer = t]
    OBVIOUS
  <1>4. Fired(x) = z
    BY <1>1, <1>3 DEF Fired
  <1>5. Whole(z, FALSE) /\ Agreed(z) /\ z.kind = x.kind /\ z.kind \notin Timerless
    BY <1>2, <1>3, FiredWhole
  <1> QED BY <1>4, <1>5, HandleTimer

-----------------------------------------------------------------------------
(* The specification. *)

\* What an adapter attaches to a context is whole.
LEMMA AttachedOpen ==
    ASSUME NEW kind \in Kinds
    PROVE  Open(Attached(kind), FALSE) /\ Attached(kind).failed = FALSE
  <1>1. PICK d : d = Detached(kind)
    OBVIOUS
  <1>2. /\ d \in Record
        /\ d.kind = kind /\ d.ctx = "open" /\ d.want = {} /\ d.closing = {}
        /\ d.timer = "none" /\ d.waiting = FALSE /\ d.state = {} /\ d.bad = {}
        /\ d.failed = FALSE /\ d.source = FALSE
    BY <1>1 DEF Detached, Record, Events
  <1>3. PICK on : on = IF kind \in {"ivykis", "macosx"} THEN Events ELSE {}
    OBVIOUS
  <1>4. on \in SUBSET Events
    BY <1>3
  <1>5. PICK y : y = [d EXCEPT !.hooks = TRUE, !.data = "alloc", !.context = TRUE,
                               !.flags = on, !.watch = on, !.handles = {"poll"}]
    OBVIOUS
  <1>6. Attached(kind) = y
    BY <1>1, <1>3, <1>5 DEF Attached
  <1>7. /\ y \in Record /\ y.hooks = TRUE /\ y.data = "alloc" /\ y.context = TRUE
        /\ y.flags = on /\ y.watch = on /\ y.handles = {"poll"}
        /\ y.kind = d.kind /\ y.ctx = d.ctx /\ y.want = d.want /\ y.closing = d.closing
        /\ y.timer = d.timer /\ y.waiting = d.waiting /\ y.state = d.state /\ y.bad = d.bad
        /\ y.failed = d.failed /\ y.source = d.source
    BY <1>2, <1>4, <1>5 DEF Record
  <1>8. Whole(y, FALSE)
    BY <1>2, <1>3, <1>7 DEF Whole, Expiring
  <1>9. Agreed(y) /\ Timed(y)
    BY <1>2, <1>3, <1>7 DEF Agreed, Timed
  <1> QED BY <1>2, <1>6, <1>7, <1>8, <1>9 DEF Open

\* What a failed attachment leaves behind.
LEMMA AttachFailedUnattached ==
    ASSUME NEW kind \in Kinds
    PROVE  Unattached(AttachFailed(kind))
  <1>1. PICK d : d = Detached(kind)
    OBVIOUS
  <1>2. /\ d \in Record
        /\ d.kind = kind /\ d.ctx = "open" /\ d.want = {} /\ d.closing = {} /\ d.watch = {}
        /\ d.timer = "none" /\ d.waiting = FALSE /\ d.state = {} /\ d.bad = {}
        /\ d.handles = {} /\ d.hooks = FALSE /\ d.data = "none"
    BY <1>1 DEF Detached, Record, Events
  <1>3. PICK y : y = AttachFailed(kind)
    OBVIOUS
  <1>4. /\ y \in Record /\ y.failed = TRUE
        /\ y.kind = d.kind /\ y.ctx = d.ctx /\ y.closing = d.closing /\ y.watch = d.watch
        /\ y.timer = d.timer /\ y.waiting = d.waiting /\ y.state = d.state /\ y.bad = d.bad
        /\ y.handles = d.handles
        /\ kind \notin {"libuv", "macosx"} => y.hooks = d.hooks
        /\ kind = "libuv" => y.data = d.data
    <2>1. CASE kind = "libuv"
      <3>1. y = [d EXCEPT !.hooks = TRUE, !.failed = TRUE]
        BY <1>1, <1>3, <2>1 DEF AttachFailed
      <3> QED BY <3>1, <1>2, <2>1 DEF Record
    <2>2. CASE kind = "macosx"
      <3>1. y = [d EXCEPT !.hooks = TRUE, !.data = "freed", !.failed = TRUE]
        BY <1>1, <1>3, <2>2 DEF AttachFailed
      <3> QED BY <3>1, <1>2, <2>2 DEF Record
    <2>3. CASE kind \notin {"libuv", "macosx"}
      <3>1. y = [d EXCEPT !.failed = TRUE]
        BY <1>1, <1>3, <2>3 DEF AttachFailed
      <3> QED BY <3>1, <1>2, <2>3 DEF Record
    <2> QED BY <2>1, <2>2, <2>3
  <1>5. Unattached(y)
    BY <1>2, <1>4 DEF Unattached
  <1> QED BY <1>3, <1>5

\* The invariant holds when the adapter is attached.
LEMMA InitInv == Init => IInv
  <1> SUFFICES ASSUME Init PROVE IInv
    OBVIOUS
  <1>1. PICK kind \in Kinds : s \in {Attached(kind), AttachFailed(kind)}
    BY DEF Init
  <1>2. pc = "loop" /\ got = {} /\ calls = <<>> /\ Inside = FALSE
    BY DEF Init, Inside
  <1>3. Sound(s, FALSE)
    BY <1>1, AttachedOpen, AttachFailedUnattached DEF Sound
  <1>4. Sound(s, Inside)
    BY <1>2, <1>3, Zenon
  <1>5. calls \in Seq(Events) /\ got \in SUBSET Events
    BY <1>2
  <1> QED BY <1>2, <1>4, <1>5 DEF IInv

\* A step that leaves the handler's state and the events alone.
LEMMA Quietly ==
    ASSUME IInv, NEW y, s' = y, UNCHANGED <<pc, calls>>, got' \subseteq got,
           Sound(y, Inside), y.kind = s.kind, y.failed = TRUE => s.failed = TRUE
    PROVE  IInv'
  <1>1. Inside' = Inside /\ got' \in SUBSET Events
    BY DEF Inside, IInv
  <1>2. y.failed \in BOOLEAN /\ s.failed \in BOOLEAN
    BY DEF IInv, Sound, Unattached, Open, Whole, Closed, Shut
  <1> QED BY <1>1, <1>2 DEF IInv

\* The state of a context, by what the step's guard says of it.
LEMMA Which ==
    ASSUME NEW x, NEW in, Sound(x, in)
    PROVE  /\ x.failed = FALSE /\ x.ctx = "open" => Open(x, in)
           /\ x.failed = FALSE /\ x.ctx # "open" => Closed(x, in)
           /\ x.failed # FALSE => Unattached(x)
           /\ x.failed \in BOOLEAN /\ x \in Record
           /\ x.watch # {} /\ in = FALSE => Open(x, in)
           /\ x.timer # "none" /\ in = FALSE => Open(x, in)
  <1>1. CASE Unattached(x)
    BY <1>1 DEF Unattached
  <1>2. CASE Open(x, in)
    BY <1>2 DEF Open, Whole
  <1>3. CASE Closed(x, in)
    <2>1. x.failed = FALSE /\ x.ctx = "freed" /\ x \in Record
      BY <1>3 DEF Closed, Shut
    <2>2. in = FALSE => x.watch = {} /\ x.timer = "none"
      BY <1>3 DEF Closed, Shut
    <2> QED BY <1>3, <2>1, <2>2
  <1> QED BY <1>1, <1>2, <1>3 DEF Sound

\* Every step preserves the invariant.
LEMMA NextInv == IInv /\ [Next]_vars => IInv'
  <1> SUFFICES ASSUME IInv, [Next]_vars PROVE IInv'
    OBVIOUS
  <1>1. /\ Sound(s, Inside) /\ pc \in {"loop", "callback"} /\ calls \in Seq(Events)
        /\ got \in SUBSET Events /\ Inside \in BOOLEAN
        /\ pc = "loop" => Inside = FALSE /\ calls = <<>>
        /\ pc = "callback" => Inside = TRUE
    BY DEF IInv, Inside
  <1>2. PICK x : x = s
    OBVIOUS
  <1>3. PICK in \in BOOLEAN : in = Inside
    BY <1>1
  <1>4. Sound(x, in)
    BY <1>1, <1>2, <1>3
  <1>5. CASE Command
    <2>1. Open(x, in) /\ "write" \in Events
      BY <1>1, <1>2, <1>4, <1>5, Which DEF Command, Events
    <2>2. PICK y : y = Want(x, "write")
      OBVIOUS
    <2>3. Open(y, in) /\ y.kind = x.kind /\ s' = y
      BY <2>1, <2>2, <1>2, <1>5, WantOpen DEF Command
    <2>5. y.failed = FALSE
      BY <2>3 DEF Open, Whole
    <2>4. UNCHANGED <<pc, calls>> /\ got' \subseteq got
      BY <1>5 DEF Command
    <2> QED BY <2>3, <2>4, <2>5, <1>2, <1>3, Quietly DEF Sound
  <1>6. CASE Free
    <2>1. x.ctx = "open" /\ s' = Close(x) /\ UNCHANGED <<pc, calls>> /\ got' \subseteq got
      BY <1>2, <1>6 DEF Free
    <2>2. PICK y : y = Close(x)
      OBVIOUS
    <2>3. CASE x.failed = FALSE
      <3>1. Closed(y, in) /\ y.kind = x.kind /\ y.failed = FALSE
        <4>1. Whole(x, in)
          BY <1>4, <2>1, <2>3, Which DEF Open
        <4> QED BY <4>1, <2>2, CloseWhole DEF Closed, Shut
      <3> QED BY <3>1, <2>1, <2>2, <1>2, <1>3, Quietly DEF Sound
    <2>4. CASE x.failed # FALSE
      <3>1. Unattached(x) /\ x.failed = TRUE
        BY <1>4, <2>4, Which
      <3>2. Unattached(y) /\ y.kind = x.kind
        BY <3>1, <2>1, <2>2, CloseUnattached
      <3> QED BY <3>1, <3>2, <2>1, <2>2, <1>2, <1>3, Quietly DEF Sound
    <2> QED BY <2>3, <2>4
  <1>7. CASE Collect
    <2>1. /\ pc = "loop" /\ got' \in (SUBSET x.watch) \ {{}} /\ s' = s /\ pc' = pc
          /\ calls' = calls
      BY <1>2, <1>7 DEF Collect
    <2>2. x.watch # {} /\ in = FALSE
      <3>1. Inside = FALSE
        BY <2>1, <1>1
      <3>2. PICK found : found = got'
        OBVIOUS
      <3>3. found \subseteq x.watch /\ found # {}
        BY <2>1, <3>2
      <3>4. x.watch # {}
        BY <3>3
      <3> QED BY <3>1, <3>4, <1>3, Zenon
    <2>3. Open(x, in) /\ x.failed = FALSE /\ x.watch \subseteq Events
      BY <2>2, <1>4, Which DEF Open, Whole, Record
    <2>4. got' \in SUBSET Events /\ s'.failed = FALSE /\ Inside' = Inside
      BY <2>1, <2>3, <1>2 DEF Inside
    <2> QED BY <2>1, <2>4 DEF IInv
  <1>8. CASE TimerFires
    <2>1. pc = "loop" /\ x.timer # "none" /\ in = FALSE
      BY <1>1, <1>2, <1>3, <1>8 DEF TimerFires, Outside
    <2>2. Open(x, FALSE) /\ x.failed = FALSE /\ Use(x) = x
      BY <2>1, <1>4, Which, UseAllocated DEF Open, Whole
    <2>7. PICK z \in Handle(Fired(x), "timer") : s' = Expired(z)
      BY <2>2, <1>2, <1>8 DEF TimerFires
    <2>8. (Open(z, FALSE) \/ Closed(z, FALSE)) /\ z.kind = x.kind
      BY <2>1, <2>2, <2>7, FiredHandled
    <2>3. PICK y : y = Expired(z) /\ s' = y
      BY <2>7
    <2>4. (Open(y, FALSE) \/ Closed(y, FALSE)) /\ y.kind = x.kind
      BY <2>3, <2>8, ExpiredKeeps
    <2>5. y.failed = FALSE
      BY <2>4 DEF Open, Whole, Closed, Shut
    <2>6. UNCHANGED <<pc, calls>> /\ got' \subseteq got
      BY <1>8 DEF TimerFires
    <2> QED BY <2>1, <2>3, <2>4, <2>5, <2>6, <1>2, <1>3, Quietly DEF Sound
  <1>9. CASE Drop
    <2>1. s' = s /\ UNCHANGED <<pc, calls>> /\ got' \subseteq got
      BY <1>9 DEF Drop
    <2> QED BY <2>1, <1>2, <1>3, <1>4, Quietly
  <1>10. CASE Single
    <2>1. pc = "loop" /\ in = FALSE
      BY <1>1, <1>3, <1>10 DEF Single
    <2>2. PICK ev \in got \cap x.watch : got' = got \ {ev} /\ s' \in Handle(Use(x), ev)
      BY <1>2, <1>10 DEF Single
    <2>3. Open(x, FALSE) /\ Use(x) = x /\ ev \in Events
      BY <2>1, <2>2, <1>1, <1>4, Which, UseAllocated DEF Open, Whole
    <2>4. PICK y \in Handle(x, ev) : s' = y
      BY <2>2, <2>3
    <2>5. (Open(y, FALSE) \/ Closed(y, FALSE)) /\ y.kind = x.kind
      BY <2>3, <2>4, HandleEvent
    <2>6. y.failed = FALSE
      BY <2>5 DEF Open, Whole, Closed, Shut
    <2>7. UNCHANGED <<pc, calls>> /\ got' \subseteq got
      BY <2>2, <1>10 DEF Single
    <2> QED BY <2>1, <2>4, <2>5, <2>6, <2>7, <1>2, <1>3, Quietly DEF Sound
  <1>11. CASE Enter
    <2>1. /\ pc = "loop" /\ in = FALSE /\ pc' = "callback" /\ Delivered # {}
          /\ x.kind \in Combined /\ got' = {} /\ calls' = Order(x.kind, Delivered)
          /\ s' = Entered(x)
      BY <1>1, <1>2, <1>3, <1>11 DEF Enter, Entered
    <2>2. Delivered \in SUBSET Events
      BY <1>1 DEF Delivered
    <2>3. calls' \in Seq(Events)
      <3>1. PICK D : D = Delivered
        OBVIOUS
      <3>2. CASE D # Events
        <4>1. PICK e : e = CHOOSE ev \in D : TRUE
          OBVIOUS
        <4>2. e \in D
          BY <4>1, <2>1, <3>1
        <4>3. calls' = <<e>> /\ e \in Events
          BY <2>1, <2>2, <3>1, <3>2, <4>1, <4>2 DEF Order
        <4> QED BY <4>3
      <3>3. CASE D = Events
        <4>1. calls' = <<"write", "read">> \/ calls' = <<"read", "write">>
          BY <2>1, <3>1, <3>3 DEF Order
        <4>2. <<"write", "read">> \in Seq(Events) /\ <<"read", "write">> \in Seq(Events)
          BY DEF Events
        <4> QED BY <4>1, <4>2
      <3> QED BY <3>2, <3>3
    <2>4. x.failed = FALSE
      <3>1. x.failed = TRUE => got = {}
        BY <1>2 DEF IInv
      <3> QED BY <3>1, <1>4, <2>1, Which DEF Delivered
    <2>5. PICK y : y = Entered(x)
      OBVIOUS
    <2>6. (Open(y, TRUE) \/ Closed(y, TRUE)) /\ y.kind = x.kind
      <3>1. CASE Open(x, FALSE)
        BY <3>1, <2>5, EnterOpen
      <3>2. CASE ~ Open(x, FALSE)
        <4>1. Closed(x, FALSE) /\ x.watch = {}
          BY <3>2, <1>4, <2>1, <2>4, Which
        <4>2. x.kind = "glib"
          BY <4>1, <2>1, <1>2 DEF Delivered
        <4> QED BY <4>1, <4>2, <2>5, EnterClosed
      <3> QED BY <3>1, <3>2
    <2>7. y.failed = FALSE
      BY <2>6 DEF Open, Whole, Closed, Shut
    <2>8. Inside' = TRUE /\ s' = y
      BY <2>1, <2>5 DEF Inside
    <2> QED BY <2>1, <2>3, <2>6, <2>7, <2>8 DEF IInv, Sound
  <1>12. CASE CallHandler
    <2>1. /\ pc = "callback" /\ in = TRUE /\ calls # <<>> /\ calls' = Tail(calls)
          /\ UNCHANGED <<pc, got>> /\ x.kind \in Combined /\ x.failed = FALSE
          /\ (s' \in Handle(x, Head(calls)) /\ GoesOn(x) = TRUE) \/ s' = x
      BY <1>1, <1>2, <1>3, <1>12 DEF CallHandler, IInv
    <2>2. Head(calls) \in Events /\ calls' \in Seq(Events)
      BY <2>1, <1>1
    <2>3. PICK y : y = s'
      OBVIOUS
    <2>4. PICK ev \in Events : ev = Head(calls)
      BY <2>2
    <2>5. (Open(y, TRUE) \/ Closed(y, TRUE)) /\ y.kind = x.kind
      <3>1. Open(x, TRUE) \/ Closed(x, TRUE)
        BY <2>1, <1>4, Which
      <3>2. CASE y = x
        BY <3>1, <3>2
      <3>3. CASE y # x
        <4>1. y \in Handle(x, ev) /\ GoesOn(x) = TRUE
          BY <2>1, <2>3, <2>4, <3>3
        <4>2. CASE Open(x, TRUE)
          BY <4>1, <4>2, HandleEvent
        <4>3. CASE Closed(x, TRUE)
          BY <4>1, <4>3, <2>1, StopsWhenClosed, HandleClosed
        <4> QED BY <3>1, <4>2, <4>3
      <3> QED BY <3>2, <3>3
    <2>6. y.failed = FALSE
      BY <2>5 DEF Open, Whole, Closed, Shut
    <2>7. Inside' = TRUE /\ pc' = "callback" /\ got' \in SUBSET Events
      BY <2>1, <1>1 DEF Inside
    <2> QED BY <2>1, <2>2, <2>3, <2>5, <2>6, <2>7 DEF IInv, Sound
  <1>13. CASE Leave
    <2>1. /\ pc = "callback" /\ in = TRUE /\ calls = <<>> /\ pc' = "loop" /\ x.failed = FALSE
          /\ UNCHANGED <<got, calls>>
      BY <1>1, <1>2, <1>3, <1>13 DEF Leave, IInv
    <2>2. Open(x, TRUE) \/ Closed(x, TRUE)
      BY <2>1, <1>4, Which
    <2>3. PICK z : (Open(z, TRUE) \/ Closed(z, TRUE)) /\ s' = Left(z)
      <3>1. CASE s' = Left(s)
        BY <3>1, <2>2, <1>2
      <3>2. CASE s' # Left(s)
        <4>1. PICK w : w = [x EXCEPT !.timer = "none"]
          OBVIOUS
        <4>2. /\ x.kind = "poll" /\ "DELETED" \notin x.state /\ x.timer = "armed"
              /\ \E z \in Handle(w, "timer") : s' = Left(z)
          BY <3>2, <4>1, <1>2, <1>13 DEF Leave
        <4>3. Open(x, TRUE)
          BY <2>2, <4>2 DEF Closed, Shut, Postponing
        <4>4. Whole(w, TRUE) /\ Agreed(w) /\ w.kind \notin Timerless
          BY <4>1, <4>2, <4>3, FiredWhole DEF Expiring
        <4>5. PICK z \in Handle(w, "timer") : s' = Left(z)
          BY <4>2
        <4>6. Open(z, TRUE) \/ Closed(z, TRUE)
          BY <4>4, <4>5, HandleTimer
        <4> QED BY <4>5, <4>6
      <3> QED BY <3>1, <3>2
    <2>4. PICK y : y = Left(z)
      OBVIOUS
    <2>5. Open(y, FALSE) \/ Closed(y, FALSE)
      BY <2>3, <2>4, LeftOpen, LeftClosed
    <2>6. y.failed = FALSE
      BY <2>5 DEF Open, Whole, Closed, Shut
    <2>7. Inside' = FALSE /\ s' = y /\ got' \in SUBSET Events /\ calls' = <<>>
      BY <2>1, <2>3, <2>4, <1>1 DEF Inside
    <2> QED BY <2>1, <2>5, <2>6, <2>7, <1>1 DEF IInv, Sound
  <1>14. CASE CloseHandle
    <2>1. pc = "loop" /\ in = FALSE /\ UNCHANGED <<pc, calls>> /\ got' \subseteq got
      BY <1>1, <1>3, <1>14 DEF CloseHandle, Outside
    <2>2. PICK h \in x.closing : s' = on_close(x, h)
      BY <1>2, <1>14 DEF CloseHandle
    <2>3. PICK y : y = on_close(x, h)
      OBVIOUS
    <2>4. CASE Unattached(x)
      <3>1. Unattached(y) /\ y.kind = x.kind /\ x.failed = TRUE
        BY <2>3, <2>4, OnCloseUnattached DEF Unattached
      <3> QED BY <3>1, <2>1, <2>2, <2>3, <1>2, <1>3, Quietly DEF Sound
    <2>5. CASE Closed(x, FALSE)
      <3>1. Closed(y, FALSE) /\ y.kind = x.kind /\ y.failed = FALSE
        BY <2>3, <2>5, OnCloseClosed, ZenonT(40) DEF Closed, Shut
      <3> QED BY <3>1, <2>1, <2>2, <2>3, <1>2, <1>3, Quietly DEF Sound
    <2>6. ~ Open(x, FALSE)
      BY <2>2 DEF Open, Whole
    <2> QED BY <2>1, <2>4, <2>5, <2>6, <1>4 DEF Sound
  <1>16. CASE SetTimeout
    <2>1. Unattached(x) \/ Open(x, in)
      BY <1>2, <1>4, <1>16, Which DEF SetTimeout, Closed, Sound
    <2>2. PICK b : b = (~ x.brief)
      OBVIOUS
    <2>3. PICK y : y = [x EXCEPT !.brief = b]
      OBVIOUS
    <2>4. x \in Record /\ b \in BOOLEAN
      BY <2>2, <1>4, Which
    <2>5. /\ y \in Record
          /\ y.kind = x.kind /\ y.ctx = x.ctx /\ y.hooks = x.hooks /\ y.data = x.data
          /\ y.context = x.context /\ y.want = x.want /\ y.flags = x.flags
          /\ y.watch = x.watch /\ y.source = x.source /\ y.handles = x.handles
          /\ y.closing = x.closing /\ y.waiting = x.waiting /\ y.bad = x.bad
          /\ y.failed = x.failed /\ y.state = x.state /\ y.timer = x.timer
      BY <2>3, <2>4 DEF Record
    <2>6. Sound(y, in)
      BY <2>1, <2>5 DEF Sound, Unattached, Open, Whole, Agreed, Timed
    <2>7. s' = y
      BY <2>2, <2>3, <1>2, <1>16 DEF SetTimeout
    <2>8. UNCHANGED <<pc, calls>> /\ got' \subseteq got
      BY <1>16 DEF SetTimeout
    <2> QED BY <2>5, <2>6, <2>7, <2>8, <1>2, <1>3, Quietly
  <1>17. CASE DestroyQtAdapter
    <2>1. /\ x.kind = "qt" /\ x.ctx = "freed" /\ x.failed = FALSE
          /\ s' = [x EXCEPT !.data = "freed", !.bad = @ \cup {"context"}]
      BY <1>2, <1>4, <1>17, Which DEF DestroyQtAdapter
    <2>2. Closed(x, in) /\ x \in Record
      BY <2>1, <1>4, Which
    <2>3. PICK bad : bad = x.bad \cup {"context"}
      OBVIOUS
    <2>4. bad \in SUBSET {"container", "context"}
      BY <2>2, <2>3 DEF Record
    <2>5. PICK y : y = [x EXCEPT !.data = "freed", !.bad = bad]
      OBVIOUS
    <2>6. /\ y \in Record /\ y.data = "freed"
          /\ y.kind = x.kind /\ y.ctx = x.ctx /\ y.closing = x.closing
          /\ y.handles = x.handles /\ y.state = x.state /\ y.failed = x.failed
          /\ y.waiting = x.waiting /\ y.watch = x.watch /\ y.timer = x.timer
          /\ y.context = x.context
      BY <2>2, <2>4, <2>5 DEF Record
    <2>7. Closed(y, in)
      BY <2>1, <2>2, <2>6 DEF Closed, Shut, Postponing
    <2>8. s' = y
      BY <2>1, <2>3, <2>5
    <2>9. UNCHANGED <<pc, calls>> /\ got' \subseteq got
      BY <1>17 DEF DestroyQtAdapter
    <2> QED BY <2>1, <2>6, <2>7, <2>8, <2>9, <1>2, <1>3, Quietly DEF Sound
  <1>15. CASE UNCHANGED vars
    <2>1. s' = s /\ UNCHANGED <<pc, calls>> /\ got' \subseteq got
      BY <1>15 DEF vars
    <2> QED BY <2>1, <1>2, <1>3, <1>4, Quietly
  <1> QED BY <1>5, <1>6, <1>7, <1>8, <1>9, <1>10, <1>11, <1>12, <1>13, <1>14, <1>15,
             <1>16, <1>17 DEF Next, Loop

\* The invariant holds always.
LEMMA Invariance == Spec => []IInv
  BY InitInv, NextInv, PTL DEF Spec

\* An adapter other than glib and libhv uses neither the context nor its
\* container once they are gone, and frees the container once at most, however
\* and wherever the context closes, for every choice of adapters and any
\* number of commands (the cleanup hooks and the handlers of every adapter;
\* qt's until its adapter is destroyed).
THEOREM NeverLate == Spec => []NoLateUse
  <1>1. IInv => NoLateUse
    <2> SUFFICES ASSUME IInv, ~ Exposed PROVE s.bad = {}
      BY DEF NoLateUse
    <2>1. /\ Sound(s, Inside) /\ s.kind \notin {"glib", "libhv"}
          /\ s.kind = "qt" => s.data # "freed"
      BY DEF IInv, Exposed
    <2>2. CASE Unattached(s)
      BY <2>2 DEF Unattached, Exposed
    <2>3. CASE Open(s, Inside)
      BY <2>3 DEF Open, Whole
    <2>4. CASE Closed(s, Inside)
      BY <2>1, <2>4 DEF Closed, Shut
    <2> QED BY <2>1, <2>2, <2>3, <2>4 DEF Sound
  <1> QED BY <1>1, Invariance, PTL

\* Between callbacks the library watches what the context asked for, for every
\* choice of adapters, and runs the timer the context waits for, but for those of
\* libsdevent and libhv (the add, del and scheduleTimer hooks).
THEOREM AlwaysAgrees == Spec => []LoopAgrees
  <1>1. IInv => TypeOK
    <2> SUFFICES ASSUME IInv PROVE TypeOK
      OBVIOUS
    <2>1. Sound(s, Inside) /\ pc \in {"loop", "callback"} /\ (pc = "loop" => calls = <<>>)
      BY DEF IInv
    <2>2. s \in Record
      BY <2>1, Which
    <2>3. /\ s.kind \in Kinds
          /\ s.ctx \in {"open", "freed"} /\ s.data \in {"none", "alloc", "freed"}
          /\ s.flags \subseteq Events /\ s.watch \subseteq Events /\ s.want \subseteq Events
          /\ s.timer \in {"none", "armed", "repeating", "off", "ending", "stale"}
      BY <2>2 DEF Record
    <2>4. s.kind \in Timerless => ~ s.waiting
      <3>1. CASE Unattached(s)
        BY <3>1 DEF Unattached
      <3>2. CASE Open(s, Inside)
        BY <3>2 DEF Open, Whole
      <3>3. CASE Closed(s, Inside)
        BY <3>3 DEF Closed, Shut
      <3> QED BY <2>1, <3>1, <3>2, <3>3 DEF Sound
    <2>5. s.closing \subseteq s.handles \/ s.bad # {}
      <3>1. CASE Unattached(s)
        BY <3>1 DEF Unattached
      <3>2. CASE Open(s, Inside)
        BY <3>2 DEF Open, Whole
      <3>3. CASE Closed(s, Inside)
        BY <3>3 DEF Closed, Shut
      <3> QED BY <2>1, <3>1, <3>2, <3>3 DEF Sound
    <2> QED BY <2>1, <2>3, <2>4, <2>5 DEF TypeOK
  <1>2. IInv => Watched
    <2> SUFFICES ASSUME IInv, s.ctx = "open", ~ s.failed
                 PROVE  /\ s.want \subseteq s.watch
                        /\ s.kind \notin {"ivykis", "macosx"} => s.watch = s.want
      BY DEF Watched
    <2>1. Sound(s, Inside)
      BY DEF IInv
    <2>2. Open(s, Inside)
      BY <2>1, Which
    <2> QED BY <2>2 DEF Open, Agreed
  <1>3. IInv => TimerRuns
    <2> SUFFICES ASSUME IInv, s.ctx = "open", s.waiting, s.kind \notin Untimed
                 PROVE  s.timer \in {"armed", "repeating"}
      BY DEF TimerRuns
    <2>1. Sound(s, Inside)
      BY DEF IInv
    <2>2. CASE Unattached(s)
      BY <2>2 DEF Unattached
    <2>3. CASE Open(s, Inside)
      <3>1. s.waiting = TRUE
        BY <2>3 DEF Open, Whole, Record
      <3> QED BY <2>3, <3>1 DEF Open, Timed
    <2>4. CASE Closed(s, Inside)
      BY <2>4 DEF Closed
    <2> QED BY <2>1, <2>2, <2>3, <2>4 DEF Sound
  <1>4. IInv => LoopAgrees
    BY <1>1, <1>2, <1>3 DEF LoopAgrees
  <1> QED BY <1>4, Invariance, PTL

\* An adapter that is gone stays gone: nothing is watched, timed, allocated or
\* being closed any more, whatever the loop and the application do.
\* Together with the liveness TLC checks this is ReleasedInTheEnd.
THEOREM GoneForGood == Spec => [](Gone /\ s.ctx = "freed" /\ ~ Exposed => []Gone)
  <1> DEFINE Over == Gone /\ s.ctx = "freed" /\ s.kind \notin {"glib", "libhv"}
  <1>1. IInv /\ Over /\ [Next]_vars => Over'
    <2> SUFFICES ASSUME IInv, Over, [Next]_vars PROVE Over'
      OBVIOUS
    <2>1. pc = "loop" /\ s.closing = {} /\ s.watch = {} /\ s.ctx = "freed" /\ s.kind # "glib"
      BY DEF Gone
    <2>2. Sound(s, Inside) /\ Inside = FALSE
      BY <2>1 DEF IInv, Inside
    <2>3. s.timer = "none"
      BY <2>1, <2>2, Which DEF Open, Whole
    <2>4. UNCHANGED <<s, pc>> \/ DestroyQtAdapter
      <3>1. ~ Command /\ ~ Free /\ ~ SetTimeout
        BY <2>1 DEF Command, Free, SetTimeout
      <3>2. ~ Collect
        <4> SUFFICES ASSUME Collect PROVE FALSE
          OBVIOUS
        <4>1. PICK found : found = got'
          OBVIOUS
        <4>2. found \subseteq s.watch /\ found # {}
          BY <4>1 DEF Collect
        <4> QED BY <4>2, <2>1
      <3>3. ~ TimerFires /\ ~ CallHandler /\ ~ Leave /\ ~ CloseHandle
        BY <2>1, <2>3 DEF TimerFires, CallHandler, Leave, CloseHandle
      <3>4. ~ Single /\ ~ Enter
        BY <2>1 DEF Single, Enter, Delivered
      <3>5. CASE Drop
        BY <3>5 DEF Drop
      <3>6. CASE UNCHANGED vars
        BY <3>6 DEF vars
      <3> QED BY <3>1, <3>2, <3>3, <3>4, <3>5, <3>6 DEF Next, Loop
    <2>5. CASE UNCHANGED <<s, pc>>
      BY <2>5 DEF Gone
    <2>6. CASE DestroyQtAdapter
      <3>1. s \in Record
        BY <2>2, Which
      <3>2. PICK x \in Record : x = s
        BY <3>1
      <3>3. PICK y : y = [x EXCEPT !.data = "freed", !.bad = @ \cup {"context"}]
        OBVIOUS
      <3>4. /\ y.ctx = x.ctx /\ y.kind = x.kind /\ y.closing = x.closing
            /\ y.watch = x.watch /\ y.timer = x.timer /\ y.data = "freed"
        BY <3>2, <3>3 DEF Record
      <3>5. s' = y /\ pc' = pc
        BY <2>6, <3>2, <3>3 DEF DestroyQtAdapter
      <3> QED BY <2>1, <2>3, <3>2, <3>4, <3>5 DEF Gone
    <2> QED BY <2>4, <2>5, <2>6
  <1>2. (Over => Gone) /\ (Gone /\ s.ctx = "freed" /\ ~ Exposed => Over)
    BY DEF Exposed
  <1> HIDE DEF Over
  <1> QED BY <1>1, <1>2, Invariance, PTL DEF Spec

=============================================================================
