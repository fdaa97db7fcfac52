--------------------------- MODULE DisplayProofs ----------------------------
(***************************************************************************)
(* One thread draws at a time, the mouse cursor leaves no ghost, and the   *)
(* shell's shadow never holds a piece of it, on every screen and wherever  *)
(* the clock and the text are.                                             *)
(*                                                                         *)
(* The invariant is IInv.  OneDraws needs to know what each thread is      *)
(* drawing (Doing: a drawing that is over goes on outside the lock).       *)
(* NoGhosts speaks of the moments nobody draws; between them, what is      *)
(* true all the time is that erasing the cursor gives the canvas (Erases), *)
(* even while the game draws over the cursor, except from the first        *)
(* deferred drawing to the presenting one (Stale).                         *)
(***************************************************************************)
EXTENDS Display, TLAPS

Drawings == {"acquire", "hide", "draw", "read x", "read y", "clean", "release"}

JobsOf(t) ==
  IF t = "boot" THEN {"isr"} ELSE IF t = "ui" THEN {"clock"}
  ELSE Writes \cup Bare \cup Snapshots
         \cup {"blink", "hide text", "show text", "clear", "present"}

(* A thread has a job, of its own, exactly from fb_acquire to fb_release.  *)
Doing ==
  \A t \in Threads :
    /\ job[t] \in IF pc[t] \in Drawings THEN JobsOf(t) ELSE {"none"}
    /\ job[t] \in Bare => pc[t] \in {"acquire", "draw", "release"}

(* Before the first tick only kernel_main has run, and after it never      *)
(* runs; it writes "13 idle" before there is a cursor.                     *)
BootFirst ==
  /\ ~started => pc["shell"] = "start" /\ pc["ui"] = "loop"
  /\ started => pc["boot"] \in {"lost", "lost holding"}
  /\ pc["boot"] = "start" => cursor = NoCursor

(* Who draws with the cursor hidden really has it hidden, and who reads    *)
(* mouse.y has read mouse.x.                                               *)
Hidden ==
  \A t \in Threads :
    /\ pc[t] \in {"draw", "read x", "read y"} /\ job[t] \notin Bare => cursor = NoCursor
    /\ pc[t] = "read y" => read \in Cells

(* Only the drawn cursor looks like one, and it was not drawn over one.    *)
OneCursor ==
  /\ \A p \in Cells : fb[p] = "cursor" => cursor # NoCursor /\ cursor.at = p
  /\ cursor # NoCursor => cursor.saved # "cursor"

(* From the first deferred drawing until the shell has copied its shadow.  *)
Stale ==
  \/ deferred
  \/ job["shell"] = "present" /\ pc["shell"] \in {"acquire", "hide", "draw"}

(* Erasing the cursor gives the canvas; nobody but the game draws over it. *)
Erases ==
  ~Stale =>
    /\ Erased(fb) = canvas
    /\ cursor # NoCursor /\ ~overdrawn => fb[cursor.at] = "cursor"

HasShadow == job["shell"] = "present" => shadow # NoShadow

IInv ==
  /\ TypeOK /\ OneDraws /\ Doing /\ BootFirst /\ Hidden
  /\ OneCursor /\ ShadowIsClean /\ Erases /\ HasShadow
-----------------------------------------------------------------------------
Places == Holding \cup {"start", "loop", "hlt", "halted", "acquire", "look", "drawn",
            "greeted", "show", "poll", "key", "enter", "ensured", "command", "game",
            "game over", "lost"}

Jobs == Writes \cup Bare \cup Snapshots \cup
          {"none", "clock", "isr", "blink", "hide text", "show text", "clear", "present"}

(* A screen is not the empty sequence that stands for having none.         *)
LEMMA ScreenIsShadow ==
  ASSUME NEW s \in Screens
  PROVE  s # NoShadow
<1>1. DOMAIN s = Cells /\ ClockCell \in Cells
  BY DisplayAssumption DEF Screens
<1>2. DOMAIN NoShadow = {}
  BY DEF NoShadow
<1>3. QED
  BY <1>1, <1>2

(* Nor is what cursor_draw keeps, nor a position.                          *)
LEMMA CursorIsSome ==
  ASSUME NEW c \in [at : Cells, saved : Pixels]
  PROVE  c # NoCursor
<1>1. DOMAIN c = {"at", "saved"}
  OBVIOUS
<1>2. DOMAIN NoCursor = {}
  BY DEF NoCursor
<1>3. QED
  BY <1>1, <1>2

(* A drawing makes a screen of a screen, and draws no cursor on it.        *)
LEMMA DrawnIsClean ==
  ASSUME NEW j \in Jobs \ {"none"}, NEW s \in Screens, NEW c \in {"black", "ink"},
         j = "present" => shadow \in Screens
  PROVE  /\ Drawn(j, s, c) \in Screens
         /\ \A p \in Cells : \/ Drawn(j, s, c)[p] # "cursor"
                             \/ j # "present" /\ s[p] = "cursor"
                             \/ j = "present" /\ shadow[p] = "cursor"
<1> USE DisplayAssumption
<1>1. CASE j = "clock"
  BY <1>1 DEF Drawn, Screens, Pixels
<1>2. CASE j \in Writes \cup {"isr", "blink", "hide text", "show text"}
  <2>1. Drawn(j, s, c) = [s EXCEPT ![TextCell] = c]
    BY <1>2 DEF Drawn, Writes, Snapshots
  <2>2. QED
    BY <1>2, <2>1 DEF Screens, Pixels, Writes
<1>3. CASE j \in {"clear", "wipe"}
  <2>1. Drawn(j, s, c) = Blank
    BY <1>3 DEF Drawn, Writes, Snapshots
  <2>2. QED
    BY <1>3, <2>1 DEF Blank, Screens, Pixels
<1>4. CASE j = "frame"
  <2>1. Drawn(j, s, c) = [p \in Cells |-> c]
    BY <1>4 DEF Drawn, Writes, Snapshots
  <2>2. QED
    BY <1>4, <2>1 DEF Screens, Pixels
<1>5. CASE j = "present"
  <2>1. Drawn(j, s, c) = shadow
    BY <1>5 DEF Drawn, Writes, Snapshots
  <2>2. QED
    BY <1>5, <2>1
<1>6. CASE j \in Snapshots
  <2>1. Drawn(j, s, c) = s
    BY <1>6 DEF Drawn, Writes, Snapshots
  <2>2. QED
    BY <1>6, <2>1 DEF Snapshots
<1>7. QED
  BY <1>1, <1>2, <1>3, <1>4, <1>5, <1>6 DEF Jobs, Writes, Bare, Snapshots

(* What is under the cursor is a pixel, so erasing it gives a screen.      *)
LEMMA ErasedScreen ==
  ASSUME TypeOK, NEW s \in Screens
  PROVE  Erased(s) \in Screens
<1>1. CASE cursor = NoCursor
  BY <1>1 DEF Erased
<1>2. CASE cursor # NoCursor
  <2>1. cursor \in [at : Cells, saved : Pixels]
    BY <1>2 DEF TypeOK
  <2>2. cursor.saved \in Pixels
    BY <2>1
  <2>3. QED
    BY <1>2, <2>2 DEF Erased, Screens
<1>3. QED
  BY <1>1, <1>2
-----------------------------------------------------------------------------
(* A step outside the lock: a thread that is not drawing goes somewhere    *)
(* else it is not drawing, or begins to, and touches nothing on the        *)
(* screen.  A batch ends only with its presenting drawing.                 *)
LEMMA QuietStep ==
  ASSUME IInv, NEW t \in Threads, Running = t,
         pc[t] \notin Drawings, pc[t] # "lost holding",
         NEW p \in Places \ (Holding \cup {"start", "lost"}),
         NEW j \in Jobs, j \in IF p = "acquire" THEN JobsOf(t) ELSE {"none"},
         pc' = [pc EXCEPT ![t] = p], job' = [job EXCEPT ![t] = j],
         j = "present" => shadow # NoShadow,
         UNCHANGED <<sched, lock, pointer, cursor, read, picture, overdrawn>>,
         deferred' \in BOOLEAN, deferred' => shadow # NoShadow,
         deferred /\ ~deferred' => j = "present",
         hcr' \in BOOLEAN, clock' \in [fresh : BOOLEAN, needed : BOOLEAN]
  PROVE  IInv'
<1> USE DEF sched, pointer, picture
<1>1. /\ pc \in [Threads -> Places] /\ job \in [Threads -> Jobs]
      /\ "shell" \in Threads /\ "ui" \in Threads /\ "boot" \in Threads
      /\ Drawings \cap Holding = Drawings \ {"acquire"}
      /\ Holding = (Drawings \ {"acquire"}) \cup {"lost holding"}
  BY DEF IInv, TypeOK, Places, Jobs, Threads, Tasks, Drawings, Holding
<1>2. \A u \in Threads : /\ pc'[u] = IF u = t THEN p ELSE pc[u]
                         /\ job'[u] = IF u = t THEN j ELSE job[u]
  BY <1>1
<1>3. TypeOK'
  BY <1>1 DEF IInv, TypeOK, Places, Jobs
<1>4. OneDraws'
  <2>1. \A u \in Threads : pc'[u] \in Holding <=> pc[u] \in Holding
    BY <1>1, <1>2
  <2>2. OneDraws
    BY DEF IInv
  <2>3. QED
    BY <2>1, <2>2 DEF OneDraws
<1>5. Doing'
  <2>1. p \in Drawings <=> p = "acquire"
    BY <1>1 DEF Drawings
  <2>2. j \in Bare => p = "acquire"
    BY DEF Bare
  <2>3. Doing
    BY DEF IInv
  <2> SUFFICES ASSUME NEW u \in Threads
               PROVE  /\ job'[u] \in IF pc'[u] \in Drawings THEN JobsOf(u) ELSE {"none"}
                      /\ job'[u] \in Bare => pc'[u] \in {"acquire", "draw", "release"}
    BY DEF Doing
  <2>4. CASE u = t
    <3>1. pc'[u] = p /\ job'[u] = j
      BY <1>2, <2>4
    <3>2. CASE p = "acquire"
      BY <2>1, <2>4, <3>1, <3>2
    <3>3. CASE p # "acquire"
      <4>1. j = "none" /\ p \notin Drawings
        BY <2>1, <3>3
      <4>2. QED
        BY <2>2, <3>1, <3>3, <4>1
    <3>4. QED
      BY <3>2, <3>3
  <2>5. CASE u # t
    BY <1>2, <2>3, <2>5, ZenonT(40) DEF Doing
  <2>6. QED
    BY <2>4, <2>5
<1>6. BootFirst'
  <2>1. /\ BootFirst /\ started \in BOOLEAN /\ current \in Tasks
        /\ started' = started /\ cursor' = cursor
    BY DEF IInv, TypeOK
  <2>2. pc'["boot"] = "start" => cursor' = NoCursor
    BY <1>1, <1>2, <2>1 DEF BootFirst
  <2>3. CASE started = TRUE
    <3>1. t \in Tasks /\ "boot" \notin Tasks
      BY <2>1, <2>3 DEF Running, Tasks
    <3>2. pc'["boot"] = pc["boot"]
      BY <1>1, <1>2, <3>1
    <3>3. QED
      BY <2>1, <2>2, <2>3, <3>2 DEF BootFirst
  <2>4. CASE started = FALSE
    <3>1. t = "boot"
      BY <2>4 DEF Running
    <3>2. pc'["shell"] = pc["shell"] /\ pc'["ui"] = pc["ui"]
      BY <1>1, <1>2, <3>1
    <3>3. QED
      BY <2>1, <2>2, <2>4, <3>2 DEF BootFirst
  <2>5. QED
    BY <2>1, <2>3, <2>4
<1>7. Hidden'
  <2>1. p \notin {"draw", "read x", "read y"}
    BY DEF Holding
  <2>2. QED
    BY <1>2, <2>1 DEF IInv, Hidden
<1>8. OneCursor' /\ ShadowIsClean'
  BY DEF IInv, OneCursor, ShadowIsClean
<1>9. Erases'
  <2>1. Stale => Stale'
    <3>1. CASE deferred /\ ~deferred'
      <4>1. j = "present"
        BY <3>1
      <4>2. t = "shell" /\ p = "acquire"
        BY <4>1 DEF JobsOf, Threads, Tasks
      <4>3. QED
        BY <1>1, <1>2, <4>1, <4>2 DEF Stale
    <3>2. CASE deferred'
      BY <3>2 DEF Stale
    <3>3. CASE ~deferred
      <4>1. CASE t = "shell"
        BY <3>3, <4>1 DEF Stale, Drawings
      <4>2. CASE t # "shell"
        BY <1>1, <1>2, <3>3, <4>2 DEF Stale
      <4>3. QED
        BY <4>1, <4>2
    <3>4. QED
      BY <3>1, <3>2, <3>3
  <2>2. Erased(fb)' = Erased(fb)
    BY DEF Erased
  <2>3. QED
    BY <2>1, <2>2 DEF IInv, Erases
<1>10. HasShadow'
  BY <1>1, <1>2 DEF IInv, HasShadow
<1>11. QED
  BY <1>3, <1>4, <1>5, <1>6, <1>7, <1>8, <1>9, <1>10 DEF IInv

(* The thread that draws goes on drawing: nobody else does, and what only  *)
(* depends on where the threads are holds again.                           *)
LEMMA DrawingStep ==
  ASSUME IInv, NEW t \in Threads, pc[t] \in Drawings \ {"acquire"},
         NEW p \in Drawings \ {"acquire"}, job[t] \in Bare => p \in {"draw", "release"},
         pc' = [pc EXCEPT ![t] = p], job' = job, lock' = lock, started' = started,
         cursor' = NoCursor \/ pc["boot"] # "start" \/ cursor' = cursor
  PROVE  /\ pc' \in [Threads -> Places] /\ pc'[t] = p
         /\ \A u \in Threads \ {t} : pc'[u] = pc[u] /\ pc[u] \notin Holding
         /\ OneDraws' /\ Doing' /\ BootFirst'
<1>1. /\ pc \in [Threads -> Places] /\ job \in [Threads -> Jobs]
      /\ "shell" \in Threads /\ "ui" \in Threads /\ "boot" \in Threads
      /\ Holding = (Drawings \ {"acquire"}) \cup {"lost holding"}
      /\ Holding \subseteq Places
      /\ {"start", "loop", "lost", "lost holding"} \cap Drawings = {}
      /\ "start" \notin Holding
  BY DEF IInv, TypeOK, Places, Jobs, Threads, Tasks, Drawings, Holding
<1>2. \A u \in Threads : pc'[u] = IF u = t THEN p ELSE pc[u]
  BY <1>1
<1>3. \A u \in Threads \ {t} : pc[u] \notin Holding
  BY <1>1 DEF IInv, OneDraws
<1>4. \A u \in Threads : pc'[u] \in Holding <=> pc[u] \in Holding
  BY <1>1, <1>2
<1>5. OneDraws'
  BY <1>4 DEF IInv, OneDraws
<1>6. Doing'
  <2>1. Doing
    BY DEF IInv
  <2> SUFFICES ASSUME NEW u \in Threads
               PROVE  /\ job[u] \in IF pc'[u] \in Drawings THEN JobsOf(u) ELSE {"none"}
                      /\ job[u] \in Bare => pc'[u] \in {"acquire", "draw", "release"}
    BY DEF Doing
  <2>2. CASE u = t
    BY <1>2, <2>1, <2>2 DEF Doing
  <2>3. CASE u # t
    BY <1>2, <2>1, <2>3 DEF Doing
  <2>4. QED
    BY <2>2, <2>3
<1>7. BootFirst'
  BY <1>1, <1>2 DEF IInv, BootFirst
<1>8. QED
  BY <1>1, <1>2, <1>3, <1>5, <1>6, <1>7
-----------------------------------------------------------------------------
(* The interrupts.                                                         *)
LEMMA WokenPlaces ==
  ASSUME IInv
  PROVE  /\ Running \in Threads /\ Woken \in [Threads -> Places]
         /\ \A t \in Threads : \/ Woken[t] = pc[t]
                               \/ /\ t = Running /\ pc[t] = "halted"
                                  /\ Woken[t] = "loop"
<1>1. pc \in [Threads -> Places] /\ Running \in Threads /\ "loop" \in Places
  BY DEF IInv, TypeOK, Places, Running, Threads, Tasks
<1>2. QED
  BY <1>1 DEF Woken

(* An interrupt that ends a hlt changes where the threads are, and nothing *)
(* that the rest of the invariant tells apart.                             *)
LEMMA WakingStep ==
  ASSUME IInv, pc' = Woken, mouse' \in Cells, dirty' \in BOOLEAN, current' \in Tasks,
         clock' \in [fresh : BOOLEAN, needed : BOOLEAN],
         UNCHANGED <<started, job, lock, cursor, read, picture, shell>>
  PROVE  IInv'
<1> USE DEF picture, shell
<1>1. /\ "shell" \in Threads /\ "ui" \in Threads /\ "boot" \in Threads
      /\ {"halted", "loop"} \cap (Holding \cup Drawings) = {}
  BY DEF Threads, Tasks, Drawings, Holding
<1>2. pc' \in [Threads -> Places] /\ Running \in Threads
  BY WokenPlaces
<1>3. \A t \in Threads : \/ pc'[t] = pc[t]
                         \/ t = Running /\ pc[t] = "halted" /\ pc'[t] = "loop"
  BY WokenPlaces
<1>4. TypeOK'
  BY <1>2 DEF IInv, TypeOK, Places
<1>5. OneDraws'
  <2>1. \A u \in Threads : pc'[u] \in Holding <=> pc[u] \in Holding
    BY <1>1, <1>3
  <2>2. QED
    BY <2>1 DEF IInv, OneDraws
<1>6. Doing'
  <2>1. \A u \in Threads : pc'[u] \in Drawings <=> pc[u] \in Drawings
    BY <1>1, <1>3
  <2>2. \A u \in Threads : pc[u] \in Drawings => pc'[u] = pc[u]
    BY <1>1, <1>3
  <2>3. {"acquire", "draw", "release"} \subseteq Drawings
    BY DEF Drawings
  <2>4. QED
    BY <2>1, <2>2, <2>3 DEF IInv, Doing
<1>7. BootFirst'
  BY <1>1, <1>3 DEF IInv, BootFirst, Running
<1>8. Hidden'
  BY <1>1, <1>3 DEF IInv, Hidden
<1>9. OneCursor' /\ ShadowIsClean' /\ HasShadow'
  BY DEF IInv, OneCursor, ShadowIsClean, HasShadow
<1>10. Erases'
  <2>1. Stale' <=> Stale
    BY <1>1, <1>3 DEF Stale
  <2>2. Erased(fb)' = Erased(fb)
    BY DEF Erased
  <2>3. QED
    BY <2>1, <2>2 DEF IInv, Erases
<1>11. QED
  BY <1>4, <1>5, <1>6, <1>7, <1>8, <1>9, <1>10 DEF IInv

LEMMA MousePreserves ==
  ASSUME IInv, MouseMoves
  PROVE  IInv'
<1>1. current' \in Tasks /\ clock' \in [fresh : BOOLEAN, needed : BOOLEAN]
  BY DEF MouseMoves, sched, IInv, TypeOK
<1>2. QED
  BY <1>1, WakingStep DEF MouseMoves, sched

(* The first tick leaves kernel_main where it is for good, with the lock   *)
(* if it had it.                                                           *)
LEMMA TickPreserves ==
  ASSUME IInv, Tick
  PROVE  IInv'
<1> USE DEF pointer, picture, shell
<1>1. /\ current \in Tasks /\ NextTask(current) \in Tasks
      /\ clock' \in [fresh : BOOLEAN, needed : BOOLEAN]
  BY DEF Tick, NextTask, Tasks, IInv, TypeOK
<1>2. CASE started
  <2>1. /\ mouse' \in Cells /\ dirty' \in BOOLEAN
    BY DEF Tick, IInv, TypeOK
  <2>2. QED
    BY <1>1, <1>2, <2>1, WakingStep DEF Tick
<1>3. CASE ~started
  <2>1. /\ pc \in [Threads -> Places] /\ job \in [Threads -> Jobs]
        /\ "shell" \in Threads /\ "ui" \in Threads /\ "boot" \in Threads
        /\ Threads = {"shell", "ui", "boot"}
        /\ Holding = (Drawings \ {"acquire"}) \cup {"lost holding"}
        /\ "lost holding" \notin Drawings /\ "lost" \notin Holding \cup Drawings
        /\ {"start", "loop"} \cap (Holding \cup Drawings) = {}
    BY DEF IInv, TypeOK, Places, Jobs, Threads, Tasks, Drawings, Holding
  <2>2. /\ pc' = [pc EXCEPT !["boot"] = IF @ \in Holding THEN "lost holding" ELSE "lost"]
        /\ job' = [job EXCEPT !["boot"] = "none"] /\ read' = NoPosition
        /\ started' = TRUE /\ current' = NextTask(current)
        /\ UNCHANGED <<lock, mouse, dirty, cursor, fb, canvas, shadow, deferred, hcr, overdrawn>>
    BY <1>3 DEF Tick
  <2>3. pc["shell"] = "start" /\ pc["ui"] = "loop"
    BY <1>3 DEF IInv, BootFirst
  <2>4. /\ pc'["shell"] = "start" /\ pc'["ui"] = "loop"
        /\ pc'["boot"] = IF pc["boot"] \in Holding THEN "lost holding" ELSE "lost"
        /\ job'["shell"] = job["shell"] /\ job'["ui"] = job["ui"] /\ job'["boot"] = "none"
    BY <2>1, <2>2, <2>3
  <2>5. TypeOK'
    <3>1. /\ pc' \in [Threads -> Places] /\ job' \in [Threads -> Jobs]
      BY <2>1, <2>2 DEF Places, Jobs, Holding
    <3>2. QED
      BY <1>1, <2>2, <3>1 DEF IInv, TypeOK, Places, Jobs
  <2>6. OneDraws'
    <3>1. \A u \in Threads : pc'[u] \in Holding <=> pc[u] \in Holding
      BY <2>1, <2>3, <2>4
    <3>2. QED
      BY <2>2, <3>1 DEF IInv, OneDraws
  <2>7. Doing'
    <3>1. job["shell"] = "none" /\ job["ui"] = "none"
      BY <2>1, <2>3 DEF IInv, Doing
    <3>2. "none" \notin Bare
      BY DEF Bare
    <3>3. QED
      BY <2>1, <2>4, <3>1, <3>2 DEF Doing
  <2>8. BootFirst'
    <3>1. pc'["boot"] # "start" /\ pc'["boot"] \in {"lost", "lost holding"}
      BY <2>4
    <3>2. QED
      BY <2>2, <3>1 DEF BootFirst
  <2>9. Hidden'
    BY <2>1, <2>4 DEF Hidden
  <2>10. OneCursor' /\ ShadowIsClean' /\ HasShadow'
    BY <2>2, <2>4 DEF IInv, OneCursor, ShadowIsClean, HasShadow
  <2>11. Erases'
    <3>1. Stale' <=> Stale
      BY <2>2, <2>3, <2>4 DEF Stale
    <3>2. Erased(fb)' = Erased(fb)
      BY <2>2 DEF Erased
    <3>3. QED
      BY <2>2, <3>1, <3>2 DEF IInv, Erases
  <2>12. QED
    BY <2>5, <2>6, <2>7, <2>8, <2>9, <2>10, <2>11 DEF IInv
<1>4. QED
  BY <1>2, <1>3
-----------------------------------------------------------------------------
(* The steps of a drawing, between fb_acquire and fb_release.              *)
LEMMA AcquirePreserves ==
  ASSUME IInv, NEW t \in Threads, Acquire(t)
  PROVE  IInv'
<1> USE DEF sched, pointer, picture, shell
<1> DEFINE p == IF job[t] \in Bare THEN "draw" ELSE "hide"
<1>1. /\ pc \in [Threads -> Places] /\ job \in [Threads -> Jobs] /\ "shell" \in Threads
      /\ "ui" \in Threads /\ "boot" \in Threads
      /\ p \in Places /\ p \in Holding /\ p \in Drawings /\ p # "start"
      /\ "acquire" \in Drawings /\ "acquire" \notin Holding
  BY DEF IInv, TypeOK, Places, Jobs, Threads, Tasks, Drawings, Holding
<1>2. /\ pc[t] = "acquire" /\ ~lock /\ lock' = TRUE /\ pc' = [pc EXCEPT ![t] = p]
      /\ UNCHANGED <<started, current, job, mouse, dirty, cursor, read, fb, canvas, shadow,
                     deferred, hcr, overdrawn, clock>>
  BY DEF Acquire, Goto, Free
<1>3. \A u \in Threads : pc'[u] = IF u = t THEN p ELSE pc[u]
  BY <1>1, <1>2
<1>4. \A u \in Threads : pc[u] \notin Holding
  BY <1>2 DEF IInv, OneDraws
<1>5. TypeOK'
  BY <1>1, <1>2 DEF IInv, TypeOK, Places, Jobs
<1>6. OneDraws'
  BY <1>1, <1>2, <1>3, <1>4 DEF OneDraws
<1>7. Doing'
  <2>1. Doing
    BY DEF IInv
  <2>2. ASSUME NEW u \in Threads
        PROVE  /\ job[u] \in IF pc'[u] \in Drawings THEN JobsOf(u) ELSE {"none"}
               /\ job[u] \in Bare => pc'[u] \in {"acquire", "draw", "release"}
    BY <1>1, <1>2, <1>3, <2>1 DEF Doing
  <2>3. QED
    BY <1>2, <2>2 DEF Doing
<1>8. BootFirst'
  BY <1>1, <1>2, <1>3 DEF IInv, BootFirst
<1>9. Hidden'
  <2>1. Hidden
    BY DEF IInv
  <2>2. ASSUME NEW u \in Threads
        PROVE  /\ pc'[u] \in {"draw", "read x", "read y"} /\ job[u] \notin Bare
                    => cursor = NoCursor
               /\ pc'[u] = "read y" => read \in Cells
    BY <1>3, <2>1 DEF Hidden
  <2>3. QED
    BY <1>2, <2>2 DEF Hidden
<1>10. OneCursor' /\ ShadowIsClean' /\ HasShadow'
  BY <1>2 DEF IInv, OneCursor, ShadowIsClean, HasShadow
<1>11. Erases'
  <2>1. "present" \notin Bare
    BY DEF Bare
  <2>2. Stale' <=> Stale
    BY <1>1, <1>2, <1>3, <2>1 DEF Stale
  <2>3. Erased(fb)' = Erased(fb)
    BY <1>2 DEF Erased
  <2>4. QED
    BY <1>2, <2>2, <2>3 DEF IInv, Erases
<1>12. QED
  BY <1>5, <1>6, <1>7, <1>8, <1>9, <1>10, <1>11 DEF IInv

(* What is known of the cursor and of the pixels under it.                 *)
LEMMA CursorTyped ==
  ASSUME IInv
  PROVE  /\ cursor # NoCursor => cursor.at \in Cells /\ cursor.saved \in {"black", "ink"}
         /\ Erased(fb) \in Screens
         /\ \A p \in Cells : Erased(fb)[p] # "cursor"
<1>1. /\ TypeOK /\ OneCursor /\ fb \in Screens
  BY DEF IInv, TypeOK
<1>2. Erased(fb) \in Screens
  BY <1>1, ErasedScreen
<1>3. ASSUME cursor # NoCursor
      PROVE  cursor.at \in Cells /\ cursor.saved \in {"black", "ink"}
  <2>1. cursor \in [at : Cells, saved : Pixels]
    BY <1>1, <1>3 DEF TypeOK
  <2>2. QED
    BY <1>1, <1>3, <2>1 DEF OneCursor, Pixels
<1>4. CASE cursor = NoCursor
  BY <1>1, <1>2, <1>4 DEF Erased, OneCursor
<1>5. CASE cursor # NoCursor
  <2>1. Erased(fb) = [fb EXCEPT ![cursor.at] = cursor.saved]
    BY <1>5 DEF Erased
  <2>2. \A p \in Cells : Erased(fb)[p] = IF p = cursor.at THEN cursor.saved ELSE fb[p]
    BY <1>1, <2>1 DEF Screens
  <2>3. \A p \in Cells : Erased(fb)[p] # "cursor"
    BY <1>1, <1>3, <1>5, <2>2 DEF OneCursor
  <2>4. QED
    BY <1>2, <1>3, <1>5, <2>3
<1>6. QED
  BY <1>4, <1>5

LEMMA HidePreserves ==
  ASSUME IInv, NEW t \in Threads, Hide(t)
  PROVE  IInv'
<1> USE DEF sched, pointer, picture, shell
<1>1. /\ pc[t] = "hide" /\ fb' = Erased(fb) /\ cursor' = NoCursor /\ overdrawn' = FALSE
      /\ pc' = [pc EXCEPT ![t] = "draw"]
      /\ UNCHANGED <<started, current, job, lock, mouse, dirty, read, canvas, shadow,
                     deferred, hcr, clock>>
  BY DEF Hide, Goto
<1>2. /\ pc' \in [Threads -> Places] /\ pc'[t] = "draw"
      /\ \A u \in Threads \ {t} : pc'[u] = pc[u] /\ pc[u] \notin Holding
      /\ OneDraws' /\ Doing' /\ BootFirst'
  <2>1. pc[t] \in Drawings \ {"acquire"} /\ "draw" \in Drawings \ {"acquire"}
    BY <1>1 DEF Drawings
  <2>2. QED
    BY <1>1, <2>1, DrawingStep
<1>3. fb' \in Screens /\ \A p \in Cells : fb'[p] # "cursor"
  BY <1>1, CursorTyped
<1>4. TypeOK'
  BY <1>1, <1>2, <1>3 DEF IInv, TypeOK, Places
<1>5. Hidden'
  <2>1. \A u \in Threads : pc'[u] # "read y"
    BY <1>2 DEF Holding
  <2>2. QED
    BY <1>1, <2>1 DEF Hidden
<1>6. OneCursor' /\ ShadowIsClean' /\ HasShadow'
  BY <1>1, <1>3 DEF IInv, OneCursor, ShadowIsClean, HasShadow
<1>7. Erases'
  <2>1. Stale => Stale'
    <3>1. pc["shell"] \in Holding => pc'["shell"] = "draw" /\ t = "shell"
      BY <1>2 DEF Threads, Tasks
    <3>2. QED
      BY <1>1, <1>2, <3>1 DEF Stale, Threads, Tasks, Holding
  <2>2. Erased(fb)' = Erased(fb)
    BY <1>1 DEF Erased
  <2>3. QED
    BY <1>1, <2>1, <2>2 DEF IInv, Erases
<1>8. QED
  BY <1>2, <1>4, <1>5, <1>6, <1>7 DEF IInv

LEMMA ReadXPreserves ==
  ASSUME IInv, NEW t \in Threads, ReadX(t)
  PROVE  IInv'
<1> USE DEF sched, pointer, picture, shell
<1>1. /\ pc[t] = "read x" /\ read' = mouse /\ pc' = [pc EXCEPT ![t] = "read y"]
      /\ UNCHANGED <<started, current, job, lock, mouse, dirty, cursor, fb, canvas, shadow,
                     deferred, hcr, overdrawn, clock>>
  BY DEF ReadX, Goto
<1>2. job[t] \notin Bare
  BY <1>1 DEF IInv, Doing
<1>3. /\ pc' \in [Threads -> Places] /\ pc'[t] = "read y"
      /\ \A u \in Threads \ {t} : pc'[u] = pc[u] /\ pc[u] \notin Holding
      /\ OneDraws' /\ Doing' /\ BootFirst'
  <2>1. pc[t] \in Drawings \ {"acquire"} /\ "read y" \in Drawings \ {"acquire"}
    BY <1>1 DEF Drawings
  <2>2. QED
    BY <1>1, <1>2, <2>1, DrawingStep
<1>4. mouse \in Cells
  BY DEF IInv, TypeOK
<1>5. TypeOK'
  BY <1>1, <1>3, <1>4 DEF IInv, TypeOK, Places
<1>6. Hidden'
  <2>1. cursor' = NoCursor
    BY <1>1, <1>2 DEF IInv, Hidden
  <2>2. QED
    BY <1>1, <1>4, <2>1 DEF Hidden
<1>7. OneCursor' /\ ShadowIsClean' /\ HasShadow'
  BY <1>1 DEF IInv, OneCursor, ShadowIsClean, HasShadow
<1>8. Erases'
  <2>1. Stale => Stale'
    BY <1>1, <1>3 DEF Stale, Threads, Tasks
  <2>2. Erased(fb)' = Erased(fb)
    BY <1>1 DEF Erased
  <2>3. QED
    BY <1>1, <2>1, <2>2 DEF IInv, Erases
<1>9. QED
  BY <1>3, <1>5, <1>6, <1>7, <1>8 DEF IInv

LEMMA CleanPreserves ==
  ASSUME IInv, NEW t \in Threads, Clean(t)
  PROVE  IInv'
<1> USE DEF sched, pointer, picture, shell
<1>1. /\ pc[t] = "clean" /\ dirty' = FALSE /\ pc' = [pc EXCEPT ![t] = "release"]
      /\ UNCHANGED <<started, current, job, lock, mouse, cursor, read, fb, canvas, shadow,
                     deferred, hcr, overdrawn, clock>>
  BY DEF Clean, Goto
<1>2. /\ pc' \in [Threads -> Places] /\ pc'[t] = "release"
      /\ \A u \in Threads \ {t} : pc'[u] = pc[u] /\ pc[u] \notin Holding
      /\ OneDraws' /\ Doing' /\ BootFirst'
  <2>1. pc[t] \in Drawings \ {"acquire"} /\ "release" \in Drawings \ {"acquire"}
    BY <1>1 DEF Drawings
  <2>2. QED
    BY <1>1, <2>1, DrawingStep
<1>3. TypeOK'
  BY <1>1, <1>2 DEF IInv, TypeOK, Places
<1>4. Hidden'
  BY <1>1, <1>2 DEF IInv, Hidden, Holding
<1>5. OneCursor' /\ ShadowIsClean' /\ HasShadow'
  BY <1>1 DEF IInv, OneCursor, ShadowIsClean, HasShadow
<1>6. Erases'
  <2>1. Stale => Stale'
    BY <1>1, <1>2 DEF Stale, Threads, Tasks
  <2>2. Erased(fb)' = Erased(fb)
    BY <1>1 DEF Erased
  <2>3. QED
    BY <1>1, <2>1, <2>2 DEF IInv, Erases
<1>7. QED
  BY <1>2, <1>3, <1>4, <1>5, <1>6 DEF IInv

LEMMA ReadYPreserves ==
  ASSUME IInv, NEW t \in Threads, ReadY(t)
  PROVE  IInv'
<1> USE DEF sched, pointer, picture, shell
<1> DEFINE p == <<read[1], mouse[2]>>
<1>1. /\ pc[t] = "read y" /\ pc' = [pc EXCEPT ![t] = "clean"] /\ read' = NoPosition
      /\ cursor' = [at |-> p, saved |-> fb[p]] /\ fb' = [fb EXCEPT ![p] = "cursor"]
      /\ UNCHANGED <<started, current, job, lock, mouse, dirty, canvas, shadow, deferred,
                     hcr, overdrawn, clock>>
  BY DEF ReadY, Goto, Covered
<1>2. job[t] \notin Bare
  BY <1>1 DEF IInv, Doing
<1>3. cursor = NoCursor /\ p \in Cells
  BY <1>1, <1>2 DEF IInv, Hidden, TypeOK, Cells
<1>4. fb \in Screens /\ fb[p] \in {"black", "ink"}
  BY <1>3 DEF IInv, TypeOK, Screens, Pixels, OneCursor
<1> HIDE DEF p
<1>5. pc["boot"] # "start"
  BY <1>1 DEF IInv, BootFirst, Threads, Tasks
<1>6. /\ pc' \in [Threads -> Places] /\ pc'[t] = "clean"
      /\ \A u \in Threads \ {t} : pc'[u] = pc[u] /\ pc[u] \notin Holding
      /\ OneDraws' /\ Doing' /\ BootFirst'
  <2>1. pc[t] \in Drawings \ {"acquire"} /\ "clean" \in Drawings \ {"acquire"}
    BY <1>1 DEF Drawings
  <2>2. QED
    BY <1>1, <1>2, <1>5, <2>1, DrawingStep
<1>7. /\ cursor' \in [at : Cells, saved : Pixels] /\ cursor' # NoCursor
      /\ cursor'.at = p /\ cursor'.saved = fb[p]
  <2>1. cursor' \in [at : Cells, saved : Pixels]
    BY <1>1, <1>3, <1>4 DEF Pixels
  <2>2. QED
    BY <1>1, <2>1, CursorIsSome
<1>8. fb' \in Screens /\ \A q \in Cells : fb'[q] = IF q = p THEN "cursor" ELSE fb[q]
  BY <1>1, <1>3, <1>4 DEF Screens, Pixels
<1>9. TypeOK'
  BY <1>1, <1>6, <1>7, <1>8 DEF IInv, TypeOK, Places
<1>10. Hidden'
  BY <1>1, <1>6 DEF IInv, Hidden, Holding
<1>11. OneCursor'
  BY <1>3, <1>4, <1>7, <1>8 DEF IInv, OneCursor
<1>12. ShadowIsClean' /\ HasShadow'
  BY <1>1 DEF IInv, ShadowIsClean, HasShadow
<1>13. Erases'
  <2>1. Stale => Stale'
    BY <1>1, <1>6 DEF Stale, Threads, Tasks
  <2>2. Erased(fb)' = fb
    <3>1. Erased(fb)' = [fb' EXCEPT ![p] = fb[p]]
      BY <1>7 DEF Erased
    <3>2. QED
      BY <1>3, <1>4, <1>8, <3>1 DEF Screens
  <2>3. Erased(fb) = fb
    BY <1>3 DEF Erased
  <2>4. fb'[cursor'.at] = "cursor"
    BY <1>3, <1>7, <1>8
  <2>5. QED
    BY <1>1, <2>1, <2>2, <2>3, <2>4 DEF IInv, Erases
<1>14. QED
  BY <1>6, <1>9, <1>10, <1>11, <1>12, <1>13 DEF IInv

(* The shadow, once there, stays, and only clean screens become one.       *)
LEMMA ShadowTyped ==
  ASSUME IInv, NEW j \in Jobs \ {"none"}, NEW c \in {"black", "ink"}, NEW s \in ShadowAfter(j, c),
         j \in Bare \/ cursor = NoCursor, j = "present" => shadow # NoShadow
  PROVE  /\ s \in Screens \cup {NoShadow}
         /\ shadow # NoShadow => s # NoShadow
         /\ s # NoShadow => \A p \in Cells : s[p] # "cursor"
<1>1. /\ fb \in Screens /\ shadow \in Screens \cup {NoShadow}
      /\ ShadowIsClean /\ OneCursor
  BY DEF IInv, TypeOK
<1>2. j = "present" => shadow \in Screens
  BY <1>1
<1>3. CASE shadow = NoShadow
  <2>1. CASE s = NoShadow
    BY <1>3, <2>1
  <2>2. CASE s # NoShadow
    <3>1. s = Drawn(j, fb, c) /\ j \in Snapshots \cup {"newline", "print"}
      BY <1>3, <2>2 DEF ShadowAfter
    <3>2. \A p \in Cells : fb[p] # "cursor"
      BY <1>1, <3>1 DEF Bare, Snapshots, OneCursor
    <3>3. j # "present"
      BY <3>1 DEF Snapshots
    <3>4. QED
      BY <1>1, <1>2, <1>3, <3>1, <3>2, <3>3, DrawnIsClean
  <2>3. QED
    BY <2>1, <2>2
<1>4. CASE shadow # NoShadow
  <2>1. shadow \in Screens /\ \A p \in Cells : shadow[p] # "cursor"
    BY <1>1, <1>4 DEF ShadowIsClean
  <2>2. s = shadow \/ s = Drawn(j, shadow, c)
    BY <1>4 DEF ShadowAfter
  <2>3. Drawn(j, shadow, c) \in Screens /\ \A p \in Cells : Drawn(j, shadow, c)[p] # "cursor"
    BY <1>2, <2>1, DrawnIsClean
  <2>4. s \in Screens /\ \A p \in Cells : s[p] # "cursor"
    BY <2>1, <2>2, <2>3
  <2>5. QED
    BY <1>4, <2>4, ScreenIsShadow
<1>5. QED
  BY <1>3, <1>4

(* The game draws over the cursor: erasing it then gives what was saved,   *)
(* and canvas says so.  Everybody else draws with the cursor erased, the   *)
(* same on the screen and on the canvas.                                   *)
LEMMA DrawPreserves ==
  ASSUME IInv, NEW t \in Threads, Draw(t)
  PROVE  IInv'
<1> USE DEF sched, pointer
<1> DEFINE j == job[t]
           p == AfterDrawing(j)
<1>1. PICK c \in {"black", "ink"} :
        /\ fb' = Drawn(j, fb, c)
        /\ canvas' = IF j \in Bare THEN Erased(fb') ELSE Drawn(j, canvas, c)
        /\ shadow' \in ShadowAfter(j, c)
  BY DEF Draw
<1>2. /\ pc[t] = "draw" /\ pc' = [pc EXCEPT ![t] = p]
      /\ clock' = IF j = "clock" THEN [clock EXCEPT !.needed = FALSE] ELSE clock
      /\ UNCHANGED <<started, current, job, lock, mouse, dirty, cursor, read, deferred, hcr>>
  BY DEF Draw, Goto
<1>3. j \in Jobs \ {"none"} /\ (j = "present" => t = "shell")
  BY <1>2 DEF IInv, Doing, JobsOf, Jobs, Drawings, Writes, Bare, Snapshots, Threads, Tasks
<1>4. /\ j \in Bare \/ cursor = NoCursor
      /\ j = "present" => shadow # NoShadow
      /\ j = "present" => j \notin Bare
  BY <1>2, <1>3 DEF IInv, Hidden, HasShadow, Bare
<1>5. /\ p \in Drawings \ {"acquire"} /\ (j \in Bare => p \in {"draw", "release"})
      /\ p \notin {"acquire", "hide", "draw", "read y"}
      /\ (p = "read x" => j \notin Bare)
  BY DEF AfterDrawing, Drawings
<1>6. /\ pc' \in [Threads -> Places] /\ pc'[t] = p
      /\ \A u \in Threads \ {t} : pc'[u] = pc[u] /\ pc[u] \notin Holding
      /\ OneDraws' /\ Doing' /\ BootFirst'
  <2>1. pc[t] \in Drawings \ {"acquire"}
    BY <1>2 DEF Drawings
  <2> HIDE DEF p
  <2>2. QED
    BY <1>2, <1>5, <2>1, DrawingStep
<1>7. /\ fb \in Screens /\ canvas \in Screens /\ shadow \in Screens \cup {NoShadow}
      /\ clock \in [fresh : BOOLEAN, needed : BOOLEAN]
  BY DEF IInv, TypeOK
<1>8. j = "present" => /\ shadow \in Screens
                       /\ \A q \in Cells : shadow[q] # "cursor"
  BY <1>4, <1>7 DEF IInv, ShadowIsClean
<1> HIDE DEF j, p
<1>9. fb' \in Screens /\ Drawn(j, canvas, c) \in Screens
  BY <1>1, <1>3, <1>7, <1>8, DrawnIsClean
<1>10. /\ shadow' \in Screens \cup {NoShadow} /\ (shadow # NoShadow => shadow' # NoShadow)
       /\ ShadowIsClean'
  <2>1. /\ shadow' \in Screens \cup {NoShadow} /\ (shadow # NoShadow => shadow' # NoShadow)
        /\ shadow' # NoShadow => \A q \in Cells : shadow'[q] # "cursor"
    BY <1>1, <1>3, <1>4, ShadowTyped
  <2>2. QED
    BY <2>1 DEF ShadowIsClean
<1>11. TypeOK'
  <2>1. canvas' \in Screens
    BY <1>1, <1>9, ErasedScreen DEF IInv
  <2>2. clock' \in [fresh : BOOLEAN, needed : BOOLEAN]
    BY <1>2, <1>7
  <2>3. overdrawn' \in BOOLEAN
    BY DEF Draw
  <2>4. /\ started' \in BOOLEAN /\ current' \in Tasks /\ job' \in [Threads -> Jobs]
        /\ lock' \in BOOLEAN /\ mouse' \in Cells /\ dirty' \in BOOLEAN
        /\ cursor' \in [at : Cells, saved : Pixels] \cup {NoCursor}
        /\ read' \in Cells \cup {NoPosition}
        /\ deferred' \in BOOLEAN /\ hcr' \in BOOLEAN
    BY <1>2 DEF IInv, TypeOK, Jobs
  <2>5. deferred' => shadow' # NoShadow
    BY <1>2, <1>10 DEF IInv, TypeOK
  <2>6. QED
    BY <1>6, <1>9, <1>10, <2>1, <2>2, <2>3, <2>4, <2>5 DEF TypeOK, Places, Jobs
<1>12. Hidden'
  <2>1. Hidden
    BY DEF IInv
  <2>2. ASSUME NEW u \in Threads
        PROVE  /\ pc'[u] \in {"draw", "read x", "read y"} /\ job[u] \notin Bare
                    => cursor = NoCursor
               /\ pc'[u] = "read y" => read \in Cells
    BY <1>2, <1>4, <1>5, <1>6, <2>1 DEF Hidden, j
  <2>3. QED
    BY <1>2, <2>2 DEF Hidden
<1>13. OneCursor'
  <2>1. \A q \in Cells : fb'[q] # "cursor"
    <3>1. CASE j \in Bare
      <4>1. Drawn(j, fb, c) = Blank \/ Drawn(j, fb, c) = [q \in Cells |-> c]
        BY <3>1 DEF Drawn, Bare, Writes, Snapshots
      <4>2. QED
        BY <1>1, <4>1 DEF Blank
    <3>2. CASE j \notin Bare
      <4>1. \A q \in Cells : fb[q] # "cursor"
        BY <1>4, <3>2 DEF IInv, OneCursor
      <4>2. QED
        BY <1>1, <1>3, <1>7, <1>8, <4>1, DrawnIsClean
    <3>3. QED
      BY <3>1, <3>2
  <2>2. QED
    BY <1>2, <2>1 DEF IInv, OneCursor
<1>14. HasShadow'
  BY <1>2, <1>10 DEF IInv, HasShadow
<1>15. Erases'
  <2>1. SUFFICES ASSUME ~Stale'
                 PROVE  /\ Erased(fb)' = canvas'
                        /\ cursor' # NoCursor /\ ~overdrawn' => fb'[cursor'.at] = "cursor"
    BY DEF Erases
  <2>2. CASE j \in Bare
    <3>1. Erased(fb)' = Erased(fb')
      BY <1>2 DEF Erased
    <3>2. overdrawn'
      BY <2>2 DEF Draw, j
    <3>3. QED
      BY <1>1, <2>2, <3>1, <3>2
  <2>3. CASE j \notin Bare
    <3>1. cursor' = NoCursor /\ canvas' = Drawn(j, canvas, c)
      BY <1>1, <1>2, <1>4, <2>3
    <3>2. Erased(fb)' = fb' /\ Erased(fb) = fb
      BY <1>2, <3>1 DEF Erased
    <3>3. CASE j = "present"
      <4>1. Drawn(j, canvas, c) = shadow /\ Drawn(j, fb, c) = shadow
        BY <3>3 DEF Drawn, Writes, Snapshots
      <4>2. QED
        BY <1>1, <3>1, <3>2, <4>1
    <3>4. CASE j # "present"
      <4>1. ~Stale
        BY <1>2, <1>6, <2>1, <3>4 DEF Stale, j, Threads, Tasks
      <4>2. fb = canvas
        BY <3>2, <4>1 DEF IInv, Erases
      <4>3. QED
        BY <1>1, <3>1, <3>2, <4>2
    <3>5. QED
      BY <3>3, <3>4
  <2>4. QED
    BY <2>2, <2>3
<1>16. QED
  BY <1>6, <1>10, <1>11, <1>12, <1>13, <1>14, <1>15 DEF IInv

LEMMA ReleasePreserves ==
  ASSUME IInv, NEW t \in Threads, Release(t)
  PROVE  IInv'
<1> USE DEF sched, pointer, picture, shell
<1> DEFINE p == After(job[t])
<1>1. /\ pc[t] = "release" /\ lock' = FALSE /\ pc' = [pc EXCEPT ![t] = p]
      /\ job' = [job EXCEPT ![t] = "none"]
      /\ UNCHANGED <<started, current, mouse, dirty, cursor, read, fb, canvas, shadow,
                     deferred, hcr, overdrawn, clock>>
  BY DEF Release, Goto
<1>2. job[t] \in Jobs \ {"none"}
  BY <1>1 DEF IInv, Doing, JobsOf, Jobs, Drawings, Writes, Bare, Snapshots, Threads, Tasks
<1>3. p \in Places \ (Holding \cup Drawings \cup {"start"})
  BY <1>2 DEF After, Jobs, Places, Holding, Drawings, Writes, Bare, Snapshots
<1>4. /\ pc \in [Threads -> Places] /\ job \in [Threads -> Jobs] /\ "shell" \in Threads
      /\ "ui" \in Threads /\ "boot" \in Threads
      /\ {"release"} \subseteq Holding \cap Drawings
  BY DEF IInv, TypeOK, Places, Jobs, Threads, Tasks, Drawings, Holding
<1> HIDE DEF p
<1>5. \A u \in Threads : /\ pc'[u] = IF u = t THEN p ELSE pc[u]
                         /\ job'[u] = IF u = t THEN "none" ELSE job[u]
  BY <1>1, <1>4
<1>6. \A u \in Threads : pc'[u] \notin Holding
  <2>1. \A u \in Threads \ {t} : pc[u] \notin Holding
    BY <1>1, <1>4 DEF IInv, OneDraws
  <2>2. QED
    BY <1>3, <1>5, <2>1
<1>7. TypeOK'
  <2>1. pc' \in [Threads -> Places] /\ job' \in [Threads -> Jobs]
    BY <1>1, <1>3, <1>4 DEF Jobs
  <2>2. QED
    BY <1>1, <2>1 DEF IInv, TypeOK, Places, Jobs
<1>8. OneDraws'
  BY <1>1, <1>6 DEF OneDraws
<1>9. Doing'
  <2>1. Doing /\ "none" \notin Bare
    BY DEF IInv, Bare
  <2>2. ASSUME NEW u \in Threads
        PROVE  /\ job'[u] \in IF pc'[u] \in Drawings THEN JobsOf(u) ELSE {"none"}
               /\ job'[u] \in Bare => pc'[u] \in {"acquire", "draw", "release"}
    BY <1>3, <1>5, <2>1 DEF Doing
  <2>3. QED
    BY <2>2 DEF Doing
<1>10. BootFirst'
  <2>1. BootFirst /\ p # "start" /\ pc[t] \notin {"start", "loop", "lost", "lost holding"}
    BY <1>1, <1>3 DEF IInv
  <2>2. QED
    BY <1>1, <1>4, <1>5, <2>1 DEF BootFirst
<1>11. Hidden'
  BY <1>6 DEF Hidden, Holding
<1>12. OneCursor' /\ ShadowIsClean' /\ HasShadow'
  BY <1>1, <1>4, <1>5 DEF IInv, OneCursor, ShadowIsClean, HasShadow
<1>13. Erases'
  <2>1. Stale => Stale'
    BY <1>1, <1>4, <1>5 DEF Stale
  <2>2. Erased(fb)' = Erased(fb)
    BY <1>1 DEF Erased
  <2>3. QED
    BY <1>1, <2>1, <2>2 DEF IInv, Erases
<1>14. QED
  BY <1>7, <1>8, <1>9, <1>10, <1>11, <1>12, <1>13 DEF IInv
-----------------------------------------------------------------------------
(* The steps outside the lock.  kernel_main writes to the screen before    *)
(* there is a cursor on it, and cmd_clear clears it during a batch.        *)
LEMMA BootStartPreserves ==
  ASSUME IInv, Running = "boot", BootStart
  PROVE  IInv'
<1> USE DEF sched, pointer, shell
<1>1. /\ pc["boot"] = "start" /\ pc' = [pc EXCEPT !["boot"] = "loop"]
      /\ fb' = [fb EXCEPT ![TextCell] = "ink"] /\ canvas' = [canvas EXCEPT ![TextCell] = "ink"]
      /\ UNCHANGED <<started, current, job, lock, mouse, dirty, cursor, read, shadow,
                     deferred, hcr, overdrawn, clock>>
  BY DEF BootStart, Goto
<1>2. /\ pc \in [Threads -> Places] /\ job \in [Threads -> Jobs]
      /\ "shell" \in Threads /\ "ui" \in Threads /\ "boot" \in Threads
      /\ {"start", "loop"} \cap (Holding \cup Drawings) = {}
  BY DEF IInv, TypeOK, Places, Jobs, Threads, Tasks, Drawings, Holding
<1>3. \A u \in Threads : pc'[u] = IF u = "boot" THEN "loop" ELSE pc[u]
  BY <1>1, <1>2
<1>4. cursor = NoCursor /\ started = FALSE
  BY <1>1 DEF IInv, TypeOK, BootFirst, Running, Tasks
<1>5. /\ fb \in Screens /\ canvas \in Screens /\ TextCell \in Cells
  BY DisplayAssumption DEF IInv, TypeOK
<1>6. TypeOK'
  <2>1. fb' \in Screens /\ canvas' \in Screens
    BY <1>1, <1>5 DEF Screens, Pixels
  <2>2. pc' \in [Threads -> Places]
    BY <1>1, <1>2 DEF Places
  <2>3. QED
    <3>1. TypeOK
      BY DEF IInv
    <3>2. QED
      BY <1>1, <2>1, <2>2, <3>1, ZenonT(40) DEF TypeOK, Places
<1>7. OneDraws'
  <2>1. \A u \in Threads : pc'[u] \in Holding <=> pc[u] \in Holding
    BY <1>1, <1>2, <1>3
  <2>2. QED
    BY <1>1, <2>1 DEF IInv, OneDraws
<1>8. Doing'
  <2>1. Doing /\ {"acquire", "draw", "release"} \subseteq Drawings
    BY DEF IInv, Drawings
  <2>2. \A u \in Threads : pc'[u] \in Drawings <=> pc[u] \in Drawings
    BY <1>1, <1>2, <1>3
  <2>3. \A u \in Threads : pc[u] \in Drawings => pc'[u] = pc[u]
    BY <1>1, <1>2, <1>3
  <2>4. QED
    BY <1>1, <2>1, <2>2, <2>3 DEF Doing
<1>9. BootFirst'
  <2>1. BootFirst
    BY DEF IInv
  <2>2. QED
    BY <1>1, <1>2, <1>3, <1>4, <2>1 DEF BootFirst
<1>10. Hidden'
  <2>1. Hidden
    BY DEF IInv
  <2>2. \A u \in Threads : pc'[u] = "read y" => read \in Cells
    BY <1>3, <2>1 DEF Hidden
  <2>3. QED
    BY <1>1, <1>4, <2>2 DEF Hidden
<1>11. OneCursor' /\ ShadowIsClean' /\ HasShadow'
  <2>1. \A q \in Cells : fb'[q] # "cursor"
    BY <1>1, <1>4, <1>5 DEF IInv, OneCursor, Screens
  <2>2. QED
    BY <1>1, <1>4, <2>1 DEF IInv, OneCursor, ShadowIsClean, HasShadow
<1>12. Erases'
  <2>1. Stale' <=> Stale
    BY <1>1, <1>2, <1>3 DEF Stale
  <2>2. Erased(fb)' = fb' /\ Erased(fb) = fb
    BY <1>1, <1>4 DEF Erased
  <2>3. QED
    BY <1>1, <1>4, <2>1, <2>2 DEF IInv, Erases
<1>13. QED
  BY <1>6, <1>7, <1>8, <1>9, <1>10, <1>11, <1>12 DEF IInv

LEMMA DeferredPreserves ==
  ASSUME IInv, NEW j \in {"print", "clear"}, ShellDraws(j), deferred
  PROVE  IInv'
<1> USE DEF sched, pointer, shell
<1>1. PICK c \in {"black", "ink"} : shadow' = Drawn(j, shadow, c)
  BY DEF ShellDraws
<1>2. /\ fb' = IF j = "clear" THEN Blank ELSE fb
      /\ UNCHANGED <<started, current, pc, job, lock, mouse, dirty, cursor, read, canvas,
                     deferred, hcr, overdrawn, clock>>
  BY DEF ShellDraws
<1>3. /\ shadow \in Screens /\ fb \in Screens
      /\ \A q \in Cells : shadow[q] # "cursor"
  BY DEF IInv, TypeOK, ShadowIsClean
<1>4. j \in Jobs \ {"none"} /\ j # "present"
  BY DEF Jobs, Writes, Bare, Snapshots
<1>5. shadow' \in Screens /\ \A q \in Cells : shadow'[q] # "cursor"
  BY <1>1, <1>3, <1>4, DrawnIsClean
<1>6. shadow' # NoShadow
  BY <1>5, ScreenIsShadow
<1>7. fb' \in Screens /\ \A q \in Cells : fb'[q] = "cursor" => fb[q] = "cursor"
  BY <1>2, <1>3 DEF Blank, Screens, Pixels
<1>8. TypeOK'
  BY <1>2, <1>5, <1>6, <1>7 DEF IInv, TypeOK
<1>9. OneDraws' /\ Doing' /\ BootFirst' /\ Hidden'
  BY <1>2 DEF IInv, OneDraws, Doing, BootFirst, Hidden
<1>10. OneCursor' /\ ShadowIsClean' /\ HasShadow'
  BY <1>2, <1>5, <1>6, <1>7 DEF IInv, OneCursor, ShadowIsClean, HasShadow
<1>11. Erases'
  BY <1>2 DEF Erases, Stale
<1>12. QED
  BY <1>8, <1>9, <1>10, <1>11 DEF IInv

(* A thread that does not draw, said in the words of the actions.          *)
LEMMA GoesOn ==
  ASSUME IInv, NEW t \in Threads, Running = t,
         pc[t] \notin Drawings, pc[t] # "lost holding",
         NEW p \in Places \ (Holding \cup {"start", "lost", "acquire"}),
         Goto(t, p), job' = job,
         UNCHANGED <<sched, lock, pointer, cursor, read, picture, overdrawn>>,
         deferred' \in BOOLEAN, deferred' => shadow # NoShadow, deferred => deferred',
         hcr' \in BOOLEAN, clock' \in [fresh : BOOLEAN, needed : BOOLEAN]
  PROVE  IInv'
<1>1. job[t] = "none" /\ job \in [Threads -> Jobs] /\ "none" \in Jobs
  BY DEF IInv, TypeOK, Doing, Jobs
<1>2. job' = [job EXCEPT ![t] = "none"]
  BY <1>1
<1>3. QED
  BY <1>1, <1>2, QuietStep DEF Goto

LEMMA StartsDrawing ==
  ASSUME IInv, NEW t \in Threads, Running = t,
         pc[t] \notin Drawings, pc[t] # "lost holding",
         NEW j \in JobsOf(t), j # "none", Begin(t, j),
         UNCHANGED <<sched, lock, pointer, cursor, read, picture, overdrawn>>,
         j = "present" => shadow # NoShadow, deferred' \in BOOLEAN, deferred' => deferred,
         deferred /\ ~deferred' => j = "present",
         hcr' \in BOOLEAN, clock' \in [fresh : BOOLEAN, needed : BOOLEAN]
  PROVE  IInv'
<1>1. j \in Jobs
  BY DEF JobsOf, Jobs, Threads, Tasks
<1>2. "acquire" \in Places \ (Holding \cup {"start", "lost"})
  BY DEF Places, Holding
<1>3. deferred' => shadow # NoShadow
  BY DEF IInv, TypeOK
<1>4. QED
  BY <1>1, <1>2, <1>3, QuietStep DEF Begin, Goto

LEMMA HaltPreserves ==
  ASSUME IInv, NEW t \in Threads, Running = t, Halt(t)
  PROVE  IInv'
<1>1. /\ pc[t] \notin Drawings /\ pc[t] # "lost holding"
      /\ "halted" \in Places \ (Holding \cup {"start", "lost", "acquire"})
  BY DEF Halt, Drawings, Places, Holding
<1>2. /\ deferred \in BOOLEAN /\ (deferred => shadow # NoShadow) /\ hcr \in BOOLEAN
      /\ clock \in [fresh : BOOLEAN, needed : BOOLEAN]
  BY DEF IInv, TypeOK
<1>3. QED
  BY <1>1, <1>2, GoesOn DEF Halt, shell

LEMMA UiPreserves ==
  ASSUME IInv, Running = "ui", UiLoop \/ UiLook
  PROVE  IInv'
<1>1. /\ pc["ui"] \notin Drawings /\ pc["ui"] # "lost holding" /\ "ui" \in Threads
      /\ {"hlt", "look"} \subseteq Places \ (Holding \cup {"start", "lost", "acquire"})
      /\ "clock" \in JobsOf("ui")
  BY DEF UiLoop, UiLook, Drawings, Places, Holding, Threads, Tasks, JobsOf
<1>2. /\ deferred \in BOOLEAN /\ (deferred => shadow # NoShadow) /\ hcr \in BOOLEAN
      /\ clock \in [fresh : BOOLEAN, needed : BOOLEAN]
  BY DEF IInv, TypeOK
<1>3. CASE UiLoop
  <2>1. clock' \in [fresh : BOOLEAN, needed : BOOLEAN]
    BY <1>2, <1>3 DEF UiLoop
  <2>2. CASE hcr
    BY <1>1, <1>2, <1>3, <2>1, <2>2, GoesOn DEF UiLoop, shell
  <2>3. CASE ~hcr
    BY <1>1, <1>2, <1>3, <2>1, <2>3, GoesOn DEF UiLoop, shell
  <2>4. QED
    BY <2>2, <2>3
<1>4. CASE UiLook /\ MustDraw
  <2>1. Begin("ui", "clock")
    BY <1>4 DEF UiLook
  <2>2. UNCHANGED <<sched, lock, pointer, cursor, read, picture, overdrawn, deferred, hcr, clock>>
    BY <1>4 DEF UiLook, shell
  <2>3. QED
    BY <1>1, <1>2, <2>1, <2>2, StartsDrawing
<1>5. CASE UiLook /\ ~MustDraw
  <2>1. Goto("ui", "hlt") /\ job' = job
    BY <1>5 DEF UiLook
  <2>2. UNCHANGED <<sched, lock, pointer, cursor, read, picture, overdrawn, deferred, hcr, clock>>
    BY <1>5 DEF UiLook, shell
  <2>3. QED
    BY <1>1, <1>2, <2>1, <2>2, GoesOn
<1>6. QED
  BY <1>3, <1>4, <1>5

LEMMA BootLoopPreserves ==
  ASSUME IInv, Running = "boot", BootLoop
  PROVE  IInv'
<1>1. /\ pc["boot"] \notin Drawings /\ pc["boot"] # "lost holding" /\ "boot" \in Threads
      /\ "hlt" \in Places \ (Holding \cup {"start", "lost", "acquire"})
      /\ "isr" \in JobsOf("boot")
  BY DEF BootLoop, Drawings, Places, Holding, Threads, JobsOf
<1>2. /\ deferred \in BOOLEAN /\ (deferred => shadow # NoShadow) /\ hcr \in BOOLEAN
      /\ clock \in [fresh : BOOLEAN, needed : BOOLEAN]
  BY DEF IInv, TypeOK
<1>3. UNCHANGED <<sched, lock, pointer, cursor, read, picture, overdrawn, deferred, hcr, clock>>
  BY DEF BootLoop, shell
<1>4. CASE Begin("boot", "isr")
  BY <1>1, <1>2, <1>3, <1>4, StartsDrawing
<1>5. CASE Goto("boot", "hlt") /\ job' = job
  BY <1>1, <1>2, <1>3, <1>5, GoesOn
<1>6. QED
  BY <1>4, <1>5 DEF BootLoop

(* The shell's own steps: all but one begin a drawing or go on to the next *)
(* place, and touch nothing on the screen.                                 *)
LEMMA ShellPreserves ==
  ASSUME IInv, Running = "shell", ShellStep
  PROVE  IInv'
<1> DEFINE Same == UNCHANGED <<sched, lock, pointer, cursor, read, picture, overdrawn, clock>>
<1>1. /\ "shell" \in Threads
      /\ {"loop", "hlt", "show", "poll", "ensured", "command", "game", "game over"}
           \subseteq Places \ (Holding \cup {"start", "lost", "acquire"})
      /\ JobsOf("shell") = Jobs \ {"none", "clock", "isr"}
  BY DEF Places, Holding, Threads, Tasks, JobsOf, Jobs, Writes, Bare, Snapshots
<1>2. /\ deferred \in BOOLEAN /\ (deferred => shadow # NoShadow) /\ hcr \in BOOLEAN
      /\ clock \in [fresh : BOOLEAN, needed : BOOLEAN]
  BY DEF IInv, TypeOK
<1>3. ASSUME pc["shell"] \notin Drawings, pc["shell"] # "lost holding", Same,
             deferred' = deferred, hcr' = hcr,
             NEW j \in Jobs \ {"none", "clock", "isr", "present"}, Begin("shell", j)
      PROVE  IInv'
  BY <1>1, <1>2, <1>3, StartsDrawing
<1>4. ASSUME pc["shell"] \notin Drawings, pc["shell"] # "lost holding", Same,
             deferred' = deferred, hcr' \in BOOLEAN,
             NEW p \in {"loop", "hlt", "show", "poll", "ensured", "command", "game", "game over"},
             Goto("shell", p), job' = job
      PROVE  IInv'
  BY <1>1, <1>2, <1>4, GoesOn
<1>5. CASE ShellStart \/ ShellGreeted \/ ShellShow \/ GameFrame
  <2>1. /\ pc["shell"] \notin Drawings /\ pc["shell"] # "lost holding"
        /\ Same /\ deferred' = deferred /\ hcr' = hcr
    BY <1>5 DEF ShellStart, ShellGreeted, ShellShow, GameFrame, Drawings, shell
  <2>2. \E j \in {"banner", "first snapshot", "show text"} \cup Bare : Begin("shell", j)
    BY <1>5 DEF ShellStart, ShellGreeted, ShellShow, GameFrame
  <2>3. {"banner", "first snapshot", "show text"} \cup Bare
          \subseteq Jobs \ {"none", "clock", "isr", "present"}
    BY DEF Jobs, Writes, Bare, Snapshots
  <2>4. QED
    BY <1>3, <2>1, <2>2, <2>3
<1>6. CASE ShellLoop \/ ShellPoll \/ ShellKey \/ ShellEnter
  <2>1. /\ pc["shell"] \notin Drawings /\ pc["shell"] # "lost holding"
        /\ Same /\ deferred' = deferred /\ hcr' = hcr
    BY <1>6 DEF ShellLoop, ShellPoll, ShellKey, ShellEnter, Drawings, shell
  <2>2. \/ \E j \in {"blink", "hide text", "edit", "newline", "snapshot"} : Begin("shell", j)
        \/ \E p \in {"poll", "hlt", "loop", "show", "ensured"} : Goto("shell", p) /\ job' = job
    BY <1>6 DEF ShellLoop, ShellPoll, ShellKey, ShellEnter
  <2>3. {"blink", "hide text", "edit", "newline", "snapshot"}
          \subseteq Jobs \ {"none", "clock", "isr", "present"}
    BY DEF Jobs, Writes, Bare, Snapshots
  <2>4. QED
    BY <1>2, <1>3, <1>4, <2>1, <2>2, <2>3
<1>7. CASE ShellBatch
  <2>1. /\ pc["shell"] \notin Drawings /\ pc["shell"] # "lost holding"
        /\ UNCHANGED <<sched, lock, pointer, cursor, read, picture, overdrawn, hcr, clock>>
        /\ Goto("shell", "command") /\ job' = job /\ deferred' = (shadow # NoShadow)
    BY <1>7 DEF ShellBatch, CanDefer, Drawings
  <2>2. deferred' \in BOOLEAN /\ (deferred' => shadow # NoShadow) /\ (deferred => deferred')
    BY <1>2, <2>1
  <2>3. QED
    BY <1>1, <1>2, <2>1, <2>2, GoesOn
<1>8. CASE GameStart \/ GameOver
  <2>1. /\ pc["shell"] \notin Drawings /\ pc["shell"] # "lost holding"
        /\ Same /\ deferred' = deferred /\ hcr' \in BOOLEAN /\ job' = job
    BY <1>8 DEF GameStart, GameOver, Drawings
  <2>2. \E p \in {"game", "game over", "command"} : Goto("shell", p)
    BY <1>8 DEF GameStart, GameOver
  <2>3. QED
    BY <1>4, <2>1, <2>2
<1>9. ASSUME NEW j \in {"print", "clear"}, ShellDraws(j)
      PROVE  IInv'
  <2>1. CASE deferred
    BY <1>9, <2>1, DeferredPreserves
  <2>2. CASE ~deferred
    <3>1. /\ pc["shell"] \notin Drawings /\ pc["shell"] # "lost holding"
          /\ Same /\ deferred' = deferred /\ hcr' = hcr /\ Begin("shell", j)
      BY <1>9, <2>2 DEF ShellDraws, Drawings, shell, picture
    <3>2. j \in Jobs \ {"none", "clock", "isr", "present"}
      BY DEF Jobs, Writes, Bare, Snapshots
    <3>3. QED
      BY <1>3, <3>1, <3>2
  <2>3. QED
    BY <2>1, <2>2
<1>10. CASE ShellEndBatch
  <2>1. /\ pc["shell"] \notin Drawings /\ pc["shell"] # "lost holding"
        /\ Same /\ hcr' = hcr
    BY <1>10 DEF ShellEndBatch, Drawings
  <2>2. CASE deferred
    <3>1. deferred' = FALSE /\ Begin("shell", "present")
      BY <1>10, <2>2 DEF ShellEndBatch, BatchEnd
    <3>2. "present" \in JobsOf("shell") /\ shadow # NoShadow
      BY <1>2, <2>2 DEF JobsOf
    <3>3. QED
      BY <1>1, <1>2, <2>1, <2>2, <3>1, <3>2, StartsDrawing
  <2>3. CASE ~deferred
    <3>1. deferred' = deferred /\ Goto("shell", "show") /\ job' = job
      BY <1>10, <2>3 DEF ShellEndBatch
    <3>2. QED
      BY <1>2, <1>4, <2>1, <3>1
  <2>4. QED
    BY <2>2, <2>3
<1>11. QED
  BY <1>5, <1>6, <1>7, <1>8, <1>9, <1>10 DEF ShellStep
-----------------------------------------------------------------------------
LEMMA InitHolds == Init => IInv
<1> SUFFICES ASSUME Init
             PROVE  IInv
  OBVIOUS
<1> USE DEF Init
<1>1. /\ \A t \in Threads : pc[t] \in {"start", "loop"} /\ job[t] = "none"
      /\ {"start", "loop"} \cap (Holding \cup Drawings) = {}
      /\ "none" \notin Bare /\ "shell" \in Threads
  BY DEF Threads, Tasks, Holding, Drawings, Bare
<1>2. Blank \in Screens /\ \A p \in Cells : Blank[p] # "cursor"
  BY DEF Blank, Screens, Pixels
<1>3. TypeOK
  <2>1. pc \in [Threads -> Places] /\ job \in [Threads -> Jobs]
    <3>1. Threads = {"boot", "shell", "ui"} /\ {"start", "loop"} \subseteq Places
      BY DEF Threads, Tasks, Places
    <3>2. pc = [t \in {"boot", "shell", "ui"} |-> IF t = "ui" THEN "loop" ELSE "start"]
      OBVIOUS
    <3>3. "none" \in Jobs
      BY DEF Jobs
    <3>4. QED
      BY <3>1, <3>2, <3>3
  <2>2. clock \in [fresh : BOOLEAN, needed : BOOLEAN]
    OBVIOUS
  <2>3. QED
    BY <1>2, <2>1, <2>2 DEF TypeOK, Tasks, Places, Jobs
<1>4. OneDraws /\ Doing /\ Hidden
  BY <1>1 DEF OneDraws, Doing, Hidden
<1>5. BootFirst /\ OneCursor /\ ShadowIsClean /\ HasShadow
  BY <1>1, <1>2 DEF BootFirst, OneCursor, ShadowIsClean, HasShadow
<1>6. Erases
  BY DEF Erases, Erased
<1>7. QED
  BY <1>3, <1>4, <1>5, <1>6 DEF IInv

LEMMA Inductive == IInv /\ [Next]_vars => IInv'
<1> SUFFICES ASSUME IInv, [Next]_vars
             PROVE  IInv'
  OBVIOUS
<1>1. CASE Tick
  BY <1>1, TickPreserves
<1>2. CASE MouseMoves
  BY <1>2, MousePreserves
<1>3. ASSUME NEW t \in Threads, Step(t)
      PROVE  IInv'
  <2>1. Running = t
    BY <1>3 DEF Step
  <2>2. CASE Drawing(t)
    BY <2>2, AcquirePreserves, HidePreserves, DrawPreserves, ReadXPreserves, ReadYPreserves,
       CleanPreserves, ReleasePreserves DEF Drawing
  <2>3. CASE Halt(t)
    BY <2>1, <2>3, HaltPreserves
  <2>4. CASE t = "shell" /\ ShellStep
    BY <2>1, <2>4, ShellPreserves
  <2>5. CASE t = "ui" /\ (UiLoop \/ UiLook)
    BY <2>1, <2>5, UiPreserves
  <2>6. CASE t = "boot" /\ (BootStart \/ BootLoop)
    BY <2>1, <2>6, BootStartPreserves, BootLoopPreserves
  <2>7. QED
    BY <1>3, <2>2, <2>3, <2>4, <2>5, <2>6 DEF Step
<1>4. CASE UNCHANGED vars
  <2>1. /\ UNCHANGED <<started, current, pc, job, lock, mouse, dirty, cursor, read>>
        /\ UNCHANGED <<fb, canvas, shadow, deferred, hcr, overdrawn, clock>>
    BY <1>4 DEF vars, sched, pointer, picture, shell
  <2>2. TypeOK' /\ OneDraws'
    <3>1. TypeOK /\ OneDraws
      BY DEF IInv
    <3>2. TypeOK'
      BY <2>1, <3>1, ZenonT(40) DEF TypeOK
    <3>3. OneDraws'
      BY <2>1, <3>1 DEF OneDraws
    <3>4. QED
      BY <3>2, <3>3
  <2>3. Doing' /\ BootFirst' /\ Hidden'
    BY <2>1 DEF IInv, Doing, BootFirst, Hidden
  <2>4. OneCursor' /\ ShadowIsClean' /\ Erases' /\ HasShadow'
    BY <2>1 DEF IInv, OneCursor, ShadowIsClean, Erases, Erased, Stale, HasShadow
  <2>5. QED
    BY <2>2, <2>3, <2>4 DEF IInv
<1>5. QED
  BY <1>1, <1>2, <1>3, <1>4 DEF Next

LEMMA Invariance == Spec => []IInv
  BY InitHolds, Inductive, PTL DEF Spec

(* Every variable has its type, and a command's drawing is deferred only   *)
(* if there is a shadow to draw on (shell.h, shell_begin_present_batch).   *)
THEOREM TypeCorrect == Spec => []TypeOK
<1>1. IInv => TypeOK
  BY DEF IInv
<1>2. QED
  BY <1>1, Invariance, PTL

(* fb_lock is taken exactly while one thread draws, whenever the timer     *)
(* preempts it (main.cpp, fb_acquire and fb_release).                      *)
THEOREM LockProtects == Spec => []OneDraws
<1>1. IInv => OneDraws
  BY DEF IInv
<1>2. QED
  BY <1>1, Invariance, PTL

(* The shell's shadow holds no piece of the mouse cursor: what a command   *)
(* presents stamps none on the screen (shell.h, shell_shadow_ensure).      *)
THEOREM ShadowStaysClean == Spec => []ShadowIsClean
<1>1. IInv => ShadowIsClean
  BY DEF IInv
<1>2. QED
  BY <1>1, Invariance, PTL

(* A settled screen is what was drawn with the cursor over it, and what    *)
(* cursor_draw saved is what is under it (mouse.h, cursor_erase).          *)
THEOREM CursorLeavesNoGhost == Spec => []NoGhosts
<1>1. IInv => NoGhosts
  <2> SUFFICES ASSUME IInv, Settled, ~overdrawn
               PROVE  IF cursor # NoCursor
                        THEN /\ fb = [canvas EXCEPT ![cursor.at] = "cursor"]
                             /\ cursor.saved = canvas[cursor.at]
                        ELSE fb = canvas
    BY DEF NoGhosts
  <2>1. Erased(fb) = canvas /\ (cursor # NoCursor => fb[cursor.at] = "cursor")
    BY DEF IInv, Erases, Stale, Settled
  <2>2. CASE cursor = NoCursor
    BY <2>1, <2>2 DEF Erased
  <2>3. CASE cursor # NoCursor
    <3>1. cursor.at \in Cells /\ fb \in Screens /\ canvas \in Screens
      BY <2>3, CursorTyped DEF IInv, TypeOK
    <3>2. canvas = [fb EXCEPT ![cursor.at] = cursor.saved]
      BY <2>1, <2>3 DEF Erased
    <3>3. canvas[cursor.at] = cursor.saved
      BY <3>1, <3>2 DEF Screens
    <3>4. fb = [canvas EXCEPT ![cursor.at] = "cursor"]
      BY <2>1, <2>3, <3>1, <3>2 DEF Screens
    <3>5. QED
      BY <2>3, <3>3, <3>4
  <2>4. QED
    BY <2>2, <2>3
<1>2. QED
  BY <1>1, Invariance, PTL
=============================================================================
