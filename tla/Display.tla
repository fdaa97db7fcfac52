------------------------------ MODULE Display -------------------------------
(***************************************************************************)
(* The one processor, the timer that switches it between the shell task    *)
(* and ui_task, the mouse interrupt, and the framebuffer they share:       *)
(* basement.asm, task.h, mouse.h, and the drawing parts of main.cpp,       *)
(* shell.h and hcr.h.                                                      *)
(*                                                                         *)
(* Code that draws takes fb_lock, hides the mouse cursor (cursor_erase),   *)
(* draws, shows the cursor again (cursor_draw) and releases the lock.      *)
(* cursor_draw keeps the pixels it covers in cursor_saved.  While the      *)
(* shell runs a command (shell_present_deferred) it draws to a shadow of   *)
(* the framebuffer instead, and copies it whole when the command is over.  *)
(*                                                                         *)
(* The screen is a few cells and the cursor covers one of them; a cell     *)
(* is black, ink or the cursor.  An interrupt comes between any two steps; *)
(* only the timer switches.                                                *)
(***************************************************************************)
EXTENDS Naturals, FiniteSets

CONSTANTS
  Columns, Rows,  \* the screen's coordinates
  ClockCell,      \* where ui_task draws the clock and the blinking square
  TextCell        \* where the shell draws

Cells == Columns \X Rows

ASSUME DisplayAssumption ==
  ClockCell \in Cells /\ TextCell \in Cells /\ ClockCell # TextCell

Tasks == {"shell", "ui"}
Threads == Tasks \cup {"boot"}

VARIABLES
  started,   \* scheduler_started
  current,   \* current_task
  pc, job,   \* where each thread is, and what the drawing it does is for
  lock,      \* fb_lock
  mouse,     \* mouse.x, mouse.y
  dirty,     \* cursor_dirty
  cursor,    \* cursor_prev_x/y and cursor_saved, NoCursor if not valid
  read,      \* where the mouse was when cursor_draw read current_x
  fb,        \* g_fb
  shadow,    \* shell_fb_shadow, NoShadow until there was memory for it
  deferred,  \* shell_present_deferred
  canvas,    \* what the screen is when the cursor is erased (auxiliary)
  clock,     \* ui_task: what it knows of timer_ticks
  hcr,       \* g_hcr_running
  overdrawn  \* hcr drew over the cursor (auxiliary)

sched == <<started, current>>
pointer == <<mouse, dirty>>
shell == <<deferred, hcr, overdrawn>>
picture == <<fb, canvas, shadow>>
vars == <<sched, pc, job, lock, pointer, cursor, read, picture, shell, clock>>

(* The thread the processor runs: kernel_main until the first tick.        *)
Running == IF started THEN current ELSE "boot"

Blank == [c \in Cells |-> "black"]
NoShadow == <<>>
NoCursor == <<>>
NoPosition == <<>>

(* timer_ticks is only ever compared with earlier values of itself: fresh  *)
(* is timer_ticks # last_clock_ticks until ticks_snapshot is taken, and    *)
(* then # ticks_snapshot, which last_clock_ticks is going to be; needed is *)
(* needs_clock.  The blink phase changes only when timer_ticks does, so    *)
(* needs_blink implies needs_clock.                                        *)
Init ==
  /\ started = FALSE /\ current = "shell"
  /\ pc = [boot |-> "start", shell |-> "start", ui |-> "loop"]
  /\ job = [t \in Threads |-> "none"]
  /\ lock = FALSE
  /\ mouse \in Cells /\ dirty = TRUE
  /\ cursor = NoCursor /\ read = NoPosition
  /\ fb = Blank /\ canvas = Blank /\ shadow = NoShadow
  /\ deferred = FALSE /\ hcr = FALSE /\ overdrawn = FALSE
  /\ clock = [fresh |-> TRUE, needed |-> FALSE]
-----------------------------------------------------------------------------
(* Interrupts.  hlt ends with any of them; one that comes between the      *)
(* decision to halt and the hlt does not prevent it.                       *)
Woken == IF pc[Running] = "halted" THEN [pc EXCEPT ![Running] = "loop"] ELSE pc

NextTask(t) == IF t = "shell" THEN "ui" ELSE "shell"

Holding == {"hide", "draw", "read x", "read y", "clean", "release", "lost holding"}

(* timer_handler and context_switch.  The first tick does not save the     *)
(* context it interrupts: kernel_main is never resumed.                    *)
Tick ==
  /\ started' = TRUE
  /\ current' = NextTask(current)
  /\ clock' = [clock EXCEPT !.fresh = TRUE]
  /\ IF started
       THEN pc' = Woken /\ UNCHANGED <<job, read>>
       ELSE /\ pc' = [pc EXCEPT !["boot"] =
                        IF @ \in Holding THEN "lost holding" ELSE "lost"]
            /\ job' = [job EXCEPT !["boot"] = "none"]
            /\ read' = NoPosition
  /\ UNCHANGED <<lock, pointer, cursor, picture, shell>>

(* mouse_handler_c with the last byte of a packet.                         *)
MouseMoves ==
  /\ pc' = Woken
  /\ mouse' \in Cells
  /\ dirty' = TRUE
  /\ UNCHANGED <<sched, job, lock, cursor, read, picture, shell, clock>>
-----------------------------------------------------------------------------
(* Drawing, the same in every thread: fb_acquire, cursor_hide_nolock, the  *)
(* drawing itself, cursor_show_nolock, fb_release.                         *)
Goto(t, p) == pc' = [pc EXCEPT ![t] = p]
Begin(t, j) == Goto(t, "acquire") /\ job' = [job EXCEPT ![t] = j]

MutFree == TRUE
Free == ~lock

(* hcr leaves the cursor alone.                                            *)
MutBare == {"frame", "wipe", "snapshot"}
Bare == {"frame", "wipe"}

(* A thread that finds the lock taken spins until it is preempted.         *)
Acquire(t) ==
  /\ pc[t] = "acquire"
  /\ Free
  /\ lock' = TRUE
  /\ Goto(t, IF job[t] \in Bare THEN "draw" ELSE "hide")
  /\ UNCHANGED <<sched, job, pointer, cursor, read, picture, shell, clock>>

MutErased(s) == s
Erased(s) == IF cursor # NoCursor THEN [s EXCEPT ![cursor.at] = cursor.saved] ELSE s

(* cursor_erase                                                            *)
Hide(t) ==
  /\ pc[t] = "hide"
  /\ fb' = Erased(fb)
  /\ cursor' = NoCursor
  /\ overdrawn' = FALSE
  /\ Goto(t, "draw")
  /\ UNCHANGED <<sched, job, lock, pointer, read, canvas, shadow, deferred, hcr, clock>>

Snapshots == {"first snapshot", "snapshot"}
Writes == {"banner", "edit", "newline", "print"}

(* What each drawing, in the colour c, makes of a screen s.                *)
Drawn(j, s, c) ==
  CASE j = "clock" -> IF clock.needed THEN [s EXCEPT ![ClockCell] = c] ELSE s
    [] j \in Writes \cup {"isr", "blink", "hide text", "show text"} ->
         [s EXCEPT ![TextCell] = c]
    [] j \in {"clear", "wipe"} -> Blank
    [] j = "frame" -> [p \in Cells |-> c]
    [] j = "present" -> shadow
    [] j \in Snapshots -> s

(* What the shell types, prints and clears goes to its shadow as well, the *)
(* text cursor and what others draw do not.  Where there is no shadow yet  *)
(* shell_shadow_ensure copies the screen, if malloc gives it the memory:   *)
(* at the start, before a command, and when the text scrolls.              *)
ShadowAfter(j, c) ==
  IF shadow = NoShadow
    THEN IF j \in Snapshots \cup {"newline", "print"}
           THEN {NoShadow, Drawn(j, fb, c)} ELSE {NoShadow}
    ELSE {IF j \in Writes \cup {"clear"} THEN Drawn(j, shadow, c) ELSE shadow}

MutAfterDrawing(j) ==
  IF j \in Bare THEN "release" ELSE IF j = "print" THEN "acquire" ELSE "read x"

AfterDrawing(j) == IF j \in Bare THEN "release" ELSE "read x"

Draw(t) ==
  /\ pc[t] = "draw"
  /\ \E c \in {"black", "ink"} :
       /\ fb' = Drawn(job[t], fb, c)
       /\ canvas' = IF job[t] \in Bare THEN Erased(fb') ELSE Drawn(job[t], canvas, c)
       /\ shadow' \in ShadowAfter(job[t], c)
  /\ clock' = IF job[t] = "clock" THEN [clock EXCEPT !.needed = FALSE] ELSE clock
  /\ overdrawn' = (job[t] \in Bare)
  /\ Goto(t, AfterDrawing(job[t]))
  /\ UNCHANGED <<sched, job, lock, pointer, cursor, read, deferred, hcr>>

(* cursor_draw reads mouse.x and then mouse.y: an interrupt may come in    *)
(* between.                                                                *)
ReadX(t) ==
  /\ pc[t] = "read x"
  /\ read' = mouse
  /\ Goto(t, "read y")
  /\ UNCHANGED <<sched, job, lock, pointer, cursor, picture, shell, clock>>

MutCovered(p) == IF p = ClockCell THEN "black" ELSE fb[p]
Covered(p) == fb[p]

ReadY(t) ==
  /\ pc[t] = "read y"
  /\ LET p == <<read[1], mouse[2]>>
     IN  /\ cursor' = [at |-> p, saved |-> Covered(p)]
         /\ fb' = [fb EXCEPT ![p] = "cursor"]
  /\ read' = NoPosition
  /\ Goto(t, "clean")
  /\ UNCHANGED <<sched, job, lock, pointer, canvas, shadow, shell, clock>>

(* cursor_show_nolock                                                      *)
Clean(t) ==
  /\ pc[t] = "clean"
  /\ dirty' = FALSE
  /\ Goto(t, "release")
  /\ UNCHANGED <<sched, job, lock, mouse, cursor, read, picture, shell, clock>>

(* Where a thread goes on after a drawing.                                 *)
After(j) ==
  CASE j \in {"clock", "edit", "show text"} -> "loop"
    [] j = "isr" -> "drawn"
    [] j = "banner" -> "greeted"
    [] j = "blink" -> "poll"
    [] j = "hide text" -> "key"
    [] j = "newline" -> "enter"
    [] j = "snapshot" -> "ensured"
    [] j \in {"print", "clear"} -> "command"
    [] j = "frame" -> "game"
    [] j = "wipe" -> "game over"
    [] j \in {"first snapshot", "present"} -> "show"

Release(t) ==
  /\ pc[t] = "release"
  /\ lock' = FALSE
  /\ Goto(t, After(job[t]))
  /\ job' = [job EXCEPT ![t] = "none"]
  /\ UNCHANGED <<sched, pointer, cursor, read, picture, shell, clock>>

(* Not a drawing, but also the same in every thread.                       *)
Halt(t) ==
  /\ pc[t] = "hlt"
  /\ Goto(t, "halted")
  /\ UNCHANGED <<sched, job, lock, pointer, cursor, read, picture, shell, clock>>

Drawing(t) ==
  \/ Acquire(t) \/ Hide(t) \/ Draw(t) \/ ReadX(t) \/ ReadY(t) \/ Clean(t) \/ Release(t)
-----------------------------------------------------------------------------
(* ui_task                                                                 *)
UiLoop ==
  /\ pc["ui"] = "loop"
  /\ Goto("ui", IF hcr THEN "hlt" ELSE "look")
  /\ clock' = IF hcr THEN clock ELSE [fresh |-> FALSE, needed |-> clock.fresh]
  /\ UNCHANGED <<sched, job, lock, pointer, cursor, read, picture, shell>>

MutMustDraw == dirty
MustDraw == clock.needed \/ dirty

UiLook ==
  /\ pc["ui"] = "look"
  /\ IF MustDraw THEN Begin("ui", "clock") ELSE Goto("ui", "hlt") /\ job' = job
  /\ UNCHANGED <<sched, lock, pointer, cursor, read, picture, shell, clock>>

(* kernel_main after sti: it writes "13 idle" without the lock, and then   *)
(* draws once more if some stray interrupt has made isr_counter positive.  *)
BootStart ==
  /\ pc["boot"] = "start"
  /\ fb' = [fb EXCEPT ![TextCell] = "ink"]
  /\ canvas' = [canvas EXCEPT ![TextCell] = "ink"]
  /\ Goto("boot", "loop")
  /\ UNCHANGED <<sched, job, lock, pointer, cursor, read, shadow, shell, clock>>

BootLoop ==
  /\ pc["boot"] = "loop"
  /\ Begin("boot", "isr") \/ (Goto("boot", "hlt") /\ job' = job)
  /\ UNCHANGED <<sched, lock, pointer, cursor, read, picture, shell, clock>>
-----------------------------------------------------------------------------
(* The shell greets, makes its shadow and shows its text cursor; then that *)
(* blinks, and keys come (whatever the queue holds: module KeyQueue).      *)
ShellStart ==
  /\ pc["shell"] = "start"
  /\ Begin("shell", "banner")
  /\ UNCHANGED <<sched, lock, pointer, cursor, read, picture, shell, clock>>

ShellGreeted ==
  /\ pc["shell"] = "greeted"
  /\ Begin("shell", "first snapshot")
  /\ UNCHANGED <<sched, lock, pointer, cursor, read, picture, shell, clock>>

ShellShow ==
  /\ pc["shell"] = "show"
  /\ Begin("shell", "show text")
  /\ UNCHANGED <<sched, lock, pointer, cursor, read, picture, shell, clock>>

ShellLoop ==
  /\ pc["shell"] = "loop"
  /\ Begin("shell", "blink") \/ (Goto("shell", "poll") /\ job' = job)
  /\ UNCHANGED <<sched, lock, pointer, cursor, read, picture, shell, clock>>

ShellPoll ==
  /\ pc["shell"] = "poll"
  /\ Begin("shell", "hide text") \/ (Goto("shell", "hlt") /\ job' = job)
  /\ UNCHANGED <<sched, lock, pointer, cursor, read, picture, shell, clock>>

(* A key does nothing, edits the line, or ends it.                         *)
ShellKey ==
  /\ pc["shell"] = "key"
  /\ \/ Goto("shell", "loop") /\ job' = job
     \/ \E j \in {"edit", "newline"} : Begin("shell", j)
  /\ UNCHANGED <<sched, lock, pointer, cursor, read, picture, shell, clock>>

(* After Enter: a command, and a batch for it (shell_begin_present_batch). *)
(* In the notepad mode there is none.                                      *)
ShellEnter ==
  /\ pc["shell"] = "enter"
  /\ \/ Goto("shell", "show") /\ job' = job
     \/ shadow # NoShadow /\ Goto("shell", "ensured") /\ job' = job
     \/ shadow = NoShadow /\ Begin("shell", "snapshot")
  /\ UNCHANGED <<sched, lock, pointer, cursor, read, picture, shell, clock>>

MutCanDefer == TRUE
CanDefer == shadow # NoShadow

ShellBatch ==
  /\ pc["shell"] = "ensured"
  /\ deferred' = CanDefer
  /\ Goto("shell", "command")
  /\ UNCHANGED <<sched, job, lock, pointer, cursor, read, picture, hcr, overdrawn, clock>>

(* A command prints or clears the screen.  In a batch shell_begin_draw and *)
(* shell_end_draw do nothing: printing touches only the shadow, but        *)
(* cmd_clear still clears g_fb, without the lock.                          *)
ShellDraws(j) ==
  /\ pc["shell"] = "command"
  /\ IF deferred
       THEN /\ \E c \in {"black", "ink"} : shadow' = Drawn(j, shadow, c)
            /\ fb' = IF j = "clear" THEN Blank ELSE fb
            /\ UNCHANGED <<pc, job>>
       ELSE /\ Begin("shell", j)
            /\ UNCHANGED <<fb, shadow>>
  /\ UNCHANGED <<sched, lock, pointer, cursor, read, canvas, shell, clock>>

(* hcr_game_loop: if it gets its memory, frames until the user leaves, and *)
(* then a cleared screen.                                                  *)
GameStart ==
  /\ pc["shell"] = "command"
  /\ hcr' = TRUE
  /\ Goto("shell", "game over") \/ Goto("shell", "game")
  /\ UNCHANGED <<sched, job, lock, pointer, cursor, read, picture, deferred, overdrawn, clock>>

GameFrame ==
  /\ pc["shell"] = "game"
  /\ \E j \in Bare : Begin("shell", j)
  /\ UNCHANGED <<sched, lock, pointer, cursor, read, picture, shell, clock>>

GameOver ==
  /\ pc["shell"] = "game over"
  /\ hcr' = FALSE
  /\ Goto("shell", "command")
  /\ UNCHANGED <<sched, job, lock, pointer, cursor, read, picture, deferred, overdrawn, clock>>

MutBatchEnd == deferred' = FALSE /\ Goto("shell", "show") /\ job' = job
BatchEnd == deferred' = FALSE /\ Begin("shell", "present")

(* shell_end_present_batch                                                 *)
ShellEndBatch ==
  /\ pc["shell"] = "command"
  /\ IF deferred THEN BatchEnd
     ELSE Goto("shell", "show") /\ UNCHANGED <<deferred, job>>
  /\ UNCHANGED <<sched, lock, pointer, cursor, read, picture, hcr, overdrawn, clock>>

ShellStep ==
  \/ ShellStart \/ ShellGreeted \/ ShellShow \/ ShellLoop
  \/ ShellPoll \/ ShellKey \/ ShellEnter \/ ShellBatch
  \/ \E j \in {"print", "clear"} : ShellDraws(j)
  \/ GameStart \/ GameFrame \/ GameOver \/ ShellEndBatch

Step(t) ==
  /\ Running = t
  /\ \/ Drawing(t) \/ Halt(t)
     \/ t = "shell" /\ ShellStep
     \/ t = "ui" /\ (UiLoop \/ UiLook)
     \/ t = "boot" /\ (BootStart \/ BootLoop)

Next == Tick \/ MouseMoves \/ \E t \in Threads : Step(t)

Spec == Init /\ [][Next]_vars

(* The timer ticks for ever, and a task that is switched to again and      *)
(* again gets on: a tick lasts far longer than any of its steps.           *)
FairSpec == Spec /\ WF_vars(Tick) /\ \A t \in Tasks : SF_vars(Step(t))
-----------------------------------------------------------------------------
Pixels == {"black", "ink", "cursor"}
Screens == [Cells -> Pixels]

TypeOK ==
  /\ started \in BOOLEAN /\ current \in Tasks
  /\ pc \in [Threads -> Holding \cup {"start", "loop", "hlt", "halted", "acquire", "look", "drawn",
               "greeted", "show", "poll", "key", "enter", "ensured", "command", "game",
               "game over", "lost"}]
  /\ job \in [Threads -> Writes \cup Bare \cup Snapshots \cup
               {"none", "clock", "isr", "blink", "hide text", "show text", "clear", "present"}]
  /\ lock \in BOOLEAN /\ mouse \in Cells /\ dirty \in BOOLEAN
  /\ cursor \in [at : Cells, saved : Pixels] \cup {NoCursor}
  /\ read \in Cells \cup {NoPosition}
  /\ fb \in Screens /\ canvas \in Screens /\ shadow \in Screens \cup {NoShadow}
  /\ deferred \in BOOLEAN /\ hcr \in BOOLEAN /\ overdrawn \in BOOLEAN
  /\ clock \in [fresh : BOOLEAN, needed : BOOLEAN]
  /\ deferred => shadow # NoShadow

(* fb_lock is taken exactly while one thread draws, and never by two.      *)
OneDraws ==
  /\ lock <=> \E t \in Threads : pc[t] \in Holding
  /\ \A t, u \in Threads : pc[t] \in Holding /\ pc[u] \in Holding => t = u

(* Whenever nobody draws and no command's batch is pending, the screen is  *)
(* what was drawn with the mouse cursor over it, and the saved pixels are  *)
(* what is under the cursor: no ghost of the cursor, no smudge of an old   *)
(* background.  The game does not hide the cursor it draws over, so what   *)
(* was saved under it comes back in the middle of its picture; outside a   *)
(* batch it stays (hcr.h:390-404), and canvas says so.                     *)
Settled == ~lock /\ ~deferred /\ job["shell"] # "present"

NoGhosts ==
  (Settled /\ ~overdrawn) =>
    IF cursor # NoCursor
      THEN fb = [canvas EXCEPT ![cursor.at] = "cursor"] /\ cursor.saved = canvas[cursor.at]
      ELSE fb = canvas

(* shell_fb_shadow never holds a piece of the mouse cursor, although it is *)
(* copied from the screen at moments the mouse and ui_task choose, so what *)
(* a command presents cannot stamp one.                                    *)
ShadowIsClean ==
  shadow # NoShadow => \A p \in Cells : shadow[p] # "cursor"

(* Who takes fb_lock gives it back, whatever interrupts it, and never      *)
(* waits for it a second time.  kernel_main alone may keep it: BootIsOver. *)
LockIsReturned == lock ~> (~lock \/ pc["boot"] = "lost holding")

(* The cursor gets to where the mouse stays, although cursor_dirty is      *)
(* cleared after the position was read, unless the game runs or            *)
(* kernel_main was preempted while it held the lock.                       *)
CursorFollows ==
  \A p \in Cells :
    (mouse = p) ~> (\/ cursor # NoCursor /\ cursor.at = p
                    \/ mouse # p
                    \/ hcr
                    \/ pc["boot"] = "lost holding")

(* Once the scheduler runs, the code of kernel_main after sti is not in    *)
(* the middle of anything: it is said never to run (main.cpp:615).         *)
BootIsOver == pc["boot"] # "lost holding"

(* The cursor is drawn where the mouse was at one moment of reading its    *)
(* position, which is said to be read once (mouse.h:157).                  *)
NoTornRead == [][\A t \in Threads : ReadY(t) => cursor'.at \in {read, mouse}]_vars
=============================================================================
