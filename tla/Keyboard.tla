------------------------------ MODULE Keyboard ------------------------------
(***************************************************************************)
(* The scan code decoder of keyboard.h.  The keyboard sends one to six     *)
(* bytes for a key that goes down or up, and keyboard_handle_byte handles  *)
(* each in an interrupt of its own.  At the start of the hcr game the      *)
(* shell task clears the decoder's state (keyboard_reset_state), one       *)
(* variable after the other, while bytes keep coming.                      *)
(*                                                                         *)
(* A key is its scan code and whether 0xE0 goes before it.  What is pushed *)
(* is the kind of symbol, its key's code and the shift state; the ring it  *)
(* goes to is module KeyQueue.                                             *)
(***************************************************************************)
EXTENDS Naturals, Sequences, FiniteSets

CONSTANTS
  Key,       \* the keys of the keyboard, [code, e0]
  MaxHeld    \* how many keys are held at a time (the bound of a run)

(* 0xE0 and 0xE1 are prefixes and no key's code, and only Print Screen     *)
(* sends a left Shift with 0xE0 before it.                                 *)
ASSUME KeyboardAssumption ==
  /\ MaxHeld \in Nat
  /\ \A k \in Key : k \in [code : STRING, e0 : BOOLEAN] /\ k.code \notin {"E0", "E1"}
  /\ [code |-> "lshift", e0 |-> TRUE] \notin Key

VARIABLES
  held, wire, sent,  \* the keyboard: keys down, bytes to come, the key they are of
  shift, ctrl, alt,  \* shift_pressed, ctrl_pressed, alt_pressed
  extended,          \* kb_extended_next
  ignore,            \* kb_pause_ignore
  state,             \* key_state and key_state_ext: <<extended, code>> that are TRUE
  pushed,            \* kb_push, since sent went down (auxiliary)
  rebooted,          \* reboot() was called
  resetting,         \* the store of keyboard_reset_state to come, 0 if none
  reset              \* "never", "clean" or "torn" (auxiliary)

device == <<held, wire, sent>>
decoder == <<shift, ctrl, alt, extended, ignore, state>>
vars == <<device, decoder, pushed, rebooted, resetting, reset>>

Down(code) == [code |-> code, up |-> FALSE]
Up(code) == [code |-> code, up |-> TRUE]
E0 == Down("E0")
E1 == Down("E1")

Pause == [code |-> "pause", e0 |-> FALSE]
PrintScreen == [code |-> "print", e0 |-> TRUE]

(* What a PS/2 keyboard sends.  Pause sends the bytes of its release with  *)
(* those of its press, and Print Screen holds a shift of its own.          *)
Press(k) ==
  CASE k = Pause -> <<E1, Down("ctrl"), Down("num"), E1, Up("ctrl"), Up("num")>>
    [] k = PrintScreen -> <<E0, Down("lshift"), E0, Down("print")>>
    [] OTHER -> IF k.e0 THEN <<E0, Down(k.code)>> ELSE <<Down(k.code)>>

Lift(k) ==
  IF k = PrintScreen THEN <<E0, Up("print"), E0, Up("lshift")>>
  ELSE IF k.e0 THEN <<E0, Up(k.code)>> ELSE <<Up(k.code)>>

Codes(k) == {<<k.e0, k.code>>} \cup IF k = PrintScreen THEN {<<TRUE, "lshift">>} ELSE {}

Init ==
  /\ held = {} /\ wire = <<>>
  /\ \E k \in Key : sent = [key |-> k, down |-> FALSE]
  /\ shift = FALSE /\ ctrl = FALSE /\ alt = FALSE /\ extended = FALSE
  /\ ignore = 0 /\ state = {}
  /\ pushed = <<>> /\ rebooted = FALSE /\ resetting = 0 /\ reset = "never"
-----------------------------------------------------------------------------
(* A key goes down, or repeats.                                            *)
KeyDown(k) ==
  /\ ~rebooted /\ wire = <<>>
  /\ held' = held \cup ({k} \ {Pause})
  /\ Cardinality(held') <= MaxHeld
  /\ wire' = Press(k)
  /\ sent' = [key |-> k, down |-> TRUE]
  /\ pushed' = <<>>
  /\ UNCHANGED <<decoder, rebooted, resetting, reset>>

KeyUp(k) ==
  /\ ~rebooted /\ wire = <<>>
  /\ k \in held
  /\ held' = held \ {k}
  /\ wire' = Lift(k)
  /\ sent' = [key |-> k, down |-> FALSE]
  /\ pushed' = <<>>
  /\ UNCHANGED <<decoder, rebooted, resetting, reset>>
-----------------------------------------------------------------------------
Polish == {"a"}                 \* kb_alt_polish
Mapped == {"a", "q", "enter"}   \* kb_scancode_map, Esc, Backspace, Enter
Cursor == {"left", "del"}       \* the extended keys the shell knows

(* The symbols a key that is pressed pushes: none or one.                  *)
Symbol(code, ext, sh, al) ==
  CASE ext -> IF code \in Cursor THEN <<<<"cursor", code>>>> ELSE <<>>
    [] ~ext /\ al -> IF code \in Polish THEN <<<<"polish", code, sh>>>> ELSE <<>>
    [] ~ext /\ ~al -> IF code \in Mapped THEN <<<<"plain", code, sh>>>> ELSE <<>>

MutPauseBytes == 6
PauseBytes == 5

MutNextExtended == extended
NextExtended == FALSE

(* A modifier is pressed while the last byte of its keys was of a press.   *)
MutModifier(was, codes, b) == IF b.code \in codes /\ ~(b.up /\ extended) THEN ~b.up ELSE was
Modifier(was, codes, b) == IF b.code \in codes THEN ~b.up ELSE was

MutReboots(b) == alt' /\ b.code = "del"
Reboots(b) == ctrl' /\ alt' /\ b.code = "del"

(* Where key_state or key_state_ext has the key.                           *)
MutEntry(b) == <<FALSE, b.code>>
Entry(b) == <<extended, b.code>>

(* A press or a release of a key, the last byte of it.                     *)
KeyByte(b) ==
  /\ extended' = NextExtended
  /\ shift' = Modifier(shift, {"lshift", "rshift"}, b)
  /\ ctrl' = Modifier(ctrl, {"ctrl"}, b)
  /\ alt' = Modifier(alt, {"alt"}, b)
  /\ state' = IF b.up THEN state \ {Entry(b)} ELSE state \cup {Entry(b)}
  /\ rebooted' = (~b.up /\ Reboots(b))
  /\ pushed' = IF b.up \/ rebooted' THEN pushed
               ELSE pushed \o Symbol(b.code, extended, shift', alt')
  /\ UNCHANGED ignore

(* keyboard_handle_byte                                                    *)
Byte ==
  /\ ~rebooted /\ wire # <<>>
  /\ wire' = Tail(wire)
  /\ LET b == Head(wire)
     IN  \/ /\ ignore > 0
            /\ ignore' = ignore - 1
            /\ UNCHANGED <<shift, ctrl, alt, extended, state, pushed, rebooted>>
         \/ /\ ignore = 0 /\ b = E1
            /\ ignore' = PauseBytes
            /\ extended' = FALSE
            /\ UNCHANGED <<shift, ctrl, alt, state, pushed, rebooted>>
         \/ /\ ignore = 0 /\ b = E0
            /\ extended' = TRUE
            /\ UNCHANGED <<shift, ctrl, alt, ignore, state, pushed, rebooted>>
         \/ /\ ignore = 0 /\ b \notin {E0, E1}
            /\ KeyByte(b)
  /\ UNCHANGED <<held, sent, resetting, reset>>
-----------------------------------------------------------------------------
(* keyboard_reset_state, called by hcr_game_loop.  It is torn if it clears *)
(* the memory of the bytes before in the middle of a key.                  *)
Reset(i) ==
  /\ ~rebooted
  /\ resetting = i \/ (resetting = 0 /\ i = 1)
  /\ resetting' = IF i = 6 THEN 0 ELSE i + 1
  /\ shift' = (shift /\ i # 1)
  /\ ctrl' = (ctrl /\ i # 2)
  /\ alt' = (alt /\ i # 3)
  /\ extended' = (extended /\ i # 4)
  /\ ignore' = IF i = 5 THEN 0 ELSE ignore
  /\ state' = IF i = 6 THEN {} ELSE state
  /\ reset' = IF reset = "torn" \/ extended' # extended \/ ignore' # ignore
                THEN "torn" ELSE "clean"
  /\ UNCHANGED <<device, pushed, rebooted>>

Next ==
  \/ \E k \in Key : KeyDown(k) \/ KeyUp(k)
  \/ Byte
  \/ \E i \in 1 .. 6 : Reset(i)

Spec == Init /\ [][Next]_vars
-----------------------------------------------------------------------------
(* What may come on the wire: the prefixes, the codes of keys, and those   *)
(* that only Pause and Print Screen send.                                  *)
ScanCodes == {"E0", "E1", "ctrl", "num", "lshift"} \cup {k.code : k \in Key}

TypeOK ==
  /\ held \subseteq Key /\ sent \in [key : Key, down : BOOLEAN]
  /\ Len(wire) <= 6 /\ \A i \in DOMAIN wire : wire[i] \in [code : ScanCodes, up : BOOLEAN]
  /\ {shift, ctrl, alt, extended, rebooted} \subseteq BOOLEAN
  /\ ignore \in 0 .. 5
  /\ state \subseteq BOOLEAN \X ScanCodes
  /\ Len(pushed) <= 1
  /\ resetting \in 0 .. 6 /\ reset \in {"never", "clean", "torn"}

(* Between two keys the decoder expects the first byte of one: no 0xE0 is  *)
(* pending and no byte is going to be ignored, whatever was pressed.       *)
InStep == wire = <<>> /\ ~rebooted /\ reset # "torn" => ~extended /\ ignore = 0

(* No key is stuck: one seen as down is held, and a modifier that acts is  *)
(* held by one of its keys, or for shift by Print Screen.                  *)
Holds(codes) == \E k \in held : \E d \in Codes(k) : d[2] \in codes

NoStuckKeys ==
  (wire = <<>> /\ reset # "torn") =>
    /\ state \subseteq UNION {Codes(k) : k \in held}
    /\ shift => Holds({"lshift", "rshift"})
    /\ ctrl => Holds({"ctrl"})
    /\ alt => Holds({"alt"})

(* What the hcr game sees as down is all that is held, if it was not       *)
(* pressed before the game began.                                          *)
HeldIsSeen ==
  (wire = <<>> /\ reset = "never") => state = UNION {Codes(k) : k \in held}

(* When all bytes of a press are handled, its symbol has been pushed, once,*)
(* and nothing else: no byte of a longer sequence is taken for a key.  The *)
(* modifiers are those of now, or any if keyboard_reset_state was called.  *)
Meant(k) ==
  LET Flags(f) == IF reset = "never" THEN {f} ELSE BOOLEAN
  IN  IF k \in {Pause, PrintScreen} THEN {<<>>}
      ELSE {Symbol(k.code, k.e0, sh, al) : sh \in Flags(shift), al \in Flags(alt)}

PressIsHeard ==
  (wire = <<>> /\ ~rebooted /\ reset # "torn") =>
    pushed \in IF sent.down THEN Meant(sent.key) ELSE {<<>>}

(* The machine reboots only for Ctrl, Alt and Delete held together.        *)
RebootIsMeant ==
  rebooted /\ reset # "torn" =>
    Holds({"ctrl"}) /\ Holds({"alt"}) /\ sent.down /\ sent.key.code = "del"
=============================================================================
