--------------------------- MODULE KeyboardProofs ---------------------------
(***************************************************************************)
(* The decoder stays in step with the keyboard, leaves no key stuck and    *)
(* hears every press, whatever keys there are and are held, and whenever   *)
(* the game resets it between two keys.                                    *)
(*                                                                         *)
(* The properties speak of the moments between two keys.  The invariant    *)
(* IInv says, for each byte that may be next, which bytes are still to     *)
(* come (WireInv), what the decoder remembers of those before (PrefixInv), *)
(* which entries of key_state are still to change (StateInv) and which key *)
(* a pressed modifier stands for (ModifierInv).                            *)
(***************************************************************************)
EXTENDS Keyboard, TLAPS

(* What may still be to come of what was sent: of a key that sends one     *)
(* byte, of Print Screen, which sends two with a prefix each, and of Pause.*)
Last(s) == [code |-> s.key.code, up |-> ~s.down]

TwoKeys(x, y) == {<<>>, <<y>>, <<E0, y>>, <<x, E0, y>>, <<E0, x, E0, y>>}

PauseWires ==
  {<<>>, <<Up("num")>>, <<Up("ctrl"), Up("num")>>, <<E1, Up("ctrl"), Up("num")>>,
   <<Down("num"), E1, Up("ctrl"), Up("num")>>,
   <<Down("ctrl"), Down("num"), E1, Up("ctrl"), Up("num")>>,
   <<E1, Down("ctrl"), Down("num"), E1, Up("ctrl"), Up("num")>>}

Wires(s) ==
  IF s.key = Pause THEN IF s.down THEN PauseWires ELSE {<<>>}
  ELSE IF s.key = PrintScreen
    THEN IF s.down THEN TwoKeys(Down("lshift"), Down("print"))
         ELSE TwoKeys(Up("print"), Up("lshift"))
    ELSE {<<>>, <<Last(s)>>} \cup IF s.key.e0 THEN {<<E0, Last(s)>>} ELSE {}

WireInv == wire \in Wires(sent)

(* Pause goes up as it goes down; any other key is held from its press on. *)
HeldInv ==
  /\ Pause \notin held
  /\ IF sent.down THEN sent.key \in held \cup {Pause} ELSE sent.key \notin held

PushedInv == wire # <<>> => pushed = <<>>

(* 0xE0 is pending before each byte that follows one, and of Pause as many *)
(* bytes are ignored as there are.                                         *)
PrefixInv ==
  reset # "torn" =>
    /\ extended <=> sent.key.e0 /\ Len(wire) \in {1, 3}
    /\ ignore = IF sent.key = Pause /\ Len(wire) # 6 THEN Len(wire) ELSE 0

Entries == UNION {Codes(k) : k \in held}

(* The entries of key_state that the bytes to come set or clear: of Print  *)
(* Screen the second after the first.                                      *)
First(s) == <<TRUE, IF s.down THEN "lshift" ELSE "print">>
Second(s) == <<TRUE, IF s.down THEN "print" ELSE "lshift">>

Pending ==
  IF wire = <<>> \/ sent.key = Pause THEN {}
  ELSE IF sent.key = PrintScreen /\ Len(wire) <= 2
         THEN {Second(sent)}
         ELSE Codes(sent.key)

StateInv ==
  /\ reset # "torn" => (IF sent.down THEN state ELSE state \ Pending) \subseteq Entries
  /\ reset = "never" => Entries = IF sent.down THEN state \cup Pending ELSE state \ Pending

(* The keys a modifier may be pressed for: those held, and the one that    *)
(* has gone up while its bytes are on their way.                           *)
Holders == held \cup IF wire # <<>> /\ ~sent.down THEN {sent.key} ELSE {}

ByOneOf(codes) == \E k \in Holders : \E d \in Codes(k) : d[2] \in codes

ModifierInv ==
  reset # "torn" =>
    /\ shift => ByOneOf({"lshift", "rshift"})
    /\ ctrl => ByOneOf({"ctrl"})
    /\ alt => ByOneOf({"alt"})

IInv ==
  /\ TypeOK /\ WireInv /\ HeldInv /\ PushedInv /\ PrefixInv
  /\ StateInv /\ ModifierInv /\ PressIsHeard /\ RebootIsMeant
-----------------------------------------------------------------------------
ByteType == [code : ScanCodes, up : BOOLEAN]

Sent == [key : Key, down : BOOLEAN]

LEMMA SentTyped ==
  ASSUME NEW s \in Sent
  PROVE  /\ s.key \in Key /\ s.down \in BOOLEAN
         /\ s.key.code \in ScanCodes \ {"E0", "E1"} /\ s.key.e0 \in BOOLEAN
         /\ Last(s) \in ByteType /\ Last(s) \notin {E0, E1}
         /\ Last(s).code = s.key.code /\ Last(s).up = ~s.down
<1>1. s.key \in Key /\ s.down \in BOOLEAN
  BY DEF Sent
<1>2. s.key.code \in ScanCodes \ {"E0", "E1"} /\ s.key.e0 \in BOOLEAN
  BY <1>1, KeyboardAssumption DEF ScanCodes
<1>3. /\ Last(s).code = s.key.code /\ Last(s).up = ~s.down
      /\ E0.code = "E0" /\ E1.code = "E1"
  BY DEF Last, E0, E1, Down
<1>4. Last(s) \in ByteType
  BY <1>1, <1>2 DEF Last, ByteType
<1>5. QED
  BY <1>1, <1>2, <1>3, <1>4

LEMMA CodesOf ==
  ASSUME NEW k \in Key
  PROVE  /\ Codes(k) \subseteq BOOLEAN \X ScanCodes
         /\ k = PrintScreen => Codes(k) = {<<TRUE, "print">>, <<TRUE, "lshift">>}
         /\ k # PrintScreen => Codes(k) = {<<k.e0, k.code>>}
<1>1. k.e0 \in BOOLEAN /\ k.code \in ScanCodes /\ "lshift" \in ScanCodes
  BY KeyboardAssumption DEF ScanCodes
<1>2. <<TRUE, "lshift">> \in BOOLEAN \X ScanCodes /\ <<k.e0, k.code>> \in BOOLEAN \X ScanCodes
  BY <1>1
<1>3. CASE k = PrintScreen
  <2>1. k.e0 = TRUE /\ k.code = "print"
    BY <1>3 DEF PrintScreen
  <2>2. Codes(k) = {<<TRUE, "print">>, <<TRUE, "lshift">>}
    BY <1>3, <2>1 DEF Codes
  <2>3. QED
    BY <1>2, <1>3, <2>1, <2>2
<1>4. CASE k # PrintScreen
  <2>1. Codes(k) = {<<k.e0, k.code>>}
    BY <1>4 DEF Codes
  <2>2. QED
    BY <1>2, <1>4, <2>1
<1>5. QED
  BY <1>3, <1>4

(* No two keys have an entry in common.                                    *)
LEMMA CodesApart ==
  ASSUME NEW j \in Key, NEW k \in Key, j # k
  PROVE  Codes(j) \cap Codes(k) = {}
<1>1. /\ j \in [code : STRING, e0 : BOOLEAN] /\ k \in [code : STRING, e0 : BOOLEAN]
      /\ [code |-> "lshift", e0 |-> TRUE] \notin Key
  BY KeyboardAssumption
<1>2. \A x \in Key : x # PrintScreen => <<x.e0, x.code>> \notin {<<TRUE, "print">>, <<TRUE, "lshift">>}
  <2>1. ASSUME NEW x \in Key, x # PrintScreen, x.e0 = TRUE
        PROVE  x.code \notin {"print", "lshift"}
    <3>1. x = [code |-> x.code, e0 |-> TRUE]
      BY <2>1, KeyboardAssumption
    <3>2. QED
      BY <1>1, <2>1, <3>1 DEF PrintScreen
  <2>2. QED
    BY <2>1
<1>3. CASE j = PrintScreen \/ k = PrintScreen
  BY <1>2, <1>3, CodesOf
<1>4. CASE j # PrintScreen /\ k # PrintScreen
  <2>1. j.e0 # k.e0 \/ j.code # k.code
    BY <1>1
  <2>2. <<j.e0, j.code>> # <<k.e0, k.code>>
    BY <2>1
  <2>3. QED
    BY <1>4, <2>2, CodesOf
<1>5. QED
  BY <1>3, <1>4

(* A press pushes at most one symbol, and the bytes that are not the last  *)
(* of a key push none.                                                     *)
Harmless == {"E0", "E1", "ctrl", "num", "lshift", "print"}

LEMMA SymbolOf ==
  ASSUME NEW code, NEW ext \in BOOLEAN, NEW sh, NEW al \in BOOLEAN
  PROVE  /\ Symbol(code, ext, sh, al) = <<>> \/ \E x : Symbol(code, ext, sh, al) = <<x>>
         /\ code \in Harmless => Symbol(code, ext, sh, al) = <<>>
<1>1. CASE ext
  BY <1>1 DEF Symbol, Cursor, Harmless
<1>2. CASE ~ext /\ al
  BY <1>2 DEF Symbol, Polish, Harmless
<1>3. CASE ~ext /\ ~al
  BY <1>3 DEF Symbol, Mapped, Harmless
<1>4. QED
  BY <1>1, <1>2, <1>3
-----------------------------------------------------------------------------
(* The byte that comes, for each number of bytes that are to come.         *)
Coming(s, n, b) ==
  /\ n \in 1 .. 6
  /\ s.key = Pause => s.down /\ (n = 6 => b = E1)
  /\ s.key = PrintScreen =>
       /\ n <= 4
       /\ n \in {2, 4} => b = E0
       /\ n = 3 => b = [code |-> IF s.down THEN "lshift" ELSE "print", up |-> ~s.down]
       /\ n = 1 => b = [code |-> IF s.down THEN "print" ELSE "lshift", up |-> ~s.down]
  /\ s.key \notin {Pause, PrintScreen} =>
       /\ n <= 2
       /\ n = 2 => b = E0 /\ s.key.e0
       /\ n = 1 => b = Last(s)
  /\ n > 1 => b.code \in Harmless

(* A wire that carries bytes, or none.                                     *)
Typed(w) == Len(w) <= 6 /\ \A i \in DOMAIN w : w[i] \in ByteType

(* The bytes of Pause, one after the other.                                *)
LEMMA PauseComes ==
  ASSUME NEW w \in PauseWires, w # <<>>
  PROVE  /\ Len(w) \in 1 .. 6 /\ (Len(w) = 6 => Head(w) = E1)
         /\ Head(w) \in ByteType /\ Head(w).code \in Harmless /\ Typed(w)
         /\ Tail(w) \in PauseWires /\ Len(Tail(w)) = Len(w) - 1
         /\ Tail(w) = <<>> <=> Len(w) = 1
<1> DEFINE n == Up("num")
           c == Up("ctrl")
           m == Down("num")
           d == Down("ctrl")
           e == E1
<1>1. \A x \in {n, c, m, d, e} : x \in ByteType /\ x.code \in Harmless
  <2>1. \A s \in {"ctrl", "num", "E1"} :
          /\ Up(s) \in ByteType /\ Up(s).code \in Harmless
          /\ Down(s) \in ByteType /\ Down(s).code \in Harmless
    BY DEF ByteType, ScanCodes, Harmless, Up, Down
  <2>2. QED
    BY <2>1 DEF E1
<1>2. PauseWires = {<<>>, <<n>>, <<c, n>>, <<e, c, n>>, <<m, e, c, n>>, <<d, m, e, c, n>>,
                    <<e, d, m, e, c, n>>}
  BY DEF PauseWires
<1> HIDE DEF n, c, m, d, e
<1>3. CASE w = <<n>>
  BY <1>1, <1>2, <1>3 DEF Typed
<1>4. CASE w = <<c, n>>
  BY <1>1, <1>2, <1>4 DEF Typed
<1>5. CASE w = <<e, c, n>>
  BY <1>1, <1>2, <1>5 DEF Typed
<1>6. CASE w = <<m, e, c, n>>
  BY <1>1, <1>2, <1>6 DEF Typed
<1>7. CASE w = <<d, m, e, c, n>>
  BY <1>1, <1>2, <1>7 DEF Typed
<1>8. CASE w = <<e, d, m, e, c, n>>
  BY <1>1, <1>2, <1>8 DEF e, Typed
<1>9. QED
  BY <1>2, <1>3, <1>4, <1>5, <1>6, <1>7, <1>8

LEMMA TwoComes ==
  ASSUME NEW x \in ByteType, NEW y \in ByteType, NEW w \in TwoKeys(x, y), w # <<>>,
         x.code \in Harmless
  PROVE  /\ Len(w) \in 1 .. 4
         /\ Head(w) = IF Len(w) \in {2, 4} THEN E0 ELSE IF Len(w) = 3 THEN x ELSE y
         /\ Head(w) \in ByteType /\ (Len(w) > 1 => Head(w).code \in Harmless) /\ Typed(w)
         /\ Tail(w) \in TwoKeys(x, y) /\ Len(Tail(w)) = Len(w) - 1
         /\ Tail(w) = <<>> <=> Len(w) = 1
<1> DEFINE e == E0
<1>1. e \in ByteType /\ e.code \in Harmless
  BY DEF ByteType, ScanCodes, Harmless, Down, E0
<1>2. TwoKeys(x, y) = {<<>>, <<y>>, <<e, y>>, <<x, e, y>>, <<e, x, e, y>>} /\ E0 = e
  BY DEF TwoKeys
<1> HIDE DEF e
<1>3. CASE w = <<y>>
  BY <1>1, <1>2, <1>3 DEF Typed
<1>4. CASE w = <<e, y>>
  BY <1>1, <1>2, <1>4 DEF Typed
<1>5. CASE w = <<x, e, y>>
  BY <1>1, <1>2, <1>5 DEF Typed
<1>6. CASE w = <<e, x, e, y>>
  BY <1>1, <1>2, <1>6 DEF Typed
<1>7. QED
  BY <1>2, <1>3, <1>4, <1>5, <1>6

LEMMA WireComes ==
  ASSUME NEW s \in Sent, NEW w \in Wires(s), w # <<>>
  PROVE  /\ Coming(s, Len(w), Head(w)) /\ Head(w) \in ByteType /\ Typed(w)
         /\ Tail(w) \in Wires(s) /\ Len(Tail(w)) = Len(w) - 1
         /\ Tail(w) = <<>> <=> Len(w) = 1
<1> DEFINE n == Len(w)
           h == Head(w)
<1>1. Pause # PrintScreen /\ s.down \in BOOLEAN
  BY SentTyped DEF Pause, PrintScreen
<1>2. CASE s.key = Pause
  <2>1. s.down /\ w \in PauseWires \ {<<>>} /\ Wires(s) = PauseWires
    BY <1>2 DEF Wires
  <2>2. /\ n \in 1 .. 6 /\ (n = 6 => h = E1) /\ h \in ByteType /\ h.code \in Harmless
        /\ Typed(w) /\ Tail(w) \in PauseWires /\ Len(Tail(w)) = n - 1
        /\ Tail(w) = <<>> <=> n = 1
    BY <2>1, PauseComes
  <2> HIDE DEF n, h
  <2>3. Coming(s, n, h)
    BY <1>1, <1>2, <2>1, <2>2 DEF Coming
  <2>4. QED
    BY <2>1, <2>2, <2>3 DEF n, h
<1>3. CASE s.key = PrintScreen
  <2> DEFINE x == [code |-> IF s.down THEN "lshift" ELSE "print", up |-> ~s.down]
             y == [code |-> IF s.down THEN "print" ELSE "lshift", up |-> ~s.down]
  <2>1. s.key \in Key /\ s.key.code = "print"
    BY <1>3, SentTyped DEF PrintScreen
  <2>2. x \in ByteType /\ y \in ByteType /\ x.code \in Harmless
    BY <1>1, <2>1 DEF ByteType, ScanCodes, Harmless
  <2>3. Wires(s) = TwoKeys(x, y)
    BY <1>1, <1>3, <2>1 DEF Wires, Down, Up
  <2> HIDE DEF x, y
  <2>4. /\ n \in 1 .. 4
        /\ h = IF n \in {2, 4} THEN E0 ELSE IF n = 3 THEN x ELSE y
        /\ h \in ByteType /\ (n > 1 => h.code \in Harmless) /\ Typed(w)
        /\ Tail(w) \in TwoKeys(x, y) /\ Len(Tail(w)) = n - 1
        /\ Tail(w) = <<>> <=> n = 1
    BY <2>2, <2>3, TwoComes
  <2> HIDE DEF n, h
  <2>5. Coming(s, n, h)
    BY <1>1, <1>3, <2>4 DEF Coming, x, y
  <2>6. QED
    BY <2>3, <2>4, <2>5 DEF n, h
<1>4. CASE s.key \notin {Pause, PrintScreen}
  <2> DEFINE l == Last(s)
             e == E0
  <2>1. l \in ByteType /\ e \in ByteType /\ e.code \in Harmless
    BY SentTyped DEF ByteType, ScanCodes, Harmless, E0, Down
  <2>2. Wires(s) = {<<>>, <<l>>} \cup IF s.key.e0 THEN {<<e, l>>} ELSE {}
    BY <1>4 DEF Wires
  <2> HIDE DEF l, e
  <2>3. CASE w = <<l>>
    <3>1. /\ h = l /\ Tail(w) = <<>> /\ n = 1 /\ Typed(w)
          /\ Len(Tail(w)) = 0
      BY <2>1, <2>3 DEF Typed
    <3>2. Coming(s, n, h)
      BY <1>4, <3>1 DEF Coming, l
    <3>3. QED
      BY <2>1, <2>2, <3>1, <3>2
  <2>4. CASE w = <<e, l>> /\ s.key.e0
    <3>1. /\ h = e /\ Tail(w) = <<l>> /\ n = 2 /\ Typed(w)
          /\ Len(Tail(w)) = 1 /\ Tail(w) # <<>>
      BY <2>1, <2>4 DEF Typed
    <3>2. Coming(s, n, h)
      BY <1>4, <2>1, <2>4, <3>1 DEF Coming, e
    <3>3. QED
      BY <2>1, <2>2, <3>1, <3>2
  <2>5. QED
    BY <2>2, <2>3, <2>4
<1>5. QED
  BY <1>2, <1>3, <1>4

(* What the keyboard sends is one of the wires it may send.                *)
LEMMA PressSends ==
  ASSUME NEW s \in Sent, s.down, NEW w, w = Press(s.key)
  PROVE  /\ w \in Wires(s) /\ w # <<>>
         /\ Len(w) = IF s.key = Pause THEN 6 ELSE IF s.key = PrintScreen THEN 4
                     ELSE IF s.key.e0 THEN 2 ELSE 1
<1>1. Pause # PrintScreen
  BY DEF Pause, PrintScreen
<1>2. CASE s.key = Pause
  <2>1. w = <<E1, Down("ctrl"), Down("num"), E1, Up("ctrl"), Up("num")>>
    BY <1>1, <1>2 DEF Press
  <2>2. QED
    BY <1>2, <2>1 DEF Wires, PauseWires
<1>3. CASE s.key = PrintScreen
  <2>1. w = <<E0, Down("lshift"), E0, Down("print")>>
    BY <1>1, <1>3 DEF Press
  <2>2. QED
    BY <1>1, <1>3, <2>1 DEF Wires, TwoKeys
<1>4. CASE s.key \notin {Pause, PrintScreen}
  <2>1. w = IF s.key.e0 THEN <<E0, Last(s)>> ELSE <<Last(s)>>
    BY <1>4 DEF Press, Last, Down
  <2>2. QED
    BY <1>4, <2>1 DEF Wires
<1>5. QED
  BY <1>2, <1>3, <1>4

LEMMA LiftSends ==
  ASSUME NEW s \in Sent, ~s.down, s.key # Pause, NEW w, w = Lift(s.key)
  PROVE  /\ w \in Wires(s) /\ w # <<>>
         /\ Len(w) = IF s.key = PrintScreen THEN 4 ELSE IF s.key.e0 THEN 2 ELSE 1
<1>1. CASE s.key = PrintScreen
  <2>1. w = <<E0, Up("print"), E0, Up("lshift")>>
    BY <1>1 DEF Lift
  <2>2. QED
    BY <1>1, <2>1 DEF Wires, TwoKeys
<1>2. CASE s.key # PrintScreen
  <2>1. w = IF s.key.e0 THEN <<E0, Last(s)>> ELSE <<Last(s)>>
    BY <1>2 DEF Lift, Last, Up
  <2>2. QED
    BY <1>2, <2>1 DEF Wires
<1>3. QED
  BY <1>1, <1>2

LEMMA NoWire ==
  ASSUME NEW s \in Sent
  PROVE  <<>> \in Wires(s) /\ Typed(<<>>)
<1>1. Typed(<<>>)
  BY DEF Typed
<1>2. s.down \in BOOLEAN
  BY DEF Sent
<1>3. QED
  BY <1>1, <1>2 DEF Wires, PauseWires, TwoKeys
-----------------------------------------------------------------------------
(* Whatever the decoder remembers, a byte changes it to something of its   *)
(* type, and only the last byte of a key pushes a symbol.                  *)
LEMMA ByteTypes ==
  ASSUME IInv, Byte
  PROVE  TypeOK' /\ WireInv' /\ HeldInv' /\ PushedInv'
<1> DEFINE n == Len(wire)
           b == Head(wire)
<1>1. /\ sent \in Sent /\ wire \in Wires(sent) /\ wire # <<>> /\ pushed = <<>>
      /\ held' = held /\ sent' = sent /\ resetting' = resetting /\ reset' = reset
      /\ wire' = Tail(wire)
  BY DEF IInv, TypeOK, Sent, WireInv, PushedInv, Byte
<1>2. /\ shift \in BOOLEAN /\ ctrl \in BOOLEAN /\ alt \in BOOLEAN /\ extended \in BOOLEAN
      /\ rebooted \in BOOLEAN /\ ignore \in 0 .. 5 /\ state \subseteq BOOLEAN \X ScanCodes
  BY DEF IInv, TypeOK
<1>3. /\ Coming(sent, n, b) /\ b \in ByteType /\ wire' \in Wires(sent)
      /\ wire' = <<>> <=> n = 1
  BY <1>1, WireComes
<1>4. WireInv' /\ HeldInv'
  BY <1>1, <1>3 DEF WireInv, HeldInv, IInv
<1>5. Typed(wire')
  BY <1>1, <1>3, WireComes, NoWire
<1> HIDE DEF n, b
<1>6. \/ /\ ignore' \in 0 .. 5 /\ extended' \in BOOLEAN
         /\ UNCHANGED <<shift, ctrl, alt, state, pushed, rebooted>>
      \/ KeyByte(b)
  <2>1. CASE ignore > 0 /\ ignore' = ignore - 1
             /\ UNCHANGED <<shift, ctrl, alt, extended, state, pushed, rebooted>>
    BY <1>2, <2>1
  <2>2. CASE /\ ignore' = PauseBytes \/ ignore' = ignore
             /\ extended' = FALSE \/ extended' = TRUE
             /\ UNCHANGED <<shift, ctrl, alt, state, pushed, rebooted>>
    <3>1. ignore' = 5 => ignore' \in 0 .. 5
      OBVIOUS
    <3>2. ignore' \in 0 .. 5
      BY <1>2, <2>2, <3>1 DEF PauseBytes
    <3>3. QED
      BY <2>2, <3>2
  <2>3. CASE KeyByte(b)
    BY <2>3
  <2>4. QED
    BY <2>1, <2>2, <2>3 DEF Byte, b
<1>7. /\ shift' \in BOOLEAN /\ ctrl' \in BOOLEAN /\ alt' \in BOOLEAN /\ extended' \in BOOLEAN
      /\ rebooted' \in BOOLEAN /\ ignore' \in 0 .. 5 /\ state' \subseteq BOOLEAN \X ScanCodes
  <2>1. CASE KeyByte(b)
    <3>1. b.up \in BOOLEAN /\ b.code \in ScanCodes
      BY <1>3 DEF ByteType
    <3>2. Entry(b) \in BOOLEAN \X ScanCodes
      BY <1>2, <3>1 DEF Entry
    <3>3. state' \subseteq BOOLEAN \X ScanCodes
      BY <1>2, <2>1, <3>2 DEF KeyByte
    <3>4. /\ shift' \in BOOLEAN /\ ctrl' \in BOOLEAN /\ alt' \in BOOLEAN
      BY <1>2, <2>1, <3>1 DEF KeyByte, Modifier
    <3>5. extended' \in BOOLEAN /\ rebooted' \in BOOLEAN /\ ignore' \in 0 .. 5
      BY <1>2, <2>1 DEF KeyByte, NextExtended
    <3>6. QED
      BY <3>3, <3>4, <3>5
  <2>2. QED
    BY <1>2, <1>6, <2>1
<1>8. Len(pushed') <= 1 /\ (wire' # <<>> => pushed' = <<>>)
  <2>1. CASE KeyByte(b)
    <3> DEFINE y == Symbol(b.code, extended, shift', alt')
    <3>1. /\ y = <<>> \/ \E x : y = <<x>>
          /\ b.code \in Harmless => y = <<>>
      BY <1>2, <1>7, SymbolOf
    <3>2. pushed' = <<>> \/ pushed' = <<>> \o y
      BY <1>1, <2>1 DEF KeyByte
    <3> HIDE DEF y
    <3>3. <<>> \o y = y
      BY <3>1
    <3>4. n # 1 => b.code \in Harmless
      BY <1>3 DEF Coming
    <3>5. pushed' = <<>> \/ \E x : pushed' = <<x>>
      BY <3>1, <3>2, <3>3
    <3>6. Len(pushed') <= 1
      <4>1. pushed' = <<>> => Len(pushed') <= 1
        OBVIOUS
      <4>2. ASSUME NEW x, pushed' = <<x>>
            PROVE  Len(pushed') <= 1
        BY <4>2
      <4>3. QED
        BY <3>5, <4>1, <4>2
    <3>7. wire' # <<>> => pushed' = <<>>
      BY <1>3, <3>1, <3>2, <3>3, <3>4
    <3>8. QED
      BY <3>6, <3>7
  <2>2. CASE UNCHANGED pushed
    BY <1>1, <2>2
  <2>3. QED
    BY <1>6, <2>1, <2>2
<1>9. TypeOK'
  <2>1. held' \subseteq Key /\ sent' \in [key : Key, down : BOOLEAN]
        /\ resetting' \in 0 .. 6 /\ reset' \in {"never", "clean", "torn"}
    BY <1>1 DEF IInv, TypeOK
  <2>2. QED
    BY <1>5, <1>7, <1>8, <2>1 DEF TypeOK, Typed, ByteType
<1>10. QED
  BY <1>4, <1>8, <1>9 DEF PushedInv

(* A key that is neither Pause nor Print Screen sends one byte or two.     *)
LEMMA KeyComes ==
  ASSUME NEW s \in Sent, NEW n, NEW b, Coming(s, n, b), s.key \notin {Pause, PrintScreen}
  PROVE  \/ n = 1 /\ b = Last(s)
         \/ n = 2 /\ b = E0 /\ s.key.e0
<1>1. n \in 1 .. 6 /\ n <= 2
  BY DEF Coming
<1>2. n = 1 \/ n = 2
  BY <1>1
<1>3. QED
  BY <1>2 DEF Coming

LEMMA PrintComes ==
  ASSUME NEW s \in Sent, NEW n, NEW b, Coming(s, n, b), s.key = PrintScreen
  PROVE  \/ n \in {2, 4} /\ b = E0
         \/ n \in {1, 3} /\ b = [code |-> IF s.down = (n = 3) THEN "lshift" ELSE "print",
                                 up |-> ~s.down]
<1>1. n \in 1 .. 6 /\ n <= 4 /\ s.down \in BOOLEAN
  BY SentTyped DEF Coming
<1>2. n = 1 \/ n = 2 \/ n = 3 \/ n = 4
  BY <1>1
<1>3. CASE n = 1
  BY <1>1, <1>3 DEF Coming
<1>4. CASE n = 3
  BY <1>1, <1>4 DEF Coming
<1>5. QED
  BY <1>2, <1>3, <1>4 DEF Coming

(* Byte b is handled when n are to come: it is the one that comes then, and*)
(* n - 1 are left.                                                         *)
Handled(n, b) ==
  /\ n = Len(wire) /\ b = Head(wire) /\ wire # <<>>
  /\ wire' = <<>> <=> n = 1
  /\ Len(wire') = n - 1
  /\ held' = held /\ sent' = sent /\ reset' = reset

(* It is a prefix or ignored, or it is taken for the key that it is of.    *)
Waits(n) ==
  /\ sent.key = Pause \/ n \in {2, 4}
  /\ UNCHANGED <<shift, ctrl, alt, state, pushed, rebooted>>

Taken(n, b) ==
  /\ sent.key # Pause /\ n \in {1, 3}
  /\ KeyByte(b) /\ (extended <=> sent.key.e0)

(* In step: the bytes of Pause are ignored, a prefix is remembered, and    *)
(* what comes after it is taken for the key it is of.                      *)
LEMMA ByteInStep ==
  ASSUME IInv, Byte, reset # "torn"
  PROVE  /\ PrefixInv' /\ sent \in Sent
         /\ \E n, b : Handled(n, b) /\ Coming(sent, n, b) /\ (Waits(n) \/ Taken(n, b))
<1> DEFINE n == Len(wire)
           b == Head(wire)
<1>1. /\ sent \in Sent /\ wire \in Wires(sent) /\ wire # <<>>
      /\ held' = held /\ sent' = sent /\ reset' = reset /\ wire' = Tail(wire)
  BY DEF IInv, TypeOK, Sent, WireInv, Byte
<1>2. /\ Coming(sent, n, b)
      /\ wire' = <<>> <=> n = 1
      /\ Len(wire') = n - 1
  BY <1>1, WireComes
<1>3. /\ extended <=> sent.key.e0 /\ n \in {1, 3}
      /\ ignore = IF sent.key = Pause /\ n # 6 THEN n ELSE 0
  BY DEF IInv, PrefixInv
<1>4. /\ \/ ignore > 0 /\ ignore' = ignore - 1 /\ extended' = extended
            /\ UNCHANGED <<shift, ctrl, alt, state, pushed, rebooted>>
         \/ ignore = 0 /\ b = E1 /\ ignore' = 5 /\ extended' = FALSE
            /\ UNCHANGED <<shift, ctrl, alt, state, pushed, rebooted>>
         \/ ignore = 0 /\ b = E0 /\ ignore' = ignore /\ extended' = TRUE
            /\ UNCHANGED <<shift, ctrl, alt, state, pushed, rebooted>>
         \/ ignore = 0 /\ b \notin {E0, E1} /\ KeyByte(b) /\ ignore' = ignore
            /\ extended' = FALSE
  BY DEF Byte, PauseBytes, KeyByte, NextExtended
<1>5. E0 # E1 /\ Pause # PrintScreen /\ Pause.e0 = FALSE /\ PrintScreen.e0 = TRUE
  BY DEF E0, E1, Down, Pause, PrintScreen
<1>6. SUFFICES /\ extended' <=> sent.key.e0 /\ (n - 1) \in {1, 3}
               /\ ignore' = IF sent.key = Pause /\ n - 1 # 6 THEN n - 1 ELSE 0
               /\ Waits(n) \/ Taken(n, b)
  <2>1. Handled(n, b)
    BY <1>1, <1>2 DEF Handled
  <2> HIDE DEF n, b
  <2>2. PrefixInv'
    BY <1>1, <1>2, <1>6 DEF PrefixInv
  <2>3. QED
    BY <1>1, <1>2, <1>6, <2>1, <2>2
<1> HIDE DEF n, b
<1>7. CASE sent.key = Pause
  <2>1. n \in 1 .. 6 /\ (n = 6 => b = E1) /\ sent.key.e0 = FALSE
    BY <1>2, <1>5, <1>7 DEF Coming
  <2>2. CASE n = 6
    BY <1>3, <1>4, <1>5, <1>7, <2>1, <2>2 DEF Waits
  <2>3. CASE n # 6
    <3>1. ignore = n /\ n \in 1 .. 5
      BY <1>3, <1>7, <2>1, <2>3
    <3>2. /\ ignore' = n - 1 /\ extended' = extended
          /\ UNCHANGED <<shift, ctrl, alt, state, pushed, rebooted>>
      BY <1>4, <3>1
    <3>3. QED
      BY <1>3, <1>7, <2>1, <3>1, <3>2 DEF Waits
  <2>4. QED
    BY <2>2, <2>3
<1>8. CASE sent.key # Pause
  <2>1. ignore = 0
    BY <1>3, <1>8
  <2>2. /\ n \in {1, 2, 3, 4} /\ (n \in {2, 4} => b = E0 /\ sent.key.e0)
        /\ n \in {1, 3} => b \notin {E0, E1}
    <3>1. CASE sent.key = PrintScreen
      <4>1. n \in {1, 2, 3, 4} /\ (n \in {2, 4} => b = E0 /\ sent.key.e0)
        BY <1>2, <1>5, <3>1 DEF Coming
      <4>2. n \in {1, 3} => b.code \in {"lshift", "print"}
        BY <1>2, <1>5, <3>1 DEF Coming
      <4>3. E0.code = "E0" /\ E1.code = "E1"
        BY DEF E0, E1, Down
      <4>4. QED
        BY <4>1, <4>2, <4>3
    <3>2. CASE sent.key # PrintScreen
      <4>1. n \in {1, 2} /\ (n = 2 => b = E0 /\ sent.key.e0) /\ (n = 1 => b = Last(sent))
        BY <1>1, <1>2, <1>8, <3>2, KeyComes
      <4>2. Last(sent) \notin {E0, E1}
        BY <1>1, SentTyped
      <4>3. QED
        BY <4>1, <4>2
    <3>3. QED
      BY <3>1, <3>2
  <2>3. CASE n \in {2, 4}
    BY <1>4, <1>5, <1>8, <2>1, <2>2, <2>3 DEF Waits
  <2>4. CASE n \in {1, 3}
    BY <1>3, <1>4, <1>8, <2>1, <2>2, <2>4 DEF Taken
  <2>5. QED
    BY <2>2, <2>3, <2>4
<1>9. QED
  BY <1>7, <1>8

(* A byte that is taken for a key is the next of the entries to change.    *)
LEMMA ByteTaken ==
  ASSUME NEW n, NEW b, Handled(n, b), Coming(sent, n, b), Taken(n, b),
         sent \in Sent, extended \in BOOLEAN
  PROVE  /\ b.up = ~sent.down /\ Entry(b) \in Codes(sent.key) /\ Entry(b)[2] = b.code
         /\ Pending = {Entry(b)} \cup Pending' /\ Entry(b) \notin Pending'
         /\ n = 1 => Pending' = {}
         /\ sent.key # PrintScreen => n = 1 /\ b.code = sent.key.code
         /\ sent.key = PrintScreen => b.code \in {"print", "lshift"}
         /\ sent.key = PrintScreen /\ n = 1 =>
              b.code = IF sent.down THEN "print" ELSE "lshift"
<1>1. sent.key \in Key /\ sent.down \in BOOLEAN /\ sent.key.e0 \in BOOLEAN
  BY SentTyped
<1>2. /\ extended = sent.key.e0 /\ sent.key # Pause /\ n \in {1, 3} /\ sent' = sent
  BY <1>1 DEF Taken, Handled
<1>3. CASE sent.key = PrintScreen
  <2> DEFINE e == Entry(b)
             f == First(sent)
             g == Second(sent)
  <2>1. /\ b = [code |-> IF sent.down = (n = 3) THEN "lshift" ELSE "print", up |-> ~sent.down]
        /\ PrintScreen.e0 = TRUE
    BY <1>2, <1>3, PrintComes DEF PrintScreen
  <2>2. /\ b.up = ~sent.down /\ b.code \in {"print", "lshift"} /\ e[2] = b.code
        /\ n = 1 => b.code = IF sent.down THEN "print" ELSE "lshift"
    <3>1. b.up = ~sent.down /\ b.code = IF sent.down = (n = 3) THEN "lshift" ELSE "print"
      BY <2>1
    <3>2. e[2] = b.code
      BY DEF Entry
    <3> HIDE DEF e
    <3>3. n = 1 => b.code = IF sent.down THEN "print" ELSE "lshift"
      BY <1>1, <3>1
    <3>4. QED
      BY <3>1, <3>2, <3>3
  <2>3. e = IF n = 3 THEN f ELSE g
    <3>1. e = <<TRUE, b.code>>
      BY <1>2, <1>3, <2>1 DEF Entry
    <3>2. CASE sent.down = TRUE
      BY <1>2, <2>1, <3>1, <3>2 DEF First, Second
    <3>3. CASE sent.down = FALSE
      BY <1>2, <2>1, <3>1, <3>3 DEF First, Second
    <3>4. QED
      BY <1>1, <3>2, <3>3
  <2>4. Codes(sent.key) = {f, g} /\ f # g
    <3>1. Codes(sent.key) = {<<TRUE, "print">>, <<TRUE, "lshift">>}
      BY <1>1, <1>3, CodesOf
    <3>2. QED
      BY <1>1, <3>1 DEF First, Second
  <2>5. /\ wire # <<>> /\ n = Len(wire) /\ sent' = sent
        /\ n = 1 => wire' = <<>>
        /\ n = 3 => wire' # <<>> /\ Len(wire') = 2
    <3>1. wire # <<>> /\ n = Len(wire) /\ sent' = sent /\ (wire' = <<>> <=> n = 1)
      BY <1>2 DEF Handled
    <3>2. Len(wire') = n - 1
      BY DEF Handled
    <3>3. QED
      BY <3>1, <3>2
  <2>6. /\ n = 1 => Pending = {g} /\ Pending' = {}
        /\ n = 3 => Pending = {f, g} /\ Pending' = {g}
    <3>1. CASE n = 1
      <4>1. wire # <<>> /\ Len(wire) = 1 /\ wire' = <<>>
        BY <2>5, <3>1
      <4>2. QED
        BY <1>2, <1>3, <3>1, <4>1 DEF Pending
    <3>2. CASE n = 3
      <4>1. wire # <<>> /\ Len(wire) = 3 /\ wire' # <<>> /\ Len(wire') = 2
        BY <2>5, <3>2
      <4>2. Pending = Codes(sent.key) /\ Pending' = {Second(sent)}
        BY <1>2, <1>3, <4>1 DEF Pending
      <4>3. QED
        BY <2>4, <3>2, <4>2
    <3>3. QED
      BY <1>2, <3>1, <3>2
  <2> HIDE DEF e, f, g
  <2>7. Pending = {e} \cup Pending' /\ e \notin Pending' /\ e \in Codes(sent.key)
    BY <1>2, <2>3, <2>4, <2>6
  <2>8. QED
    BY <1>3, <2>2, <2>6, <2>7 DEF e
<1>4. CASE sent.key # PrintScreen
  <2>1. n = 1 /\ b = Last(sent)
    BY <1>2, <1>4, KeyComes
  <2>2. b.up = ~sent.down /\ b.code = sent.key.code
    BY <2>1, SentTyped
  <2>3. Entry(b) = <<sent.key.e0, sent.key.code>> /\ Codes(sent.key) = {Entry(b)}
    BY <1>1, <1>2, <1>4, <2>2, CodesOf DEF Entry
  <2>4. Pending' = {} /\ Pending = Codes(sent.key)
    <3>1. wire # <<>> /\ wire' = <<>>
      BY <2>1 DEF Handled
    <3>2. QED
      BY <1>2, <1>4, <3>1 DEF Pending
  <2>5. QED
    BY <1>4, <2>1, <2>2, <2>3, <2>4 DEF Entry
<1>5. QED
  BY <1>3, <1>4

(* A prefix, or a byte of Pause, leaves what is to change as it was.       *)
LEMMA ByteWaits ==
  ASSUME NEW n, NEW b, Handled(n, b), Coming(sent, n, b), Waits(n), sent \in Sent
  PROVE  Pending' = Pending
<1>1. CASE sent.key = Pause
  BY <1>1 DEF Pending, Handled
<1>2. CASE sent.key # Pause /\ n = 2
  <2>1. wire # <<>> /\ wire' # <<>> /\ Len(wire) = 2 /\ Len(wire') = 1 /\ sent' = sent
    BY <1>2 DEF Handled
  <2>2. QED
    BY <1>2, <2>1 DEF Pending
<1>3. CASE sent.key # Pause /\ n = 4
  <2>1. wire # <<>> /\ wire' # <<>> /\ Len(wire) = 4 /\ Len(wire') = 3 /\ sent' = sent
    BY <1>3 DEF Handled
  <2>2. sent.key = PrintScreen
    BY <1>3, KeyComes
  <2>3. Pending = Codes(sent.key) /\ Pending' = Codes(sent.key)
    BY <1>3, <2>1, <2>2 DEF Pending
  <2>4. QED
    BY <2>3
<1>4. QED
  BY <1>1, <1>2, <1>3 DEF Waits

LEMMA ByteState ==
  ASSUME IInv, Byte
  PROVE  StateInv'
<1>1. sent' = sent /\ held' = held /\ reset' = reset /\ Entries' = Entries
  BY DEF Byte, Entries
<1>2. CASE reset = "torn"
  BY <1>1, <1>2 DEF StateInv
<1>3. CASE reset # "torn"
  <2>1. sent \in Sent
    BY DEF IInv, TypeOK, Sent
  <2>2. PICK n, b : Handled(n, b) /\ Coming(sent, n, b) /\ (Waits(n) \/ Taken(n, b))
    BY <1>3, ByteInStep
  <2>3. StateInv /\ HeldInv /\ extended \in BOOLEAN /\ sent.down \in BOOLEAN
    BY <2>1 DEF IInv, TypeOK, Sent
  <2>4. CASE Waits(n)
    <3>1. Pending' = Pending /\ state' = state
      BY <2>1, <2>2, <2>4, ByteWaits DEF Waits
    <3>2. QED
      BY <1>1, <2>3, <3>1 DEF StateInv
  <2>5. CASE Taken(n, b)
    <3> DEFINE e == Entry(b)
    <3>1. /\ b.up = ~sent.down /\ e \in Codes(sent.key)
          /\ Pending = {e} \cup Pending'
          /\ e \notin Pending'
      BY <2>1, <2>2, <2>3, <2>5, ByteTaken
    <3>2. state' = IF sent.down THEN state \cup {e} ELSE state \ {e}
      BY <2>3, <2>5, <3>1 DEF Taken, KeyByte
    <3> HIDE DEF e
    <3>3. sent.down => e \in Entries
      BY <2>3, <2>5, <3>1 DEF HeldInv, Entries, Taken
    <3>4. QED
      BY <1>1, <2>3, <3>1, <3>2, <3>3 DEF StateInv
  <2>6. QED
    BY <2>2, <2>4, <2>5
<1>4. QED
  BY <1>2, <1>3

(* A modifier that stays pressed has a key that stays, and one that becomes*)
(* so has the key the byte is of.                                          *)
LEMMA ByteHolds ==
  ASSUME IInv, NEW n, NEW b, Handled(n, b), Coming(sent, n, b), Waits(n) \/ Taken(n, b),
         sent \in Sent, NEW codes, "print" \notin codes, NEW was, NEW now,
         was => ByOneOf(codes), Waits(n) => now = was, Taken(n, b) => now = Modifier(was, codes, b)
  PROVE  now => ByOneOf(codes)'
<1> SUFFICES ASSUME now
             PROVE  ByOneOf(codes)'
  OBVIOUS
<1>1. /\ sent' = sent /\ held' = held /\ held \subseteq Key /\ sent.key \in Key
      /\ sent.down \in BOOLEAN /\ extended \in BOOLEAN /\ HeldInv
  BY SentTyped DEF Handled, IInv, TypeOK
<1>2. CASE sent.down
  <2>1. Holders = held /\ Holders' = held
    BY <1>1, <1>2 DEF Holders
  <2>2. ByOneOf(codes)' <=> ByOneOf(codes)
    BY <2>1 DEF ByOneOf
  <2>3. CASE was
    BY <2>2, <2>3
  <2>4. CASE ~was
    <3>1. Taken(n, b) /\ b.code \in codes
      BY <2>4 DEF Modifier
    <3>2. Entry(b) \in Codes(sent.key) /\ Entry(b)[2] = b.code
      BY <1>1, <3>1, ByteTaken
    <3>3. sent.key \in held
      BY <1>1, <1>2, <3>1 DEF HeldInv, Taken
    <3>4. QED
      BY <2>1, <2>2, <3>1, <3>2, <3>3 DEF ByOneOf
  <2>5. QED
    BY <2>3, <2>4
<1>3. CASE ~sent.down
  <2>1. was /\ (Taken(n, b) => b.code \notin codes)
    <3>1. Taken(n, b) => b.up
      BY <1>1, <1>3, ByteTaken
    <3>2. QED
      BY <3>1 DEF Modifier
  <2>2. PICK k \in Holders : \E d \in Codes(k) : d[2] \in codes
    BY <2>1 DEF ByOneOf
  <2>3. k \in Holders'
    <3>1. CASE k \in held
      BY <1>1, <3>1 DEF Holders
    <3>2. CASE n # 1
      BY <1>1, <1>3, <2>2, <3>2 DEF Holders, Handled
    <3>3. CASE n = 1 /\ k \notin held
      <4>1. k = sent.key /\ Taken(n, b)
        BY <1>1, <1>3, <2>2, <3>3 DEF Holders, Waits, Coming
      <4>2. /\ b.code \notin codes
            /\ sent.key # PrintScreen => b.code = sent.key.code
            /\ sent.key = PrintScreen => b.code = "lshift"
        BY <1>1, <1>3, <2>1, <3>3, <4>1, ByteTaken
      <4>3. PICK d \in Codes(k) : d[2] \in codes
        BY <2>2
      <4>4. CASE sent.key # PrintScreen
        <5>1. d = <<sent.key.e0, sent.key.code>>
          BY <1>1, <4>1, <4>4, CodesOf
        <5>2. d[2] = b.code
          BY <4>2, <4>4, <5>1
        <5>3. QED
          BY <4>2, <4>3, <5>2
      <4>5. CASE sent.key = PrintScreen
        <5>1. d = <<TRUE, "print">> \/ d = <<TRUE, "lshift">>
          BY <1>1, <4>1, <4>5, CodesOf
        <5>2. d[2] = "print" \/ d[2] = b.code
          <6>1. <<TRUE, "print">>[2] = "print" /\ <<TRUE, "lshift">>[2] = "lshift"
            OBVIOUS
          <6>2. QED
            BY <4>2, <4>5, <5>1, <6>1, Zenon
        <5>3. QED
          BY <4>2, <4>3, <5>2
      <4>6. QED
        BY <4>4, <4>5
    <3>4. QED
      BY <3>1, <3>2, <3>3
  <2>4. QED
    BY <2>2, <2>3 DEF ByOneOf
<1>4. QED
  BY <1>1, <1>2, <1>3

LEMMA ByteModifiers ==
  ASSUME IInv, Byte
  PROVE  ModifierInv'
<1>1. CASE reset = "torn"
  BY <1>1 DEF ModifierInv, Byte
<1>2. CASE reset # "torn"
  <2>1. sent \in Sent /\ ModifierInv
    BY DEF IInv, TypeOK, Sent
  <2>2. PICK n, b : Handled(n, b) /\ Coming(sent, n, b) /\ (Waits(n) \/ Taken(n, b))
    BY <1>2, ByteInStep
  <2>3. /\ Waits(n) => shift' = shift /\ ctrl' = ctrl /\ alt' = alt
        /\ Taken(n, b) => /\ shift' = Modifier(shift, {"lshift", "rshift"}, b)
                          /\ ctrl' = Modifier(ctrl, {"ctrl"}, b)
                          /\ alt' = Modifier(alt, {"alt"}, b)
    BY DEF Waits, Taken, KeyByte
  <2>4. shift' => ByOneOf({"lshift", "rshift"})'
    BY <1>2, <2>1, <2>2, <2>3, ByteHolds DEF ModifierInv
  <2>5. ctrl' => ByOneOf({"ctrl"})'
    BY <1>2, <2>1, <2>2, <2>3, ByteHolds DEF ModifierInv
  <2>6. alt' => ByOneOf({"alt"})'
    BY <1>2, <2>1, <2>2, <2>3, ByteHolds DEF ModifierInv
  <2>7. QED
    BY <2>4, <2>5, <2>6 DEF ModifierInv
<1>3. QED
  BY <1>1, <1>2

(* The symbol of a press is pushed by its last byte, and by no other.      *)
LEMMA BytePress ==
  ASSUME IInv, Byte
  PROVE  PressIsHeard'
<1> SUFFICES ASSUME wire' = <<>>, ~rebooted', reset' # "torn"
             PROVE  (pushed \in IF sent.down THEN Meant(sent.key) ELSE {<<>>})'
  BY DEF PressIsHeard
<1>1. /\ sent \in Sent /\ sent' = sent /\ reset' = reset /\ reset # "torn"
      /\ pushed = <<>>
  <2>1. reset # "torn" /\ reset' = reset /\ sent' = sent /\ wire # <<>>
    BY DEF Byte
  <2>2. QED
    BY <2>1 DEF IInv, TypeOK, Sent, PushedInv
<1>2. PICK n, b : Handled(n, b) /\ Coming(sent, n, b) /\ (Waits(n) \/ Taken(n, b))
  BY <1>1, ByteInStep
<1>3. /\ n = 1 /\ shift' \in BOOLEAN /\ alt' \in BOOLEAN /\ extended \in BOOLEAN
      /\ sent.down \in BOOLEAN /\ sent.key.e0 \in BOOLEAN
  BY <1>1, <1>2, ByteTypes, SentTyped DEF Handled, TypeOK, IInv
<1>4. CASE Waits(n)
  <2>1. sent.key = Pause /\ pushed' = <<>>
    BY <1>1, <1>3, <1>4 DEF Waits
  <2>2. Meant(sent.key)' = {<<>>}
    BY <1>1, <2>1 DEF Meant
  <2>3. QED
    BY <1>1, <2>1, <2>2
<1>5. CASE Taken(n, b)
  <2> DEFINE y == Symbol(b.code, extended, shift', alt')
  <2>1. /\ b.up = ~sent.down
        /\ sent.key = PrintScreen /\ sent.down => b.code = "print"
        /\ sent.key # PrintScreen => b.code = sent.key.code
    BY <1>1, <1>2, <1>3, <1>5, ByteTaken
  <2>2. pushed' = IF b.up THEN <<>> ELSE <<>> \o y
    BY <1>1, <1>5, <2>1 DEF Taken, KeyByte
  <2>3. extended = sent.key.e0 /\ sent.key # Pause
    BY <1>3, <1>5 DEF Taken
  <2>4. /\ y = <<>> \/ \E x : y = <<x>>
        /\ b.code \in Harmless => y = <<>>
    BY <1>3, SymbolOf
  <2> HIDE DEF y
  <2>5. <<>> \o y = y
    BY <2>4
  <2>6. CASE sent.down /\ sent.key = PrintScreen
    <3>1. pushed' = <<>>
      BY <2>1, <2>2, <2>4, <2>5, <2>6 DEF Harmless
    <3>2. Meant(sent.key)' = {<<>>}
      BY <1>1, <2>6 DEF Meant
    <3>3. QED
      BY <1>1, <2>6, <3>1, <3>2
  <2>7. CASE sent.down /\ sent.key # PrintScreen
    <3>1. pushed' = Symbol(sent.key.code, sent.key.e0, shift', alt')
      BY <2>1, <2>2, <2>3, <2>5, <2>7 DEF y
    <3> DEFINE F(f) == IF reset = "never" THEN {f} ELSE BOOLEAN
    <3>2. Meant(sent.key)' = {Symbol(sent.key.code, sent.key.e0, sh, al) : sh \in F(shift'), al \in F(alt')}
      BY <1>1, <2>3, <2>7 DEF Meant
    <3>3. shift' \in F(shift') /\ alt' \in F(alt')
      BY <1>3
    <3> HIDE DEF F
    <3>4. QED
      BY <1>1, <2>7, <3>1, <3>2, <3>3
  <2>8. CASE ~sent.down
    BY <1>1, <2>1, <2>2, <2>8
  <2>9. QED
    BY <2>6, <2>7, <2>8
<1>6. QED
  BY <1>2, <1>4, <1>5

LEMMA ByteReboots ==
  ASSUME IInv, Byte
  PROVE  RebootIsMeant'
<1> SUFFICES ASSUME rebooted', reset' # "torn"
             PROVE  (Holds({"ctrl"}) /\ Holds({"alt"}) /\ sent.down /\ sent.key.code = "del")'
  BY DEF RebootIsMeant
<1>1. sent \in Sent /\ sent' = sent /\ held' = held /\ reset' = reset /\ reset # "torn" /\ ~rebooted
  BY DEF Byte, IInv, TypeOK, Sent
<1>2. PICK n, b : Handled(n, b) /\ Coming(sent, n, b) /\ (Waits(n) \/ Taken(n, b))
  BY <1>1, ByteInStep
<1>3. Taken(n, b)
  BY <1>1, <1>2 DEF Waits
<1>4. extended \in BOOLEAN /\ sent.down \in BOOLEAN
  BY <1>1, SentTyped DEF IInv, TypeOK
<1>5. ~b.up /\ ctrl' /\ alt' /\ b.code = "del"
  BY <1>3 DEF Taken, KeyByte, Reboots
<1>6. sent.down /\ sent.key.code = "del"
  <2>1. /\ b.up = ~sent.down
        /\ sent.key # PrintScreen => b.code = sent.key.code
        /\ sent.key = PrintScreen => b.code \in {"print", "lshift"}
    BY <1>1, <1>2, <1>3, <1>4, ByteTaken
  <2>2. QED
    BY <1>4, <1>5, <2>1
<1>7. ByOneOf({"ctrl"})' /\ ByOneOf({"alt"})'
  BY <1>1, <1>5, ByteModifiers DEF ModifierInv
<1>8. Holders' = held'
  BY <1>1, <1>6 DEF Holders
<1>9. QED
  BY <1>1, <1>6, <1>7, <1>8 DEF ByOneOf, Holds
-----------------------------------------------------------------------------
(* Between two keys nothing is to change.                                  *)
LEMMA Between ==
  ASSUME IInv, wire = <<>>
  PROVE  /\ Pending = {} /\ Holders = held
         /\ reset # "torn" => state \subseteq Entries /\ ~extended /\ ignore = 0
         /\ reset = "never" => state = Entries
<1>1. Pending = {} /\ Holders = held
  BY DEF Pending, Holders
<1>2. Len(wire) = 0
  OBVIOUS
<1>3. reset # "torn" => ~extended /\ ignore = 0
  BY <1>2 DEF IInv, PrefixInv
<1>4. StateInv
  BY DEF IInv
<1>5. (reset # "torn" => state \subseteq Entries) /\ (reset = "never" => state = Entries)
  BY <1>1, <1>4 DEF StateInv
<1>6. QED
  BY <1>1, <1>3, <1>5

(* Either way, the decoder is ready for the first byte that comes.         *)
LEMMA KeySent ==
  ASSUME IInv, NEW k \in Key, NEW d \in BOOLEAN, sent' = [key |-> k, down |-> d], d \/ k # Pause,
         wire = <<>>, wire' = IF d THEN Press(k) ELSE Lift(k), ~rebooted, pushed' = <<>>,
         held' \subseteq Key, UNCHANGED <<decoder, rebooted, resetting, reset>>
  PROVE  /\ TypeOK' /\ WireInv' /\ PushedInv' /\ PrefixInv' /\ PressIsHeard' /\ RebootIsMeant'
         /\ wire' # <<>> /\ Pending' = IF k = Pause THEN {} ELSE Codes(k)
<1>1. sent' \in Sent /\ sent'.key = k /\ sent'.down = d
  BY DEF Sent
<1>2. /\ wire' \in Wires(sent') /\ wire' # <<>>
      /\ Len(wire') = IF k = Pause THEN 6 ELSE IF k = PrintScreen THEN 4
                      ELSE IF k.e0 THEN 2 ELSE 1
  <2>1. CASE d = TRUE
    BY <1>1, <2>1, PressSends
  <2>2. CASE d = FALSE
    BY <1>1, <2>2, LiftSends
  <2>3. QED
    BY <2>1, <2>2
<1>3. WireInv' /\ PushedInv' /\ PressIsHeard' /\ RebootIsMeant'
  BY <1>2 DEF WireInv, PushedInv, PressIsHeard, RebootIsMeant
<1>4. Typed(wire')
  BY <1>1, <1>2, WireComes
<1>5. TypeOK'
  <2>1. /\ {shift', ctrl', alt', extended', rebooted'} \subseteq BOOLEAN /\ ignore' \in 0 .. 5
        /\ state' \subseteq BOOLEAN \X ScanCodes
        /\ resetting' \in 0 .. 6 /\ reset' \in {"never", "clean", "torn"}
    BY DEF IInv, TypeOK, decoder
  <2>2. Len(pushed') <= 1
    OBVIOUS
  <2>3. QED
    BY <1>1, <1>4, <2>1, <2>2 DEF TypeOK, Typed, ByteType, Sent
<1>6. PrefixInv'
  <2> DEFINE n == Len(wire')
  <2>1. reset # "torn" => ~extended' /\ ignore' = 0
    BY Between DEF decoder
  <2>2. Pause.e0 = FALSE
    BY DEF Pause
  <2>3. PrefixInv' <=> \/ reset' = "torn"
                       \/ /\ extended' <=> k.e0 /\ n \in {1, 3}
                          /\ ignore' = IF k = Pause /\ n # 6 THEN n ELSE 0
    BY <1>1 DEF PrefixInv
  <2>4. n = IF k = Pause THEN 6 ELSE IF k = PrintScreen THEN 4 ELSE IF k.e0 THEN 2 ELSE 1
    BY <1>2
  <2>5. reset' = reset
    OBVIOUS
  <2> HIDE DEF n
  <2>6. k.e0 => n \notin {1, 3}
    BY <2>2, <2>4
  <2>7. QED
    BY <2>1, <2>3, <2>4, <2>5, <2>6
<1>7. Pending' = IF k = Pause THEN {} ELSE Codes(k)
  BY <1>1, <1>2 DEF Pending
<1>8. QED
  BY <1>2, <1>3, <1>5, <1>6, <1>7

LEMMA KeyDownStep ==
  ASSUME IInv, NEW k \in Key, KeyDown(k)
  PROVE  IInv'
<1>1. /\ wire = <<>> /\ ~rebooted /\ wire' = Press(k) /\ pushed' = <<>>
      /\ sent' = [key |-> k, down |-> TRUE] /\ held' = held \cup ({k} \ {Pause})
      /\ held \subseteq Key /\ HeldInv /\ ModifierInv
      /\ UNCHANGED <<decoder, rebooted, resetting, reset>>
  BY DEF KeyDown, IInv, TypeOK
<1>2. /\ TypeOK' /\ WireInv' /\ PushedInv' /\ PrefixInv' /\ PressIsHeard' /\ RebootIsMeant'
      /\ wire' # <<>> /\ Pending' = IF k = Pause THEN {} ELSE Codes(k)
  <2>1. held' \subseteq Key
    BY <1>1
  <2>2. QED
    BY <1>1, <2>1, KeySent
<1>3. sent'.key = k /\ sent'.down = TRUE
  BY <1>1
<1>4. HeldInv'
  BY <1>1, <1>3 DEF HeldInv
<1>5. StateInv'
  <2>1. Entries' = Entries \cup Pending'
    BY <1>1, <1>2 DEF Entries
  <2>2. reset' = reset /\ state' = state
    BY <1>1 DEF decoder
  <2>3. QED
    BY <1>1, <1>3, <2>1, <2>2, Between DEF StateInv
<1>6. ModifierInv'
  <2>1. Holders \subseteq Holders'
    BY <1>1 DEF Holders
  <2>2. \A codes : ByOneOf(codes) => ByOneOf(codes)'
    BY <2>1 DEF ByOneOf
  <2>3. QED
    BY <1>1, <2>2 DEF ModifierInv, decoder
<1>7. QED
  BY <1>2, <1>4, <1>5, <1>6 DEF IInv

LEMMA KeyUpStep ==
  ASSUME IInv, NEW k \in Key, KeyUp(k)
  PROVE  IInv'
<1>1. /\ wire = <<>> /\ ~rebooted /\ wire' = Lift(k) /\ pushed' = <<>>
      /\ sent' = [key |-> k, down |-> FALSE] /\ held' = held \ {k} /\ k \in held
      /\ held \subseteq Key /\ HeldInv /\ ModifierInv /\ k # Pause
      /\ UNCHANGED <<decoder, rebooted, resetting, reset>>
  BY DEF KeyUp, IInv, TypeOK, HeldInv
<1>2. /\ TypeOK' /\ WireInv' /\ PushedInv' /\ PrefixInv' /\ PressIsHeard' /\ RebootIsMeant'
      /\ wire' # <<>> /\ Pending' = IF k = Pause THEN {} ELSE Codes(k)
  <2>1. held' \subseteq Key
    BY <1>1
  <2>2. QED
    BY <1>1, <2>1, KeySent
<1>3. sent'.key = k /\ sent'.down = FALSE
  BY <1>1
<1>4. HeldInv'
  BY <1>1, <1>3 DEF HeldInv
<1>5. StateInv'
  <2>1. Entries' = Entries \ Pending'
    <3>1. \A j \in held' : Codes(j) \cap Codes(k) = {}
      BY <1>1, CodesApart
    <3>2. Entries = Entries' \cup Codes(k)
      BY <1>1 DEF Entries
    <3>3. Entries' \cap Codes(k) = {}
      BY <3>1 DEF Entries
    <3>4. QED
      BY <1>1, <1>2, <3>2, <3>3
  <2>2. reset' = reset /\ state' = state
    BY <1>1 DEF decoder
  <2>3. QED
    BY <1>1, <1>3, <2>1, <2>2, Between DEF StateInv
<1>6. ModifierInv'
  <2>1. Holders \subseteq Holders'
    BY <1>1, <1>2, <1>3 DEF Holders
  <2>2. \A codes : ByOneOf(codes) => ByOneOf(codes)'
    BY <2>1 DEF ByOneOf
  <2>3. QED
    BY <1>1, <2>2 DEF ModifierInv, decoder
<1>7. QED
  BY <1>2, <1>4, <1>5, <1>6 DEF IInv
-----------------------------------------------------------------------------
(* A store of the reset clears what it clears; between two keys what the   *)
(* decoder remembers of the bytes before is clear already.                 *)
LEMMA ResetStep ==
  ASSUME IInv, NEW i \in 1 .. 6, Reset(i)
  PROVE  IInv'
<1>1. /\ held' = held /\ wire' = wire /\ sent' = sent /\ pushed' = pushed
      /\ rebooted' = rebooted /\ ~rebooted /\ reset' \in {"clean", "torn"}
      /\ state' \subseteq state
      /\ (shift' => shift) /\ (ctrl' => ctrl) /\ (alt' => alt)
  BY DEF Reset, device
<1>2. /\ shift \in BOOLEAN /\ ctrl \in BOOLEAN /\ alt \in BOOLEAN /\ extended \in BOOLEAN
      /\ ignore \in 0 .. 5 /\ sent \in Sent
  BY DEF IInv, TypeOK, Sent
<1>3. TypeOK'
  <2>1. /\ shift' \in BOOLEAN /\ ctrl' \in BOOLEAN /\ alt' \in BOOLEAN /\ extended' \in BOOLEAN
    BY <1>2 DEF Reset
  <2>2. ignore' \in 0 .. 5
    BY <1>2 DEF Reset
  <2>3. resetting' \in 0 .. 6
    BY DEF Reset
  <2>4. /\ held' \subseteq Key /\ sent' \in [key : Key, down : BOOLEAN]
        /\ Len(wire') <= 6 /\ Len(pushed') <= 1 /\ rebooted' \in BOOLEAN
        /\ \A j \in DOMAIN wire' : wire'[j] \in [code : ScanCodes, up : BOOLEAN]
        /\ state' \subseteq BOOLEAN \X ScanCodes
    BY <1>1 DEF IInv, TypeOK
  <2>5. QED
    BY <1>1, <2>1, <2>2, <2>3, <2>4 DEF TypeOK
<1>4. WireInv' /\ HeldInv' /\ PushedInv'
  BY <1>1 DEF IInv, WireInv, HeldInv, PushedInv
<1>5. reset' # "torn" => reset # "torn" /\ extended' = extended /\ ignore' = ignore
  BY DEF Reset
<1>6. PrefixInv'
  BY <1>1, <1>5 DEF IInv, PrefixInv
<1>7. StateInv'
  <2>1. Entries' = Entries /\ Pending' = Pending /\ StateInv
    BY <1>1 DEF Entries, Pending, IInv
  <2>2. reset' # "never"
    BY <1>1
  <2>3. QED
    BY <1>1, <1>5, <2>1, <2>2 DEF StateInv
<1>8. ModifierInv'
  <2>1. Holders' = Holders /\ ModifierInv
    BY <1>1 DEF Holders, IInv
  <2>2. \A codes : ByOneOf(codes) => ByOneOf(codes)'
    BY <2>1 DEF ByOneOf
  <2>3. QED
    BY <1>1, <1>5, <2>1, <2>2 DEF ModifierInv
<1>9. PressIsHeard'
  <2>1. SUFFICES ASSUME wire' = <<>>, reset' # "torn"
                 PROVE  (pushed \in IF sent.down THEN Meant(sent.key) ELSE {<<>>})'
    BY DEF PressIsHeard
  <2>2. pushed \in IF sent.down THEN Meant(sent.key) ELSE {<<>>}
    BY <1>1, <1>5, <2>1 DEF IInv, PressIsHeard
  <2>3. CASE sent.down /\ sent.key \notin {Pause, PrintScreen}
    <3> DEFINE S(sh, al) == Symbol(sent.key.code, sent.key.e0, sh, al)
    <3>1. Meant(sent.key)' = {S(sh, al) : sh \in BOOLEAN, al \in BOOLEAN}
      BY <1>1, <2>3 DEF Meant
    <3>2. Meant(sent.key) \subseteq {S(sh, al) : sh \in BOOLEAN, al \in BOOLEAN}
      BY <1>2, <2>3 DEF Meant
    <3> HIDE DEF S
    <3>3. QED
      BY <1>1, <2>2, <2>3, <3>1, <3>2
  <2>4. CASE sent.down /\ sent.key \in {Pause, PrintScreen}
    <3>1. Meant(sent.key)' = {<<>>} /\ Meant(sent.key) = {<<>>}
      BY <1>1, <2>4 DEF Meant
    <3>2. QED
      BY <1>1, <2>2, <2>4, <3>1
  <2>5. CASE ~sent.down
    BY <1>1, <2>2, <2>5
  <2>6. QED
    BY <2>3, <2>4, <2>5
<1>10. RebootIsMeant'
  BY <1>1 DEF RebootIsMeant
<1>11. QED
  BY <1>3, <1>4, <1>6, <1>7, <1>8, <1>9, <1>10 DEF IInv

LEMMA InitHolds ==
  ASSUME Init
  PROVE  IInv
<1>1. /\ held = {} /\ wire = <<>> /\ sent \in Sent /\ sent.down = FALSE
      /\ shift = FALSE /\ ctrl = FALSE /\ alt = FALSE /\ extended = FALSE /\ ignore = 0
      /\ state = {} /\ pushed = <<>> /\ rebooted = FALSE /\ resetting = 0 /\ reset = "never"
  BY DEF Init, Sent
<1>2. Len(wire) = 0 /\ Len(pushed) = 0 /\ Typed(wire)
  BY <1>1, NoWire
<1>3. TypeOK
  <2>1. 0 \in 0 .. 5 /\ 0 \in 0 .. 6
    OBVIOUS
  <2>2. Len(wire) <= 6 /\ Len(pushed) <= 1
    BY <1>2
  <2>3. /\ {shift, ctrl, alt, extended, rebooted} \subseteq BOOLEAN
        /\ ignore \in 0 .. 5 /\ resetting \in 0 .. 6
    BY <1>1, <2>1
  <2>4. QED
    BY <1>1, <1>2, <2>2, <2>3 DEF TypeOK, Typed, ByteType, Sent
<1>4. WireInv
  BY <1>1, NoWire DEF WireInv
<1>5. HeldInv /\ PushedInv
  BY <1>1 DEF HeldInv, PushedInv
<1>6. PrefixInv
  BY <1>1, <1>2 DEF PrefixInv
<1>7. StateInv
  BY <1>1 DEF StateInv, Entries, Pending
<1>8. ModifierInv /\ PressIsHeard /\ RebootIsMeant
  BY <1>1 DEF ModifierInv, PressIsHeard, RebootIsMeant
<1>9. QED
  BY <1>3, <1>4, <1>5, <1>6, <1>7, <1>8 DEF IInv

LEMMA Inductive == IInv /\ [Next]_vars => IInv'
<1> SUFFICES ASSUME IInv, [Next]_vars
             PROVE  IInv'
  OBVIOUS
<1>1. CASE \E k \in Key : KeyDown(k) \/ KeyUp(k)
  BY <1>1, KeyDownStep, KeyUpStep
<1>2. CASE Byte
  <2>1. TypeOK' /\ WireInv' /\ HeldInv' /\ PushedInv'
    BY <1>2, ByteTypes
  <2>2. PrefixInv'
    <3>1. CASE reset = "torn"
      BY <1>2, <3>1 DEF PrefixInv, Byte
    <3>2. QED
      BY <1>2, <3>1, ByteInStep
  <2>3. QED
    BY <1>2, <2>1, <2>2, ByteState, ByteModifiers, BytePress, ByteReboots DEF IInv
<1>3. CASE \E i \in 1 .. 6 : Reset(i)
  BY <1>3, ResetStep
<1>4. CASE UNCHANGED vars
  <2>1. /\ UNCHANGED <<held, wire, sent, shift, ctrl, alt, extended, ignore, state>>
        /\ UNCHANGED <<pushed, rebooted, resetting, reset>>
    BY <1>4 DEF vars, device, decoder
  <2>2. TypeOK' /\ WireInv' /\ HeldInv' /\ PushedInv' /\ PrefixInv'
    BY <2>1 DEF IInv, TypeOK, WireInv, HeldInv, PushedInv, PrefixInv
  <2>3. StateInv' /\ ModifierInv'
    <3>1. StateInv' = StateInv
      BY <2>1 DEF StateInv, Entries, Pending
    <3>2. ModifierInv' = ModifierInv
      BY <2>1 DEF ModifierInv, ByOneOf, Holders
    <3>3. QED
      BY <3>1, <3>2 DEF IInv
  <2>4. PressIsHeard' /\ RebootIsMeant'
    <3>1. Meant(sent.key)' = Meant(sent.key)
      BY <2>1 DEF Meant
    <3>2. QED
      BY <2>1, <3>1 DEF IInv, PressIsHeard, RebootIsMeant, Holds
  <2>5. QED
    BY <2>2, <2>3, <2>4 DEF IInv
<1>5. QED
  BY <1>1, <1>2, <1>3, <1>4 DEF Next

LEMMA Invariance == Spec => []IInv
<1>1. Init => IInv
  BY InitHolds
<1>2. QED
  BY <1>1, Inductive, PTL DEF Spec
-----------------------------------------------------------------------------
(* The decoder's variables have their types: of Pause at most 5 bytes are  *)
(* ignored, and one key pushes at most one symbol.                         *)
THEOREM TypeCorrect == Spec => []TypeOK
<1>1. IInv => TypeOK
  BY DEF IInv
<1>2. QED
  BY <1>1, Invariance, PTL

(* Between two keys the decoder expects the first byte of one, whatever    *)
(* keys came before and in whatever order they were held.                  *)
THEOREM StaysInStep == Spec => []InStep
<1>1. IInv => InStep
  BY Between DEF InStep
<1>2. QED
  BY <1>1, Invariance, PTL

(* No key is stuck: what keyboard_is_pressed and the modifiers say is      *)
(* between two keys held.                                                  *)
THEOREM NoKeyIsStuck == Spec => []NoStuckKeys
<1>1. IInv => NoStuckKeys
  <2> SUFFICES ASSUME IInv, wire = <<>>, reset # "torn"
               PROVE  /\ state \subseteq Entries
                      /\ shift => Holds({"lshift", "rshift"})
                      /\ ctrl => Holds({"ctrl"})
                      /\ alt => Holds({"alt"})
    BY DEF NoStuckKeys, Entries
  <2>1. \A codes : ByOneOf(codes) => Holds(codes)
    BY Between DEF ByOneOf, Holds
  <2>2. ModifierInv
    BY DEF IInv
  <2>3. QED
    BY <2>1, <2>2, Between DEF ModifierInv
<1>2. QED
  BY <1>1, Invariance, PTL

(* While the game has not reset the decoder, keyboard_is_pressed says of   *)
(* every key between two keys whether it is held.                          *)
THEOREM HeldStaysSeen == Spec => []HeldIsSeen
<1>1. IInv => HeldIsSeen
  BY Between DEF HeldIsSeen, Entries
<1>2. QED
  BY <1>1, Invariance, PTL

(* A press pushes the symbol of its key with the modifiers of the moment,  *)
(* once, and a release pushes none.                                        *)
THEOREM EveryPressIsHeard == Spec => []PressIsHeard
<1>1. IInv => PressIsHeard
  BY DEF IInv
<1>2. QED
  BY <1>1, Invariance, PTL

(* The machine reboots only for Ctrl, Alt and Delete held together.        *)
THEOREM RebootStaysMeant == Spec => []RebootIsMeant
<1>1. IInv => RebootIsMeant
  BY DEF IInv
<1>2. QED
  BY <1>1, Invariance, PTL
=============================================================================
