SPECIFICATION Spec
CONSTANTS
  Key <- MCKey
  MaxHeld = 3
CONSTRAINT NotTorn
INVARIANTS TypeOK InStep   PressIsHeard RebootIsMeant
CHECK_DEADLOCK FALSE
