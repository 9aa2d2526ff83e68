SPECIFICATION FairSpec
CONSTANTS
  a = a
  b = b
  c = c
  Nodes = {a, b, c}
  Requests <- Links
  From <- LinkFrom
  To <- LinkTo
  Stranger = Stranger
  Nobody = Nobody
INVARIANTS TypeOK GreetingHeld GoneLetsGo HeldByCircle
PROPERTY Answered
CHECK_DEADLOCK FALSE
