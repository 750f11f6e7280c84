\* Connections that all may turn out to be monitors of one serial, one fixed
\* goroutine and two slots, and a writer to the serial.
CONSTANTS
  Cons = {m1, m2, m3, m4}
  s1 = s1
  Serials = {s1}
  SerialOf <- OneSerial
  Writers = {w1}
  Fixed = 1
  Slots = 2
  Burst = 1
  QueueCap = 2
  Nil = Nil
SPECIFICATION Spec
INVARIANTS TypeOK PressureServed MonitorGetsCopies ClosedIsLeaving
SYMMETRY Symmetry
CHECK_DEADLOCK FALSE
