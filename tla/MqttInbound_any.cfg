SPECIFICATION Spec
CONSTANTS
  m0 = m0
  m1 = m1
  m2 = m2
  m3 = m3
  Message = {m0, m1, m2, m3}
  QoSOf <- MixedQoS
  Long = {m0, m1, m2}
  PacketId = {1, 2}
  SubQoS = 2
  Window = 2
  MaxDup = 1
  MaxSession = 2
  NoMsg = NoMsg
  OtherId = 0
CHECK_DEADLOCK FALSE
INVARIANT TypeOK
INVARIANT AtMostOnce
INVARIANT AcknowledgedIsHandled
PROPERTY HandledWhenReleased
PROPERTY ImplementsDelivery
