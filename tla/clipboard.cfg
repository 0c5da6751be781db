CONSTANTS
  mac = mac
  win = win
  Host = {mac, win}
  Platform <- MCPlatform
  Dialer = mac
  Sha <- MCSha
  Size <- MCSize
  ByteBudget = 3
  Small = {s1}
  Big = {b1}
  Pixels = {p1}
  NoItem = NoItem
  Plans <- MCPlans
  s1 = s1
  b1 = b1
  p1 = p1
  QueueCap = 1
  LruCap = 4
  MaxCopies = 2
  MaxFaults = 1
SPECIFICATION LiveSpec
 
PROPERTIES SmallTextArrives EchoesEnd
CHECK_DEADLOCK FALSE
