CONSTANTS
  s1 = s1  s2 = s2  s3 = s3  s4 = s4
  a1 = a1  a2 = a2
  waterfall = waterfall  events = events  chat = chat
  Sockets <- MCSockets
  Addresses <- MCAddresses
  AddressOf <- MCAddressOf
  Classes <- MCClasses
  ClassOf <- MCClassOf
  Limited <- MCLimited
  Movable <- MCMovable
  MoveMayFail <- MCMoveMayFail
  Evictable <- MCEvictable
  ClassLimit <- MCClassLimit
  WsPerIp = 2
SPECIFICATION Spec
INVARIANT AddressLimitHolds
