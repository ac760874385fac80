SPECIFICATION FairSpec
CONSTANTS
  soc = soc
  dev = dev
  v = v
  b = b
  p = p
  r = r
  NoObj = NoObj
  c1 = c1
  c2 = c2
  Obj = {soc, dev, v, b, p, r}
  Client = {c1}
  Kind <- MCKind
  Parent <- MCParent
  Bss = {b}
  Sta = {p,r}
  NComps = 1
  Registered <- MCRegistered
  Limit <- MCLimit
  MaxVdevs = 1
  MaxVdevPeers = 2
  MaxPdevPeers = 2
  MaxHeld = 1
  PsocLast = TRUE

  
  
PROPERTIES
  
  Reclaimed
