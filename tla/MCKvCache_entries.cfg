SPECIFICATION Spec
CONSTANTS
  a = a
  ab = ab
  b = b
  c = c
  Names = {a, ab, b, c}
  Crc <- MCCrc
  Prefixes <- NoPrefixes
  Addrs = {p1, p2, p3}
  NoName = NoName
  NoAddr = NoAddr
  TableSize = 2
  MaxActive = 7
INVARIANT HitsLive
