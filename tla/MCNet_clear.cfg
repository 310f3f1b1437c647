SPECIFICATION FairSpec
CONSTANTS
  LocalIP = "local"
  Gate = "gate"
  LocalNet = {"local", "gate", "peer"}
  ARP_TABLE_LEN = 4
  TRIES = 2
  Dsts = {"peer", "far"}
  Msgs = {"x", "y"}
  Packets <- Traffic
  PAGES = 4
  ARRIVALS = 3
  Calm = {"load", "poll", "answer"}
INVARIANTS
  NothingStranded
