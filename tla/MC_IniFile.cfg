CONSTANTS
  mqtt = mqtt
  haas = haas
  cmd = cmd
  config = config
  dev02 = dev02
  upload_time = upload_time
  dev_add = dev_add
  dev_add02 = dev_add02
  dev_ctrl02 = dev_ctrl02
  Nil = Nil
  Threads = {mqtt, haas, cmd}
  Writer = haas
  Poller = cmd
  Wanted <- StartKeys
  Polled = upload_time
  Written = dev_ctrl02
  Lines <- FileLines
  SectionOf <- FileSections
  Shorter <- FileShorter
  Empty = Empty
  MaxPuts = 2
  MaxCrashes = 1
SPECIFICATION FairFileSpec
INVARIANTS
  FileWhole
PROPERTIES
  GetsRight
  CallsReturn
