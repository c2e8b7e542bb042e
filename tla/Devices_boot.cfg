\* A virtio disk, three AHCI ports and two IDE drives, room for two disks.
SPECIFICATION DevicesSpec
CONSTANTS
  Ports = 3
  Channels = 1
  MaxPorts = 2
  MaxDevs = 2
INVARIANTS RootRight HeldByDevices NoStrayDma
CHECK_DEADLOCK FALSE
