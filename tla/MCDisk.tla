-------------------------------- MODULE MCDisk --------------------------------
EXTENDS Disk

All == {"vblk", "ahci", "ide"}

\* The last place is above 4 GiB.
Places == {1, 2, 3}
LowPlace == <<1, 2, 1>>
=============================================================================
