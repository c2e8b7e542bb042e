------------------------------ MODULE MCDesktop ------------------------------
EXTENDS Desktop

Slots == 1 .. 2
Apps == {1}
Wide == {2, 5}
=============================================================================
