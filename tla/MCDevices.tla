------------------------------ MODULE MCDevices ------------------------------
EXTENDS Devices
=============================================================================
