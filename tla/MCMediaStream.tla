---------------------------- MODULE MCMediaStream ----------------------------
EXTENDS MediaStream
=============================================================================
