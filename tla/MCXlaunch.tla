------------------------------ MODULE MCXlaunch ------------------------------
EXTENDS Xlaunch
=============================================================================
