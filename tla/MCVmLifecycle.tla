---------------------------- MODULE MCVmLifecycle ----------------------------
EXTENDS VmLifecycle
=============================================================================
