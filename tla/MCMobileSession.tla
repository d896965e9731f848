-------------------------- MODULE MCMobileSession --------------------------
EXTENDS MobileSession
============================================================================
