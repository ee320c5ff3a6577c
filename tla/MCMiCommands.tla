---------------------------- MODULE MCMiCommands ----------------------------
\* Commands of every kind; of those that only differ in what they read, one.
EXTENDS MiCommands

MCRequests ==
  {"log", "sanitize log", "host telemetry", "unknown log", "security send", "security receive",
   "security receive too long", "xfer", "fw commit"}
=============================================================================
