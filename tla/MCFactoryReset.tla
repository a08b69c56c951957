--------------------------- MODULE MCFactoryReset ---------------------------
(* FactoryReset for TLC, in ticks of 500 ms: the debounce time is one tick  *)
(* and the cancel window ten, as in AppConfig.h and AppTask.cpp.            *)
EXTENDS FactoryReset
=============================================================================
