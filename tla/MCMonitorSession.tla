--------------------------- MODULE MCMonitorSession ---------------------------
EXTENDS MonitorSession
=============================================================================
