--------------------------- MODULE MCObservation ---------------------------
EXTENDS Observation

\* Ports whose entries in both tables are those of a smaller port.
Alike ==
  {81, 143, 389, 993, 995, 1521, 5000, 5432, 5901, 5902, 5985, 5986, 7474, 8000, 8008,
   8443, 8888, 10000, 11211, 27017}

\* Every other port that a table knows, and one that none does.
MCPorts == ((DOMAIN PortTable \cup DOMAIN CheckTable) \ Alike) \cup {25}
=============================================================================
