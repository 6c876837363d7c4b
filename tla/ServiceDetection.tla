-------------------------- MODULE ServiceDetection --------------------------
(***************************************************************************)
(* What ares-probe asks of one address and port (service.rs): which client *)
(* it takes for which port, and what it makes of the answer. A table has a *)
(* port for its key and the visit to a peer for its entry.                 *)
(***************************************************************************)
EXTENDS DataClients, InfraClients, WebClients, WireClients, HttpEngine

\* A page, read as a service of its own whatever its headers say.
http_service(confidence) ==
  IfSome(get, Joined(guess_os_from_banner, {<<ServiceDetected(confidence)>>}))

\* The page behind TLS: its server and its framework may name the system, and
\* each header that is missing is a finding.
https_page ==
  IfSome(get_tls, Joined(guess_os_from_banner, Maybe(<<Misconfig>>)))

ShellTable == {At(22, <<Try(Guessed(ssh_grab))>>)}

WebTable ==
  {At(p, <<Try(http_service(90))>>) : p \in {80, 8000, 8888, 8008, 5000, 81}} \cup
  {At(8080, <<Try(observe_jenkins), Try(http_service(85))>>)} \cup
  {At(p, <<Do(observe_tls), Try(https_page)>>) : p \in {443, 8443}}

ShareTable == {At(445, <<Try(IfSome(smb_negotiate, guess_os_from_smb))>>)}

StoreTable ==
  {At(6379, <<Try(observe_redis)>>), At(3306, <<Try(observe_mysql)>>),
   At(5432, <<Try(observe_postgres)>>), At(143, <<Try(observe_imap)>>),
   At(110, <<Try(observe_pop3)>>), At(27017, <<Try(Guessed(observe_mongodb))>>),
   At(9200, <<Try(Guessed(observe_elasticsearch))>>),
   At(2375, <<Try(observe_docker)>>), At(2379, <<Try(observe_etcd)>>),
   At(8500, <<Try(observe_consul)>>), At(1433, <<Try(observe_mssql)>>),
   At(6443, <<Try(observe_kubernetes)>>), At(1521, <<Try(observe_oracle)>>),
   At(5984, <<Try(observe_couchdb)>>), At(2181, <<Try(observe_zookeeper)>>),
   At(9042, <<Try(observe_cassandra)>>)}

DesktopTable == {At(3389, <<Try(IfSome(observe_rdp, {<<OsGuess(55)>>}))>>)}

ConsoleTable ==
  {At(7474, <<Try(observe_neo4j)>>), At(8123, <<Try(observe_clickhouse)>>),
   At(9000, <<Try(observe_minio)>>), At(7687, <<Try(observe_bolt)>>),
   At(15672, <<Try(observe_rabbitmq)>>),
   At(3000, <<Try(observe_grafana), Try(http_service(85))>>),
   At(5601, <<Try(observe_kibana)>>), At(9090, <<Try(observe_prometheus)>>)}

QueueTable ==
  {At(11211, <<Try(Guessed(observe_memcached))>>),
   At(9092, <<Try(Guessed(observe_kafka))>>), At(5672, <<Try(Guessed(observe_amqp))>>),
   At(1883, <<Try(observe_mqtt)>>), At(4222, <<Try(Guessed(observe_nats))>>)}

\* Over TLS nothing but the handshake is looked at.
DirectoryTable ==
  {At(389, <<Try(Guessed(observe_ldap))>>), At(88, <<Try(Guessed(observe_kerberos))>>)} \cup
  {At(p, <<Try(observe_vnc)>>) : p \in 5900..5902} \cup
  {At(p, <<Try(Guessed(observe_winrm))>>) : p \in {5985, 5986}} \cup
  {At(p, <<Try(observe_tls)>>) : p \in {636, 993, 995}}

\* The other ports: whatever the peer says first, by the words in it.
classify_banner == {50, 80, 85, 95}

\* Without a banner the service is the one the port is known for, even where no
\* connection was made.
well_known == <<ServiceDetected(30)>>

detect_banner(ttl_seen) ==
  LET banner == grab_banner
      known  == {<<ServiceDetected(c)>> : c \in classify_banner}
  IN  IfSome({t \in banner : t.result = "some"},
        Joined(guess_os_correlated(infer_from_text, ttl_seen), known)) \cup
      {Ended(Ended(t, guess), well_known) :
         t \in {t \in banner : t.result = "none"},
         guess \in guess_os_correlated({}, ttl_seen)}

PortTable ==
  Table(ShellTable \cup WebTable \cup ShareTable \cup StoreTable \cup DesktopTable \cup
        ConsoleTable \cup QueueTable \cup DirectoryTable)

\* A function, so that its values are computed once.
BannerVisit == [ttl_seen \in BOOLEAN |-> <<Try(detect_banner(ttl_seen))>>]

detect_service_ex(port, ttl_seen) ==
  IF port \in DOMAIN PortTable THEN PortTable[port] ELSE BannerVisit[ttl_seen]
=============================================================================
