---------------------------- MODULE TalkDispatch ----------------------------
(***************************************************************************)
(* The talk module of ares-modules: one exchange with the first target, by *)
(* the client that its `proto` names (talk/mod.rs, core.rs, http.rs and    *)
(* services.rs). A table has a protocol for its key; its entry is the port *)
(* a target without one is talked to on, and the exchanges. A failure is   *)
(* logged and the module succeeds.                                         *)
(***************************************************************************)
EXTENDS DataClients, InfraClients, WebClients, WireClients, HttpEngine

Talk(port, exchange) == [port |-> port, visit |-> <<Try(exchange)>>]

(* core.rs *)

\* HTTP/2 is asked for over TLS on the ports of HTTPS, in the clear elsewhere.
core_run ==
  {At("dns", Talk(0, enrich_domain)),
   At("ssh", Talk(22, Guessed(ssh_grab))),
   At("tls", Talk(443, observe_tls)),
   At("h2", Talk(443, observe_h2_alpn)),
   At("h2c", Talk(80, observe_h2_cleartext)),
   At("smb", Talk(445, IfSome(smb_negotiate, guess_os_from_smb))),
   At("ftp", Talk(21, Guessed(grab_banner))),
   At("smtp", Talk(25, Guessed(grab_banner)))}

(* http.rs *)

\* Of a target that is no URL the answer is not read for the system.
http_run ==
  {At("http", Talk(80, get \cup Guessed(get))),
   At("https", Talk(443, get_tls \cup Guessed(get_tls))),
   At("http session", Talk(80, session_browse(FALSE) \cup Guessed(session_browse(FALSE))))}

(* services.rs *)

stores_run ==
  {At("redis", Talk(6379, Guessed(observe_redis))),
   At("mysql", Talk(3306, Guessed(observe_mysql))),
   At("postgres", Talk(5432, Guessed(observe_postgres))),
   At("imap", Talk(143, observe_imap)),
   At("pop3", Talk(110, observe_pop3))}

documents_run ==
  {At("mongodb", Talk(27017, Guessed(observe_mongodb))),
   At("elasticsearch", Talk(9200, Guessed(observe_elasticsearch))),
   At("memcached", Talk(11211, Guessed(observe_memcached))),
   At("kafka", Talk(9092, Guessed(observe_kafka))),
   At("amqp", Talk(5672, Guessed(observe_amqp)))}

identity_run ==
  {At("mqtt", Talk(1883, observe_mqtt)),
   At("nats", Talk(4222, Guessed(observe_nats))),
   At("ldap", Talk(389, Guessed(observe_ldap))),
   At("kerberos", Talk(88, Guessed(observe_kerberos))),
   At("vnc", Talk(5900, observe_vnc))}

remote_run ==
  {At("winrm", Talk(5985, Guessed(observe_winrm))),
   At("snmp", Talk(161, Guessed(observe_snmp))),
   At("docker", Talk(2375, observe_docker)),
   At("etcd", Talk(2379, observe_etcd)),
   At("consul", Talk(8500, observe_consul)),
   At("mssql", Talk(1433, observe_mssql))}

cluster_run ==
  {At("kubernetes", Talk(6443, observe_kubernetes)),
   At("oracle", Talk(1521, observe_oracle)),
   At("couchdb", Talk(5984, observe_couchdb)),
   At("zookeeper", Talk(2181, observe_zookeeper)),
   At("cassandra", Talk(9042, observe_cassandra)),
   At("rdp", Talk(3389, observe_rdp))}

analytics_run ==
  {At("neo4j", Talk(7474, observe_neo4j)),
   At("clickhouse", Talk(8123, observe_clickhouse)),
   At("minio", Talk(9000, observe_minio)),
   At("bolt", Talk(7687, observe_bolt)),
   At("rabbitmq", Talk(15672, observe_rabbitmq)),
   At("grafana", Talk(3000, observe_grafana))}

metrics_run ==
  {At("kibana", Talk(5601, observe_kibana)),
   At("prometheus", Talk(9090, observe_prometheus)),
   At("jenkins", Talk(8080, observe_jenkins)),
   At("influxdb", Talk(8086, observe_influxdb)),
   At("rethinkdb", Talk(28015, observe_rethinkdb)),
   At("scylla", Talk(10000, observe_scylla))}

platforms_run ==
  {At("elastic-apm", Talk(8200, observe_elastic_apm)),
   At("grpc", Talk(50051, observe_grpc)),
   At("vault", Talk(8200, observe_vault)),
   At("nomad", Talk(4646, observe_nomad)),
   At("solr", Talk(8983, observe_solr)),
   At("hazelcast", Talk(5701, observe_hazelcast))}

products_run ==
  {At("opensearch", Talk(9200, observe_opensearch)),
   At("keycloak", Talk(8080, observe_keycloak)),
   At("portainer", Talk(9000, observe_portainer)),
   At("argocd", Talk(8080, observe_argocd)),
   At("sonarqube", Talk(9000, observe_sonarqube))}

\* Another name is an error.
ProtoTable ==
  Table(core_run \cup http_run \cup stores_run \cup documents_run \cup identity_run \cup
        remote_run \cup cluster_run \cup analytics_run \cup metrics_run \cup
        platforms_run \cup products_run)
=============================================================================
