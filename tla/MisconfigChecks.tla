-------------------------- MODULE MisconfigChecks --------------------------
(***************************************************************************)
(* The checks of the active-misconfig module for one address and port      *)
(* (active/http.rs and active/services.rs). The result of a visit is       *)
(* "some" if it ends the search for a peer of the host that answers,       *)
(* "paths" if it does and the paths of the site are asked for next; after  *)
(* any other result the next address of the host is tried.                 *)
(***************************************************************************)
EXTENDS DataClients, InfraClients, WebClients, WireClients, HttpEngine

(* http.rs *)

\* should_probe_paths, of the status of the root page, if it has one.
MayProbePaths(exchange) ==
  exchange \cup {[t EXCEPT !.result = "paths"] :
                   t \in {t \in exchange : t.result = "some"}}

\* The findings are about the headers, the server's version, a listing, and
\* TRACE, which is asked for on a connection of its own. On a page without TLS
\* there is always one. They are of the address asked, wherever the page came
\* from.
assess_http_surface(page, https) ==
  LET answered == Recognised(page)
      findings == IF https THEN Maybe(<<Misconfig>>) ELSE {<<Misconfig>>}
      assessed == IfSome(answered, findings)
  IN  (page \ answered) \cup
      MayProbePaths(IF https THEN assessed ELSE Spare(assessed))

\* One path. A hit is a finding; 403, 429 and 503 stop the probing, hit or not,
\* as does an error.
path_probe ==
  [https \in BOOLEAN |->
     LET page     == IfSome(get_path(https), Maybe(<<Misconfig>>))
     IN  page \cup {[t EXCEPT !.result = "stop"] : t \in Recognised(page)}]

\* The client's answer is a finding by itself.
Exposed(client) == Try(IfSome(client, {<<Misconfig>>}))

Surface(page, https) == Try(assess_http_surface(page, https))

check_http_ports ==
  {At(p, <<Surface(get, FALSE)>>) : p \in {80, 8000, 8888, 8008, 5000, 81}} \cup
  {At(8080, <<Exposed(observe_jenkins), Exposed(observe_keycloak),
              Exposed(observe_argocd), Surface(get, FALSE)>>)} \cup
  {At(p, <<Do(observe_tls), Surface(get_tls, TRUE)>>) : p \in {443, 8443}}

(* services.rs *)

\* FTP is a finding if the banner says so, Redis if it answers or asks for a
\* password; either way the search ends.
check_stores ==
  {At(21, <<Try(IfSome(grab_banner, Maybe(<<Misconfig>>)))>>),
   At(6379, <<Try(IfSome(observe_redis, Maybe(<<Misconfig>>)))>>),
   At(9200, <<Exposed(observe_elasticsearch), Exposed(observe_opensearch)>>),
   At(11211, <<Exposed(observe_memcached)>>),
   At(27017, <<Exposed(observe_mongodb)>>)}

check_messaging ==
  {At(9092, <<Exposed(observe_kafka)>>), At(5672, <<Exposed(observe_amqp)>>),
   At(1883, <<Exposed(observe_mqtt)>>), At(4222, <<Exposed(observe_nats)>>),
   At(161, <<Exposed(observe_snmp)>>)}

check_identity ==
  {At(389, <<Exposed(observe_ldap)>>), At(88, <<Exposed(observe_kerberos)>>)} \cup
  {At(p, <<Exposed(observe_vnc)>>) : p \in 5900..5902} \cup
  {At(p, <<Exposed(observe_winrm)>>) : p \in {5985, 5986}}

check_cloud ==
  {At(2375, <<Exposed(observe_docker)>>), At(2379, <<Exposed(observe_etcd)>>),
   At(8500, <<Exposed(observe_consul)>>), At(1433, <<Exposed(observe_mssql)>>),
   At(6443, <<Exposed(observe_kubernetes)>>), At(1521, <<Exposed(observe_oracle)>>)}

check_databases ==
  {At(5984, <<Exposed(observe_couchdb)>>), At(2181, <<Exposed(observe_zookeeper)>>),
   At(9042, <<Exposed(observe_cassandra)>>), At(3389, <<Exposed(observe_rdp)>>),
   At(7474, <<Exposed(observe_neo4j)>>), At(8123, <<Exposed(observe_clickhouse)>>)}

\* Port 9000 may be one of three products, in this order.
check_consoles ==
  {At(9000, <<Exposed(observe_minio), Exposed(observe_portainer),
              Exposed(observe_sonarqube)>>),
   At(7687, <<Exposed(observe_bolt)>>), At(15672, <<Exposed(observe_rabbitmq)>>),
   At(3000, <<Exposed(observe_grafana), Surface(get, FALSE)>>)}

check_metrics ==
  {At(5601, <<Exposed(observe_kibana)>>), At(9090, <<Exposed(observe_prometheus)>>),
   At(8086, <<Exposed(observe_influxdb)>>), At(28015, <<Exposed(observe_rethinkdb)>>),
   At(10000, <<Exposed(observe_scylla)>>)}

check_platforms ==
  {At(8200, <<Exposed(observe_vault), Exposed(observe_elastic_apm)>>),
   At(4646, <<Exposed(observe_nomad)>>), At(8983, <<Exposed(observe_solr)>>),
   At(5701, <<Exposed(observe_hazelcast)>>), At(50051, <<Exposed(observe_grpc)>>)}

CheckTable ==
  Table(check_http_ports \cup check_stores \cup check_messaging \cup check_identity \cup
        check_cloud \cup check_databases \cup check_consoles \cup check_metrics \cup
        check_platforms)

\* A port that neither knows is passed over.
check_ports(port) ==
  IF port \in DOMAIN CheckTable THEN CheckTable[port]
  ELSE <<>>
=============================================================================
