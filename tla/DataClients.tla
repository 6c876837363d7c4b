----------------------------- MODULE DataClients ----------------------------
(***************************************************************************)
(* The clients of ares-proto/src/apps for databases and stores: sql.rs,    *)
(* kv.rs and documents.rs.                                                 *)
(***************************************************************************)
EXTENDS Exchange

(* sql.rs *)

\* An error packet is an answer, though no service is reported for it.
observe_mysql ==
  Dial(Await(Rejected({20, 30}) \cup Remarked(70) \cup Accepted({90})))

\* After an 'N' the startup message must be written; its answer may be missing.
observe_postgres == Dial(Await(Rejected({20, 35}) \cup Await(Accepted({90}))))

observe_mssql == Dial(Await(Rejected({20, 25}) \cup Accepted({90})))

observe_oracle == Dial(Await(Rejected({20, 25}) \cup Accepted({90})))

observe_cassandra == Dial(Await(Rejected({20, 25}) \cup Accepted({92})))

\* /ping, else /; the version is asked for once either has said Ok.
observe_clickhouse ==
  LET version == Spare(Accepted({93}))
  IN  Get(version \cup Get(Rejected({20}) \cup version))

\* /health, else /ping.
observe_influxdb == Get(Accepted({93}) \cup Get(Rejected({20}) \cup Accepted({93})))

\* The REST port of Scylla, else its root page.
observe_scylla == Get(Accepted({95}) \cup Get(Rejected({20}) \cup Accepted({85})))

(* kv.rs *)

\* After a PONG the version is asked for on the same connection, if it can be.
observe_redis == Dial(Await(Rejected({20, 30}) \cup Accepted({90})))

\* stats, when version says nothing, and quit may both fail.
observe_memcached == Dial(Await(Rejected({20, 30}) \cup Accepted({90})))

(* documents.rs *)

\* No answer to isMaster is an answer of no bytes, and hello is tried next.
observe_mongodb == Dial(Await(Rejected({20, 30}) \cup Accepted({90})))

observe_elasticsearch == Dial(Await(Rejected({20, 30}) \cup Accepted({90})))

observe_couchdb == Get(Rejected({20}) \cup Accepted({92}))

observe_neo4j == Get(Rejected({20}) \cup Accepted({92}))

\* Version 0 is the server's refusal of every version offered.
observe_bolt == Dial(Await(Rejected({20, 40}) \cup Accepted({95})))

observe_rethinkdb == Dial(Await(Rejected({20, 30}) \cup Accepted({95})))

observe_opensearch == Get(Rejected({20}) \cup Accepted({95}))

\* The admin page, else the root of the application.
observe_solr == Get(Accepted({95}) \cup Get(Rejected({20}) \cup Accepted({85})))
=============================================================================
