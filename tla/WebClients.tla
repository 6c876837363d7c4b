----------------------------- MODULE WebClients -----------------------------
(***************************************************************************)
(* The clients of ares-proto/src/apps for control planes and web consoles: *)
(* cloud.rs and webui.rs. Each asks for one page after the other, on a     *)
(* connection of its own, until a page has the marks of the product; a     *)
(* request that fails ends the client, unless it can do without.           *)
(***************************************************************************)
EXTENDS Exchange

(* cloud.rs *)

\* /_ping, and /version: for the version if it answers, or to decide.
observe_docker ==
  Get(Spare(Accepted({95})) \cup Get(Rejected({20}) \cup Accepted({95})))

observe_etcd == Get(Accepted({92}) \cup Get(Rejected({20}) \cup Accepted({92})))

observe_consul == Get(Accepted({90}) \cup Get(Rejected({20}) \cup Accepted({90})))

\* Up to four pages over TLS, each by an HTTP engine whose own events are
\* dropped and whose failures are passed over.
observe_kubernetes ==
  LET page(rest) == Spare(Accepted({90}) \cup rest)
  IN  page(page(page(page(Rejected({20})))))

\* The health page is asked for and the root page decides.
observe_minio == Get(Get(Rejected({20}) \cup Accepted({90})))

observe_vault == Get(Rejected({20}) \cup Accepted({95}))

observe_nomad == Get(Accepted({93}) \cup Get(Rejected({20}) \cup Accepted({85})))

(* webui.rs *)

\* /api/health, else the login page, else the root page.
observe_grafana ==
  LET login == Accepted({85})
  IN  Get(Accepted({95}) \cup Get(login \cup Get(login \cup Rejected({20}))))

observe_kibana == Get(Accepted({93}) \cup Get(Rejected({20}) \cup Accepted({85})))

\* Health and build are both asked for, then the metrics.
observe_prometheus ==
  Get(Get(Accepted({95}) \cup Get(Rejected({20}) \cup Accepted({85}))))

observe_jenkins == Get(Accepted({95}) \cup Get(Rejected({20}) \cup Accepted({90})))

\* The realm, then three pages in turn.
observe_keycloak ==
  LET product == Accepted({95})
  IN  Get(product \cup Get(product \cup Get(product \cup
        Get(product \cup Rejected({20})))))

\* The status, then three pages in turn.
observe_portainer ==
  LET product == Accepted({95})
  IN  Get(product \cup Get(product \cup Get(product \cup
        Get(product \cup Rejected({20})))))

\* The version, then three pages in turn.
observe_argocd ==
  LET product == Accepted({95})
  IN  Get(product \cup Get(product \cup Get(product \cup
        Get(product \cup Rejected({20})))))

\* The status; without a version there, the version page; without any mark,
\* two pages more.
observe_sonarqube ==
  LET product == Accepted({95})
  IN  Get(product \cup Get(product \cup Get(product \cup
        Get(product \cup Rejected({20})))))

observe_elastic_apm == Get(Rejected({20}) \cup Accepted({95}))
=============================================================================
