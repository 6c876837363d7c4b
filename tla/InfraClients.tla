---------------------------- MODULE InfraClients ----------------------------
(***************************************************************************)
(* The clients of ares-proto/src/apps for mail, identity and messaging:    *)
(* mail.rs, identity.rs and messaging.rs.                                  *)
(***************************************************************************)
EXTENDS Exchange

(* mail.rs *)

observe_imap == observe_line_banner

observe_pop3 == observe_line_banner

(* identity.rs *)

\* The connection is unbound, if it can be, before the answer is looked at.
observe_ldap == Dial(Await(Rejected({20, 30, 35}) \cup Accepted({90})))

\* The list of security types may be missing.
observe_vnc == Dial(Await(Rejected({20, 30}) \cup Accepted({90})))

\* A length that does not come is a rejection, a body that does not an error.
observe_kerberos ==
  Dial(Await(Rejected({20, 30}) \cup Await(Rejected({35}) \cup Accepted({90}))))

\* Plain, or over TLS on 5986, where the handshake may fail as well.
observe_winrm == Dial(Await(Await(Rejected({20, 30}) \cup Accepted({90}))))

\* A datagram: no answer is not an error, and nothing is known of the peer.
observe_snmp ==
  Await(Rejected({25}) \cup Hears(Rejected({30}), Replied) \cup Accepted({70, 90}))

observe_rdp == Dial(Await(Rejected({20, 25}) \cup Accepted({95})))

(* messaging.rs *)

\* The length, then the body.
observe_kafka ==
  Dial(Await(Rejected({20}) \cup Await(Rejected({25, 35}) \cup Accepted({90}))))

\* A peer that answers with its own header, to name another version, is
\* reported without a banner.
observe_amqp ==
  Dial(Await(Rejected({20, 30, 55}) \cup Accepted({90}) \cup
             {Transcript(Replied, <<Probe(70), ServiceDetected(70)>>, "some")}))

\* A CONNACK with a code not listed is remarked on.
observe_mqtt ==
  Dial(Await(Rejected({20, 30}) \cup Remarked(70) \cup Accepted({90})))

observe_nats == Dial(Await(Rejected({20, 30}) \cup Accepted({90})))

\* ruok, and srvr on a second connection if it can be had.
observe_zookeeper ==
  Dial(Await(Rejected({20}) \cup Spare(Accepted({95}))))

\* The root page, and the API if it answers: a version from there is enough.
observe_rabbitmq == Get(Spare(Rejected({20}) \cup Accepted({90, 95})))

\* An HTTP/2 preface, then a request on a second connection; an answer to
\* either is enough.
observe_grpc ==
  Dial(Await(Dial(Rejected({20}) \cup Accepted({70, 90}))))

\* The REST endpoint, else the health page.
observe_hazelcast ==
  Get(Accepted({90}) \cup Get(Rejected({20}) \cup Accepted({90})))
=============================================================================
