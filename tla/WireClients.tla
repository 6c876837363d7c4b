---------------------------- MODULE WireClients ----------------------------
(***************************************************************************)
(* The clients of ares-proto and ares-probe for the wire protocols under   *)
(* the applications: SSH, SMB, HTTP/2, TLS, a plain banner, and what is    *)
(* guessed of the operating system from a text they return.                *)
(***************************************************************************)
EXTENDS Exchange

(* fingerprint.rs: the confidence depends on the text. Only whether a text *)
(* is known matters here, and which of two guesses is the stronger.        *)

\* The weakest and the strongest text that infer_from_text knows.
infer_from_text == {35, 70}

guess_os_from_banner == {<<>>} \cup {<<OsGuess(c)>> : c \in infer_from_text}

\* A client whose answer is read for the operating system.
Guessed(client) == IfSome(client, guess_os_from_banner)

\* A reply TTL that was seen says something too; when the two agree the guess
\* gets stronger, up to a limit.
guess_os_correlated(banners, ttl_seen) ==
  IF ttl_seen
  THEN {<<OsGuess(c)>> : c \in {15, 35, 45} \cup banners \cup {c + 25 : c \in banners \ {70}}
                                \cup (IF 70 \in banners THEN {92} ELSE {})}
  ELSE {<<>>} \cup {<<OsGuess(c)>> : c \in banners}

guess_os_from_smb == {<<OsGuess(c)>> : c \in {40, 45, 55, 60}}

(* ssh.rs: whatever the peer says first is returned, and only an SSH       *)
(* identification is reported.                                             *)

ssh_grab ==
  Dial(Await({Transcript(Connected, <<>>, "some"),
              Transcript(Replied, <<Banner, ServiceDetected(95)>>, "some")}))

(* smb.rs: no reply is not an error. *)

smb_negotiate ==
  Dial(Await(Rejected({20}) \cup Hears(Rejected({40}), Replied) \cup
             {Transcript(Replied, <<Probe(85), ServiceDetected(85)>>, "some")}))

(* http2.rs *)

\* Faulty variant: a connection that is refused is told like a silent peer.
ToldOnRefusal ==
  {Transcript(Nothing, <<OpenProbe>>, "none"),
   Transcript(Replied, <<OpenProbe, PortOpen, ServiceDetected(90)>>, "some")}

\* The answer to the preface may be missing; it is looked at in any case.
observe_h2_cleartext ==
  Dial(Await({Transcript(Connected, <<OpenProbe>>, "none"),
              Transcript(Replied,
                <<OpenProbe, PortOpen, ServiceDetected(90)>>, "some")}))

\* A handshake that fails is reported and is not an error; a name that is no
\* server name is one.
observe_h2_alpn ==
  Dial(Failure \cup
    {Transcript(Connected, <<OpenProbe>>, "none"),
     Transcript(Replied, <<OpenProbe, PortOpen>>, "none")} \cup
    {Transcript(Replied, <<OpenProbe, PortOpen, ServiceDetected(c)>>, "some") :
       c \in {75, 95}})

(* tls_observe.rs *)

\* The connection is part of the handshake, and fails like it.
handshake_once(failed, rest) == Spare(failed \cup Hears(failed, Connected) \cup rest)

soft_stack_hint == {<<>>, <<OsGuess(20)>>, <<OsGuess(35)>>}

\* The certificate, its fingerprint, and what is wrong with it: signed by
\* itself; expired, or about to.
emit_cert_analysis ==
  Joined({<<TlsCert, OpenProbe, OpenProbe>>},
    Joined(Maybe(<<Misconfig>>), Joined(Maybe(<<Misconfig>>), soft_stack_hint)))

\* Three handshakes, each on a connection of its own. The first decides; the
\* other two only ask for the versions. It never returns an error. What is said
\* of a certificate that does not fit the name asked for is left out.
observe_tls ==
  LET failed   == {Transcript(Nothing, <<OpenProbe>>, "none")}
      primary  == Joined({<<PortOpen, OpenProbe, OpenProbe>>},
                         Maybe(<<OpenProbe>>))
      versions == Maybe(<<OpenProbe>>)
      peer     == Joined(emit_cert_analysis, {<<ServiceDetected(90)>>}) \cup
                  {<<OpenProbe>>}
      shaken   == Joined(primary, Joined(versions, peer))
  IN  handshake_once(failed,
        Spare(Spare({Transcript(Replied, events, "some") : events \in shaken})))

(* banner.rs: the first line of what the peer says, after a nudge on some  *)
(* ports; every failure is the same as silence.                            *)

grab_banner ==
  Spare({Transcript(Nothing, <<>>, "none"), Transcript(Connected, <<>>, "none"),
         Transcript(Replied, <<>>, "none"), Transcript(Replied, <<Banner>>, "some")})
(* dns.rs: a lookup that fails leaves its records out and nothing else. *)

resolve_a == Maybe(<<AddressRecord>>)

\* query_mx, query_ns and query_txt.
query_records == Maybe(<<NameRecord>>)

\* The name, its mail, name server and text records, then ten names under it:
\* their addresses are other hosts.
enrich_domain ==
  {Transcript(Nothing, events, "some") :
     events \in Joined(resolve_a, Joined(query_records,
                  {<<>>, Away(<<AddressRecord>>)}))}

(* asn.rs: asks the name service only; the host itself is never asked. *)

\* An IPv6 address has no entry. A network that is a CDN's is a probe result
\* of its own, of port 0.
lookup_asn == {<<>>, <<AsnInfo>>, <<AsnInfo, Probe(70)>>}

enrich_host ==
  {Transcript(Nothing, events, "some") :
     events \in Joined(lookup_asn,
                  {<<>>, <<PtrRecord>>, <<PtrRecord, Probe(75)>>})}
=============================================================================
