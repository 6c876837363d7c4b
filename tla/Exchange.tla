------------------------------ MODULE Exchange ------------------------------
(***************************************************************************)
(* One exchange of a protocol client of ares-proto with a peer, as a       *)
(* transcript: what was heard of the peer, how many connections it tried   *)
(* at most, the events emitted in order, and what the client returned. A   *)
(* client is the set of its possible transcripts, over every peer; it is   *)
(* put together from the operators below, one for each kind of step.       *)
(*                                                                         *)
(* Texts are left out: an event is its type and its confidence in percent, *)
(* if it has one. One exchange runs at a time and nobody reads the graph   *)
(* while it runs, so that its transcript may be taken as one step of the   *)
(* module that calls it.                                                   *)
(***************************************************************************)
EXTENDS Naturals, Sequences

(* Events. `away` is set in those that are about other addresses than the  *)
(* one the client was given.                                               *)

Event(type, confidence) == [type |-> type, confidence |-> confidence, away |-> FALSE]

Banner == Event("banner", 0)

\* A ProbeResult whose name the asset graph does not know.
Probe(confidence) == Event("probe_result", confidence)

\* A ProbeResult that the asset graph takes for a sign of an open port,
\* whatever its confidence.
OpenProbe == Event("open_probe", 0)

ServiceDetected(confidence) == Event("service_detected", confidence)

PortOpen == Event("port_result", 0)

OsGuess(confidence) == Event("os_guess", confidence)

TlsCert == Event("tls_cert", 0)

Misconfig == Event("misconfig_finding", 0)

AsnInfo == Event("asn_info", 0)

\* An A or AAAA record, a PTR record, and a record that names no host.
AddressRecord == Event("address_record", 0)

PtrRecord == Event("ptr_record", 0)

NameRecord == Event("name_record", 0)

SessionOpened == Event("session_opened", 0)

SessionClosed == Event("session_closed", 0)

Away(events) == [i \in DOMAIN events |-> [events[i] EXCEPT !.away = TRUE]]

\* Sets of event sequences: an optional one, and one after the other.
Maybe(events) == {<<>>, events}

Joined(first, second) == {a \o b : a \in first, b \in second}

(* Transcripts. *)

\* The peer said nothing, took a connection, or sent something.
Nothing == 0
Connected == 1
Replied == 2

Transcript(heard, events, result) ==
  [heard |-> heard, dials |-> 0, events |-> events, result |-> result]

\* An await that fails: the error is returned with `?`, nothing is emitted.
Failure == {Transcript(Nothing, <<>>, "err")}

Hears(exchange, heard) ==
  {[t EXCEPT !.heard = IF @ < heard THEN heard ELSE @] : t \in exchange}

\* A connection that the client can do without.
Spare(exchange) == {[t EXCEPT !.dials = @ + 1] : t \in exchange}

\* connect: refused, unreachable or out of time, or a connection.
Dial(rest) == Spare(Failure \cup Hears(rest, Connected))

\* A write or a read on the connection that must succeed.
Await(rest) == Failure \cup rest

\* What a client emits in front of the rest.
After(events, rest) == {[t EXCEPT !.events = events \o @] : t \in rest}

(* Several exchanges. *)

Follow(t, u) ==
  [heard |-> IF u.heard > t.heard THEN u.heard ELSE t.heard,
   dials |-> t.dials + u.dials,
   events |-> t.events \o u.events,
   result |-> u.result]

\* The second is tried whatever the first returned.
InTurn(first, second) == {Follow(t, u) : t \in first, u \in second}

\* A visit is a sequence of exchanges with one peer: the next is tried if the
\* one before recognised nothing, or in any case.
Try(exchange) == [exchange |-> exchange, goes_on |-> FALSE]

Do(exchange) == [exchange |-> exchange, goes_on |-> TRUE]

\* What the caller emits behind what a client emitted.
Ended(t, events) == [t EXCEPT !.events = @ \o events]

\* Faulty variant: the caller does not look at what the client returned.
Always(exchange, endings) == {Ended(t, ending) : t \in exchange, ending \in endings}

\* The client recognised its peer, or took a connection that was closed without
\* a word for a page.
Recognised(exchange) == {t \in exchange : t.result \in {"some", "blank"}}

\* What the caller emits then.
IfSome(exchange, endings) ==
  (exchange \ Recognised(exchange)) \cup
  {Ended(t, ending) : t \in Recognised(exchange), ending \in endings}

(* Tables. *)

\* What a table has for a key, and the table of a set of such entries.
At(key, entry) == <<key, entry>>

Table(entries) ==
  [key \in {e[1] : e \in entries} |-> (CHOOSE e \in entries : e[1] = key)[2]]

(* How most clients end. *)

\* The reply, or the lack of one, is not what the protocol says.
Rejected(confidences) ==
  {Transcript(Nothing, <<Probe(c)>>, "none") : c \in confidences}

\* The reply is recognised.
Accepted(confidences) ==
  {Transcript(Replied, <<Banner, Probe(c), ServiceDetected(c)>>, "some") :
     c \in confidences}

\* Recognised, and only remarked on: no banner and no service.
Remarked(confidence) ==
  {Transcript(Replied, <<Probe(confidence)>>, "some")}

\* http_get_raw and http_get_body: a connection for one GET.
Get(rest) == Dial(Await(rest))

\* observe_line_banner: the first line the peer sends of its own accord.
observe_line_banner ==
  Dial(Await(Rejected({20, 35}) \cup Accepted({90})))
=============================================================================
