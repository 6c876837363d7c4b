----------------------------- MODULE HttpEngine -----------------------------
(***************************************************************************)
(* One GET of the HTTP engine of ares-proto (http.rs) as an exchange: the  *)
(* redirects it follows, the session it opens and closes, and what it says *)
(* of the page it ends with.                                               *)
(*                                                                         *)
(* Whether a page names its server, sets a cookie, has a title or lacks a  *)
(* header is the peer's choice. Of a chain of redirects is told apart      *)
(* whether it ends at the address the request was for or away from it.     *)
(***************************************************************************)
EXTENDS Exchange

(* What a page says. *)

\* The server's name is a banner. Probes that only name a header, a cookie or a
\* missing header are left out: they come with others that say as much.
Headers == Maybe(<<Banner>>)

\* The result of the port comes after the banners, which it erases, and before
\* the service, which only a page with a title has.
emit_http_observations ==
  Joined(Headers,
    {<<PortOpen, OpenProbe>>,
     <<Banner, OpenProbe, PortOpen, OpenProbe, ServiceDetected(90)>>})

(* One request: a connection, over TLS a handshake, then the answer. *)

\* After a handshake the peer has said something. The protocol that TLS agreed
\* on, if any, is told before the request is written; every page says as much.
single_exchange(tls, rest) ==
  Dial(IF tls
       THEN Failure \cup
            Hears(rest \cup UNION {After(told, Failure) : told \in Maybe(<<OpenProbe>>)},
                  Replied)
       ELSE Failure \cup rest)

(* The engine. *)

\* A redirect that is followed: the hop is told of, and the server it names.
Followed == {<<OpenProbe>>, <<OpenProbe, Banner>>}

Answer(events) == {Transcript(Replied, events, "some")}

\* The last page, the chain of a redirected request, and the end of a session
\* that is the request's own.
End(manage_session) == IF manage_session THEN <<SessionClosed>> ELSE <<>>

Concluded(chain, manage_session) ==
  UNION {Answer(page \o chain \o End(manage_session)) : page \in emit_http_observations}

\* A peer that closes the connection without a word has sent a page that has no
\* status, no headers and no text.
Blank(manage_session) ==
  {Transcript(Nothing, <<PortOpen, OpenProbe>> \o End(manage_session), "blank")}

\* A chain has as many hops as are allowed.
Longer(exchange, hops) == {[t EXCEPT !.dials = @ + hops - 1] : t \in exchange}

\* What is said of a hop that is not at the address is of another host or port
\* than the one in question, and left out; the end of the session is of none.
Redirected(end) ==
  Dial(Failure \cup Hears(Failure \cup Answer(end), Replied))

\* Up to max_redirects hops. A Location that leads nowhere is told and the page
\* that has it is the last; so is the page before a URL seen already.
request_follow(tls, max_redirects, manage_session) ==
  LET alone   == Concluded(<<>>, manage_session)
      chained == Concluded(<<OpenProbe>>, manage_session)
      next    == After(<<OpenProbe>>, alone) \cup
                 Longer(single_exchange(tls, chained) \cup
                        Redirected(End(manage_session)), max_redirects)
      first   == alone \cup
                 (IF max_redirects = 0 THEN {}
                  ELSE After(<<OpenProbe>>, alone) \cup
                       UNION {After(hop, next) : hop \in Followed})
      opened  == IF manage_session THEN <<SessionOpened>> ELSE <<>>
  IN  After(opened, single_exchange(tls, Hears(first, Replied) \cup Blank(manage_session)))

get == request_follow(FALSE, 5, TRUE)

get_tls == request_follow(TRUE, 5, TRUE)

\* Path probes and the pages of an API take no redirect.
get_path(tls) == request_follow(tls, 0, TRUE)

(* session_browse: several paths under one session and one jar. A page that *)
(* fails ends it and leaves the session open.                               *)

session_page(tls) == IfSome(request_follow(tls, 5, FALSE), {<<Probe(90)>>})

session_browse(tls) ==
  LET page  == session_page(tls)
      pages == (page \ Recognised(page)) \cup InTurn(Recognised(page), page)
  IN  After(<<SessionOpened>>, IfSome(pages, {<<SessionClosed>>}))
=============================================================================
