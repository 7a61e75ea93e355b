------------------------------- MODULE DavAuth -------------------------------
(***************************************************************************)
(* Authentication in the WebDAV client (pkg/gowebdav): requests of several *)
(* goroutines through one Client, whose authorizer keeps one default       *)
(* authenticator for all of them.                                          *)
(*                                                                         *)
(* A request clones the default, sends, and lets its authenticator judge   *)
(* the answer, which may ask for the request to be sent again.  An upload  *)
(* (WriteStreamWithLength) is a HEAD request, the probe, and then a PUT of *)
(* a stream that cannot be read twice.  When a challenge leads to a new    *)
(* authenticator, that very object becomes the default as well.            *)
(***************************************************************************)
EXTENDS Integers, Sequences, Functions

CONSTANTS Clients,    \* goroutines that use the client
          Uploaders,  \* those that upload; the others send a request that can
                      \* be repeated
          NoClient,
          Servers,    \* what servers ask for and accept, see Server
          MaxNonce,   \* bound: digest nonces the server hands out
          Usages,     \* TRUE: requests come one at a time; FALSE: they overlap
          Faults      \* "network": connections break; "expiry": nonces expire;
                      \* "refusal": the server turns requests down

Schemes == {"basic", "digest"}    \* those the client knows
Offered == Schemes \cup {"negotiate"}
Server == [offers : Seq(Offered), accepts : SUBSET Offered]

ASSUME ClientAssumption == Uploaders \subseteq Clients /\ NoClient \notin Clients
ASSUME ServerAssumption == Servers \subseteq Server
ASSUME BoundAssumption == MaxNonce \in Nat \ {0} /\ Usages \subseteq BOOLEAN
ASSUME FaultAssumption == Faults \subseteq {"network", "expiry", "refusal"}

VARIABLES
    server, serial, faults,  \* the circumstances
    nonce,          \* the digest nonce that is valid now
    owner,          \* the request whose authenticator is the default, if any
    default,        \* the default authenticator, if it is nobody's
    auth,           \* the authenticator each request is bound to
    pc, phase,
    answer,         \* the response a request has to judge
    body,           \* what is left of the stream of an upload
    stored,         \* what the server holds of it; "cut": its beginning;
                    \* "partial": what a second attempt would send
    result,
    crashed         \* a goroutine without a recover has panicked

circumstances == <<server, serial, faults>>
requests == <<pc, phase, answer, body, stored, result>>
vars == <<circumstances, nonce, owner, default, auth, requests, crashed>>

\* An authenticator: BasicAuth, DigestAuth with the nonce it was challenged
\* with, negoAuth with the schemes it has still to try, noAuth, nullAuth.
\* callback is the setDefaultAuthenticator of a negoAuth.
Authenticator == [kind : {"null", "none", "nego"} \cup Schemes,
                  schemes : Seq(Schemes), nonce : Nat, callback : {"set", "nil"}]
Auth(kind, schemes, n, callback) ==
    [kind |-> kind, schemes |-> schemes, nonce |-> n, callback |-> callback]
Null == Auth("null", <<>>, 0, "nil")
NoAuth == Auth("none", <<>>, 0, "nil")
Leaf(scheme, n) == Auth(scheme, <<scheme>>, n, "nil")
Nego(schemes, n) == Auth("nego", schemes, n, "set")

\* A response: accepted, turned down with another status than 401, 401, or 401
\* where the client can see that its nonce was stale; the scheme it is about and
\* the nonce to use.
NoAnswer == [status |-> "none", scheme |-> "none", nonce |-> 0]
Answer == [status : {"none", "ok", "failed", "denied", "stale"}, scheme : {"none"} \cup Schemes,
           nonce : Nat]

TypeOK ==
    /\ server \in Servers /\ serial \in Usages /\ faults \subseteq Faults
    /\ nonce \in 1..MaxNonce /\ owner \in Clients \cup {NoClient}
    /\ default \in Authenticator /\ auth \in [Clients -> Authenticator]
    /\ pc \in [Clients -> {"idle", "send", "verify", "redo", "adopt", "done", "panicked"}]
    /\ phase \in [Clients -> {"probe", "stream", "plain"}]
    /\ \A c \in Clients : phase[c] = "plain" <=> c \notin Uploaders
    /\ answer \in [Clients -> Answer]
    /\ body \in [Clients -> {"whole", "partial"}]
    /\ stored \in [Clients -> {"nothing", "cut", "partial", "whole"}]
    /\ result \in [Clients -> {"none", "ok", "err"}]
    /\ crashed \in BOOLEAN
    \* A default that is shared belongs to a request that is under way.
    /\ owner # NoClient => pc[owner] \in {"send", "verify", "redo", "adopt"}

InitWithoutProbe ==
    /\ server \in Servers /\ serial \in Usages /\ faults \in SUBSET Faults
    /\ nonce = 1 /\ owner = NoClient /\ default = Null
    /\ auth = [c \in Clients |-> Null]
    /\ pc = [c \in Clients |-> "idle"]
    /\ phase = [c \in Clients |-> IF c \in Uploaders THEN "stream" ELSE "plain"]
    /\ answer = [c \in Clients |-> NoAnswer]
    /\ body = [c \in Clients |-> "whole"]
    /\ stored = [c \in Clients |-> "nothing"]
    /\ result = [c \in Clients |-> "none"]
    /\ crashed = FALSE

\* NewClient with NewAutoAuth.
Init ==
    /\ server \in Servers /\ serial \in Usages /\ faults \in SUBSET Faults
    /\ nonce = 1 /\ owner = NoClient /\ default = Null
    /\ auth = [c \in Clients |-> Null]
    /\ pc = [c \in Clients |-> "idle"]
    /\ phase = [c \in Clients |-> IF c \in Uploaders THEN "probe" ELSE "plain"]
    /\ answer = [c \in Clients |-> NoAnswer]
    /\ body = [c \in Clients |-> "whole"]
    /\ stored = [c \in Clients |-> "nothing"]
    /\ result = [c \in Clients |-> "none"]
    /\ crashed = FALSE

-----------------------------------------------------------------------------
\* The authenticator that defAuth points to.
Default == IF owner = NoClient THEN default ELSE auth[owner]

\* negoAuth.Close takes the callback away; the other Close methods do nothing.
Closed(a) == [a EXCEPT !.callback = "nil"]

\* setDefaultAuthenticator closes the default, which may be the authenticator
\* of a request that is under way.
AuthsAfterSetDefault ==
    IF owner = NoClient THEN auth ELSE [auth EXCEPT ![owner] = Closed(@)]

\* A response is looked at once.
Judged(c) == answer' = [answer EXCEPT ![c] = NoAnswer]

CloseForgets(c, auths) ==
    auth' = [auths EXCEPT ![c] = Null] /\ UNCHANGED <<owner, default>>

\* The deferred auth.Close() of req.  The authenticator may be the default too.
CloseShim(c, auths) ==
    /\ auth' = [auths EXCEPT ![c] = Null]
    /\ IF owner = c THEN owner' = NoClient /\ default' = Closed(auths[c])
                    ELSE UNCHANGED <<owner, default>>

At(c, label) == pc[c] = label /\ ~crashed
Goto(c, label) == pc' = [pc EXCEPT ![c] = label]

\* req returns: after the probe comes the PUT, whatever the probe met with.
Return(c, res) ==
    /\ IF phase[c] = "probe"
       THEN /\ Goto(c, "idle") /\ phase' = [phase EXCEPT ![c] = "stream"]
            /\ UNCHANGED result
       ELSE /\ Goto(c, "done") /\ result' = [result EXCEPT ![c] = res]
            /\ UNCHANGED phase

Fails(c) == CloseShim(c, auth) /\ Judged(c) /\ Return(c, "err")

-----------------------------------------------------------------------------
(* Sending *)

\* Requests that come one at a time: none begins inside another or between a
\* probe and its PUT.
InTheWay(c) == pc[c] \notin {"idle", "done", "panicked"}
                  \/ (pc[c] = "idle" /\ phase[c] = "stream")

\* NewAuthenticator: the request gets a clone of the default.
Begin(c) ==
    /\ At(c, "idle") /\ (serial => \A d \in Clients \ {c} : ~InTheWay(d))
    /\ auth' = [auth EXCEPT ![c] = Default]
    /\ Goto(c, "send")
    /\ UNCHANGED <<circumstances, nonce, owner, default, phase, answer, body, stored,
                   result, crashed>>

\* Authorize of a negotiator that has nothing left to try.
NothingToTry(c) == auth[c].kind = "nego" /\ auth[c].schemes = <<>>
AuthorizeFails(c) ==
    /\ At(c, "send") /\ NothingToTry(c)
    /\ Fails(c)
    /\ UNCHANGED <<circumstances, nonce, body, stored, crashed>>

Scheme(a) == IF a.schemes = <<>> THEN "none" ELSE Head(a.schemes)
Expired(a) == Scheme(a) = "digest" /\ a.nonce # nonce
Accepts(a) ==
    \/ server.offers = <<>>
    \/ Scheme(a) \in server.accepts /\ ~Expired(a)

\* Sending a stream uses it up.
UsesUp(c) ==
    body' = IF phase[c] = "stream" THEN [body EXCEPT ![c] = "partial"] ELSE body

\* The server deals with what it gets of the request.
Stores(c, what) ==
    /\ stored' = IF phase[c] = "stream" /\ Accepts(auth[c])
                 THEN [stored EXCEPT ![c] = what] ELSE stored
    /\ UsesUp(c)
Arrives(c) == Stores(c, body[c])

\* isStaled looks at the first of the Www-Authenticate headers.
StaleSeen(a) ==
    /\ ~Accepts(a) /\ Expired(a) /\ "digest" \in server.accepts
    /\ Head(server.offers) = "digest"

Answers(c, status) ==
    /\ answer' = [answer EXCEPT ![c] = [status |-> status, scheme |-> Scheme(auth[c]),
                                        nonce |-> nonce]]
    /\ Goto(c, "verify")
    /\ UNCHANGED <<circumstances, nonce, owner, default, auth, phase, result, crashed>>

Status(a) == CASE Accepts(a)   -> "ok"
               [] StaleSeen(a) -> "stale"
               [] OTHER        -> "denied"

Answered(c) ==
    /\ At(c, "send") /\ ~NothingToTry(c)
    /\ Arrives(c)
    /\ Answers(c, Status(auth[c]))

\* A status like 404, 409 or 507: nothing is stored.
TurnedDown(c) ==
    /\ At(c, "send") /\ ~NothingToTry(c) /\ "refusal" \in faults
    /\ UsesUp(c) /\ UNCHANGED stored
    /\ Answers(c, "failed")

\* Do returns an error: the request got lost, was cut off in its body, which a
\* server may store as far as it came, or only the answer got lost.
Breaks(c) ==
    /\ At(c, "send") /\ ~NothingToTry(c) /\ "network" \in faults
    /\ UNCHANGED <<stored, body>> \/ Stores(c, "cut") \/ Arrives(c)
    /\ Fails(c)
    /\ UNCHANGED <<circumstances, nonce, crashed>>

-----------------------------------------------------------------------------
(* Verify *)

Kind(c) == auth[c].kind
Ok(c) == answer[c].status = "ok"
Stale(c) == answer[c].status = "stale"
Unchallenged(c) == answer[c].status \in {"ok", "failed"}
Denied(c) == answer[c].status \in {"denied", "stale"}
\* WriteStreamWithLength, like the other operations, looks at the status last.
Outcome(c) == IF Ok(c) THEN "ok" ELSE "err"
Local == UNCHANGED <<circumstances, nonce, body, stored, crashed>>

\* noAuth, BasicAuth and DigestAuth are content with anything but a challenge.
Settled(c) ==
    /\ At(c, "verify") /\ Unchallenged(c) /\ Kind(c) \in {"none", "basic", "digest"}
    /\ CloseShim(c, auth) /\ Judged(c) /\ Return(c, Outcome(c))
    /\ Local

\* The credentials are not good, and there is nothing else to try.
Refused(c) ==
    /\ At(c, "verify") /\ Denied(c)
    /\ \/ Kind(c) = "basic"
       \/ Kind(c) = "digest" /\ ~Stale(c)
       \/ Kind(c) = "nego" /\ Len(auth[c].schemes) = 1
    /\ Fails(c)
    /\ Local

\* ErrAuthChanged: nullAuth after every answer, noAuth when it is challenged,
\* DigestAuth when its nonce is stale.
Changed(c) ==
    \/ Kind(c) = "null"
    \/ Kind(c) = "none" /\ Denied(c)
    \/ Kind(c) = "digest" /\ Stale(c)

\* What suits the challenge, in the order of registration.
IfOffered(scheme) == IF scheme \in Range(server.offers) THEN <<scheme>> ELSE <<>>
Known == IfOffered("basic") \o IfOffered("digest")
Negotiated(c) ==
    CASE Unchallenged(c)                    -> NoAuth
      [] ~Unchallenged(c) /\ Len(Known) = 1 -> Leaf(Known[1], answer[c].nonce)
      [] OTHER                              -> Nego(Known, answer[c].nonce)

NegotiateAlone(c) ==
    /\ At(c, "verify") /\ Changed(c) /\ (Denied(c) => Known # <<>>)
    /\ auth' = [auth EXCEPT ![c] = Negotiated(c)]
    /\ UNCHANGED <<owner, default>>
    /\ Goto(c, "redo")
    /\ Judged(c) /\ UNCHANGED <<phase, result>> /\ Local

\* factory, then setDefaultAuthenticator: it is bound to the request and is the
\* default from now on.
Negotiate(c) ==
    /\ At(c, "verify") /\ Changed(c) /\ (Denied(c) => Known # <<>>)
    /\ auth' = [AuthsAfterSetDefault EXCEPT ![c] = Negotiated(c)]
    /\ owner' = c /\ UNCHANGED default
    /\ Goto(c, "redo")
    /\ Judged(c) /\ UNCHANGED <<phase, result>> /\ Local

\* NoAuthenticator: nothing that is offered is known.
NegotiateFails(c) ==
    /\ At(c, "verify") /\ Changed(c) /\ Denied(c) /\ Known = <<>>
    /\ Fails(c)
    /\ Local

\* negoAuth: the first scheme was refused.
TryAgain(c) ==
    /\ At(c, "verify") /\ Kind(c) = "nego" /\ Denied(c) /\ Len(auth[c].schemes) > 1
    /\ Goto(c, "redo")
    /\ Judged(c) /\ UNCHANGED <<owner, default, auth, phase, result>> /\ Local
TryNext(c) ==
    /\ At(c, "verify") /\ Kind(c) = "nego" /\ Denied(c) /\ Len(auth[c].schemes) > 1
    /\ auth' = [auth EXCEPT ![c].schemes = Tail(@)]
    /\ Goto(c, "redo")
    /\ Judged(c) /\ UNCHANGED <<owner, default, phase, result>> /\ Local

\* negoAuth: the first scheme is the one.  It is taken off the list, and then
\* setDefaultAuthenticator is called through the negotiator.
Chooses(c) ==
    /\ At(c, "verify") /\ Kind(c) = "nego" /\ Unchallenged(c)
    /\ auth' = [auth EXCEPT ![c].schemes = Tail(@)]
    /\ Goto(c, "adopt")
    /\ UNCHANGED <<owner, default, phase, answer, result>> /\ Local

Adopt(c) ==
    /\ At(c, "adopt") /\ auth[c].callback = "set"
    /\ auth' = [AuthsAfterSetDefault EXCEPT ![c] = Null]
    /\ owner' = NoClient
    /\ default' = Leaf(answer[c].scheme, auth[c].nonce)
    /\ Judged(c) /\ Return(c, Outcome(c))
    /\ Local

\* The callback of a closed negotiator is nil.  net/http recovers the panic of
\* its handlers; in the goroutine of an upload it ends the process.
AdoptPanics(c) ==
    /\ At(c, "adopt") /\ auth[c].callback = "nil"
    /\ CloseShim(c, auth) /\ Judged(c)
    /\ Goto(c, "panicked") /\ crashed' = (c \in Uploaders)
    /\ UNCHANGED <<circumstances, nonce, phase, body, stored, result>>

\* After redo: a stream cannot be sent again, because put has taken GetBody away.
RedoStream(c) ==
    /\ At(c, "redo")
    /\ Goto(c, "send")
    /\ UNCHANGED <<owner, default, auth, phase, answer, result>> /\ Local
Redo(c) ==
    /\ At(c, "redo") /\ phase[c] # "stream"
    /\ Goto(c, "send")
    /\ UNCHANGED <<owner, default, auth, phase, answer, result>> /\ Local

RedoRefused(c) ==
    /\ At(c, "redo") /\ phase[c] = "stream"
    /\ Fails(c)
    /\ Local

\* The server's nonce expires.
Expires ==
    /\ "expiry" \in faults /\ nonce < MaxNonce /\ ~crashed
    /\ nonce' = nonce + 1
    /\ UNCHANGED <<circumstances, owner, default, auth, requests, crashed>>

Request(c) ==
    \/ Begin(c) \/ AuthorizeFails(c) \/ Answered(c) \/ TurnedDown(c) \/ Breaks(c)
    \/ Settled(c) \/ Refused(c) \/ Negotiate(c) \/ NegotiateFails(c)
    \/ TryNext(c) \/ Chooses(c) \/ Adopt(c) \/ AdoptPanics(c)
    \/ Redo(c) \/ RedoRefused(c)

Next == (\E c \in Clients : Request(c)) \/ Expires

\* Goroutines run and servers answer, or the connection breaks.
Spec == Init /\ [][Next]_vars /\ \A c \in Clients : WF_vars(Request(c))

-----------------------------------------------------------------------------
\* Success means that the server keeps the whole streamed body.  The body of a PUT
\* that was challenged is never sent again from where the first attempt stopped;
\* the beginning of a body, which a connection broken in the middle may leave, is
\* never taken for the whole.
WholeOrNothing ==
    \A c \in Uploaders :
        /\ stored[c] # "partial"
        /\ result[c] = "ok" => stored[c] = "whole"

\* Unless connections break, an upload that is reported as failed has left
\* nothing at the server, also where nonces expire between the probe and the PUT,
\* other requests change the default, or the server turns requests down: the
\* probe has spent the first answer, which nullAuth always throws away.
FailedLeavesNothing ==
    "network" \notin faults => \A c \in Uploaders : result[c] = "err" => stored[c] = "nothing"

\* "At this point c.auth should hold valid authentication" (client.go): while
\* nothing breaks or expires, an upload is answered with success on a server that
\* knows the credentials, if only one scheme is known or requests come one at a
\* time.
GoodServer == server.offers = <<>> \/ Range(Known) \cap server.accepts # {}
WarmUpWorks ==
    faults = {} /\ GoodServer /\ (Len(Known) <= 1 \/ serial)
        => \A c \in Uploaders : <>(result[c] = "ok")

\* Every request comes to an end, though the loop in req has no limit of its
\* own: each of the schemes is refused at most once, and an authenticator that
\* asks for another turn has either learnt a nonce or is replaced.
RequestsEnd ==
    \A c \in Clients : <>(pc[c] \in {"done", "panicked"} \/ crashed)

\* "Each request is bound to a separate Authenticator instance" (auth.go): no
\* other request closes the authenticator of one that has just been accepted.
SeparateInstances == \A c \in Clients : pc[c] = "adopt" => auth[c].callback = "set"
=============================================================================
