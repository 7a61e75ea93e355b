---------------------------- MODULE DavAuthProofs ----------------------------
(***************************************************************************)
(* What DavAuth promises of uploads, for any number of goroutines, any     *)
(* servers, with connections that break and nonces that expire.            *)
(***************************************************************************)
EXTENDS DavAuth, TLAPS

Busy(c) == pc[c] \in {"send", "verify", "redo", "adopt"}

\* A default that is shared has been negotiated; once a request has anything
\* but the initial authenticator, the default is something else too; the
\* initial one has no scheme to offer, a negotiator one when it is answered.
Authenticators ==
    /\ default.kind = "null" => default.schemes = <<>>
    /\ owner # NoClient => auth[owner].kind # "null"
    /\ \A c \in Clients :
         /\ auth[c].kind = "null" => auth[c].schemes = <<>>
         /\ Busy(c) /\ auth[c].kind # "null" => Default.kind # "null"
         /\ pc[c] = "verify" /\ auth[c].kind = "nego" => auth[c].schemes # <<>>
         /\ pc[c] = "adopt" => auth[c].kind = "nego"
         /\ pc[c] \in {"verify", "adopt"} /\ auth[c].kind = "nego"
              => answer[c].scheme # "none"

\* What the server holds of each upload, and when its stream is used up.
OwnStream(c) ==
    /\ phase[c] = "probe" \/ pc[c] \in {"idle", "send"} =>
          body[c] = "whole" /\ stored[c] = "nothing"
    /\ phase[c] = "probe" \/ pc[c] # "done" => result[c] = "none"
    /\ pc[c] \in {"verify", "adopt"} /\ Ok(c) =>
          phase[c] = "probe" \/ stored[c] = "whole"
    /\ stored[c] # "partial"
    /\ result[c] = "ok" => stored[c] = "whole"
Streams == \A c \in Uploaders : OwnStream(c)

\* Without broken connections the initial authenticator meets a stream only if
\* the server accepts nobody without credentials: what fails has stored nothing.
OwnQuiet(c) ==
    /\ phase[c] = "stream" /\ Default.kind = "null" => server.offers # <<>>
    /\ pc[c] = "verify" => Unchallenged(c) \/ (Denied(c) /\ server.offers # <<>>)
    /\ phase[c] = "stream" /\ Busy(c) /\ auth[c].kind = "null" =>
          server.offers # <<>> /\ ~(pc[c] = "verify" /\ Ok(c))
    /\ phase[c] = "stream" /\ (pc[c] = "redo" \/ result[c] = "err"
                               \/ (pc[c] \in {"verify", "adopt"} /\ ~Ok(c))) =>
          stored[c] = "nothing"
Quiet == "network" \notin faults => \A c \in Clients : OwnQuiet(c)

DInv == TypeOK /\ Authenticators /\ Streams /\ Quiet

-----------------------------------------------------------------------------
\* What the negotiation returns is an authenticator, and not the initial one.
LEMMA NegotiatedShape ==
    ASSUME TypeOK, NEW c \in Clients
    PROVE  /\ Negotiated(c) \in Authenticator
           /\ Negotiated(c).kind # "null"
           /\ Denied(c) /\ Known # <<>> /\ Negotiated(c).kind = "nego"
                => Negotiated(c).schemes # <<>>
<1>1. Known \in Seq(Schemes)
  <2>1. \A s \in Schemes : <<s>> \in Seq(Schemes) /\ <<>> \in Seq(Schemes)
    OBVIOUS
  <2>2. IfOffered("basic") \in Seq(Schemes) /\ IfOffered("digest") \in Seq(Schemes)
    BY <2>1 DEF IfOffered, Schemes
  <2> QED
    BY <2>2 DEF Known
<1>2. answer[c].nonce \in Nat
  BY DEF TypeOK, Answer
<1>3. CASE Unchallenged(c)
  <2>1. Negotiated(c) = NoAuth /\ ~Denied(c)
    BY <1>3 DEF Negotiated, Unchallenged, Denied
  <2>2. <<>> \in Seq(Schemes)
    OBVIOUS
  <2> QED
    BY <2>1, <2>2 DEF NoAuth, Auth, Authenticator
<1>4. CASE ~Unchallenged(c) /\ Len(Known) = 1
  <2>1. Known[1] \in Schemes
    BY <1>1, <1>4
  <2>2. Negotiated(c) = Leaf(Known[1], answer[c].nonce)
    BY <1>4 DEF Negotiated
  <2> QED
    BY <1>2, <2>1, <2>2 DEF Leaf, Auth, Authenticator, Schemes
<1>5. CASE ~Unchallenged(c) /\ Len(Known) # 1
  <2>1. Negotiated(c) = Nego(Known, answer[c].nonce)
    BY <1>5 DEF Negotiated
  <2> QED
    BY <1>1, <1>2, <2>1 DEF Nego, Auth, Authenticator
<1> QED
  BY <1>3, <1>4, <1>5

\* Null is an authenticator, and closing one leaves one of the same kind.
LEMMA Closing ==
    /\ Null \in Authenticator
    /\ \A a \in Authenticator :
         /\ Closed(a) \in Authenticator
         /\ Closed(a).kind = a.kind /\ Closed(a).schemes = a.schemes
<1>1. <<>> \in Seq(Schemes)
  OBVIOUS
<1> QED
  BY <1>1 DEF Closed, Null, Auth, Authenticator

\* The end of a request: its own authenticator is gone, a default it shared is
\* closed.
LEMMA CloseShimShape ==
    ASSUME TypeOK, Authenticators, NEW c \in Clients, CloseShim(c, auth)
    PROVE  /\ auth' \in [Clients -> Authenticator]
           /\ default' \in Authenticator
           /\ owner' \in Clients \cup {NoClient}
           /\ owner' # c /\ (owner' # NoClient => owner' = owner)
           /\ auth' = [auth EXCEPT ![c] = Null]
           /\ Default'.kind = Default.kind
           /\ default'.kind = "null" => default'.schemes = <<>>
<1>1. auth' = [auth EXCEPT ![c] = Null] /\ c # NoClient
  BY ClientAssumption DEF CloseShim
<1>2. auth' \in [Clients -> Authenticator]
  BY <1>1, Closing DEF TypeOK
<1>3. CASE owner = c
  <2>1. owner' = NoClient /\ default' = Closed(auth[c])
    BY <1>3 DEF CloseShim
  <2>2. default' \in Authenticator /\ default'.kind = auth[c].kind /\ auth[c].kind # "null"
    BY <1>1, <1>3, <2>1, Closing DEF TypeOK, Authenticators
  <2> QED
    BY <1>1, <1>2, <1>3, <2>1, <2>2 DEF Default
<1>4. CASE owner # c
  BY <1>1, <1>2, <1>4 DEF CloseShim, Default, TypeOK, Authenticators
<1> QED
  BY <1>3, <1>4

-----------------------------------------------------------------------------
\* Only the initial default is the initial authenticator: a step may negotiate
\* another default, but never goes back.
Monotone == Default.kind # "null" => Default'.kind # "null"

AuthTypes ==
    /\ owner \in Clients \cup {NoClient} /\ default \in Authenticator
    /\ auth \in [Clients -> Authenticator]

\* Steps that end a request with the deferred Close.
LEMMA ClosingStep ==
    ASSUME TypeOK, Authenticators, NEW c \in Clients, CloseShim(c, auth),
           pc' \in [Clients -> {"idle", "send", "verify", "redo", "adopt", "done", "panicked"}],
           ~Busy(c)', \A x \in Clients \ {c} : pc'[x] = pc[x] /\ answer'[x] = answer[x]
    PROVE  AuthTypes' /\ Authenticators' /\ Monotone
<1>1. /\ AuthTypes' /\ Monotone
      /\ auth' = [auth EXCEPT ![c] = Null]
      /\ owner' # c /\ (owner' # NoClient => owner' = owner)
      /\ Default'.kind = Default.kind
      /\ default'.kind = "null" => default'.schemes = <<>>
  BY CloseShimShape DEF AuthTypes, Monotone
<1>2. owner' # NoClient => auth'[owner'].kind # "null"
  BY <1>1 DEF Authenticators, TypeOK
<1>3. \A x \in Clients \ {c} : auth'[x] = auth[x] /\ (Busy(x)' <=> Busy(x))
  BY <1>1 DEF Busy, TypeOK
<1>4. auth'[c].kind = "null" /\ auth'[c].schemes = <<>>
  BY <1>1 DEF TypeOK, Null, Auth
<1> QED
  BY <1>1, <1>2, <1>3, <1>4 DEF Authenticators, Busy

\* A request that begins takes a clone of the default, whatever that is.
LEMMA BeginStep ==
    ASSUME TypeOK, Authenticators, NEW c \in Clients, Begin(c)
    PROVE  AuthTypes' /\ Authenticators' /\ Monotone
<1>1. owner # c /\ c # NoClient /\ Default \in Authenticator
  BY ClientAssumption DEF TypeOK, Begin, At, Default
<1>2. /\ auth' = [auth EXCEPT ![c] = Default] /\ owner' = owner /\ default' = default
      /\ pc' = [pc EXCEPT ![c] = "send"] /\ answer' = answer
  BY DEF Begin, Goto
<1>3. AuthTypes' /\ Default' = Default
  BY <1>1, <1>2 DEF AuthTypes, TypeOK, Default
<1>4. Default.kind = "null" => Default.schemes = <<>>
  BY DEF Default, Authenticators, TypeOK
<1> QED
  BY <1>1, <1>2, <1>3, <1>4 DEF Authenticators, Busy, Monotone, TypeOK

\* What a request has negotiated becomes its own and the default.
LEMMA NegotiateStep ==
    ASSUME TypeOK, Authenticators, NEW c \in Clients, Negotiate(c)
    PROVE  AuthTypes' /\ Authenticators' /\ Monotone
<1> DEFINE others == AuthsAfterSetDefault
<1>1. /\ Negotiated(c) \in Authenticator /\ Negotiated(c).kind # "null"
  BY NegotiatedShape
<1>2. /\ others \in [Clients -> Authenticator]
      /\ \A x \in Clients : others[x].kind = auth[x].kind /\ others[x].schemes = auth[x].schemes
  BY Closing DEF AuthsAfterSetDefault, TypeOK
<1>3. /\ auth' = [others EXCEPT ![c] = Negotiated(c)] /\ owner' = c /\ default' = default
      /\ pc' = [pc EXCEPT ![c] = "redo"] /\ answer' = [answer EXCEPT ![c] = NoAnswer]
      /\ c # NoClient
  BY ClientAssumption DEF Negotiate, Goto, Judged
<1>4. AuthTypes' /\ Default' = Negotiated(c)
  <2> HIDE DEF others
  <2> QED BY <1>1, <1>2, <1>3 DEF AuthTypes, TypeOK, Default
<1>5. \A x \in Clients \ {c} : /\ auth'[x].kind = auth[x].kind /\ auth'[x].schemes = auth[x].schemes
                               /\ pc'[x] = pc[x] /\ answer'[x] = answer[x]
  <2> HIDE DEF others
  <2> QED BY <1>2, <1>3 DEF TypeOK
<1>6. auth'[c].kind # "null" /\ pc'[c] = "redo"
  <2> HIDE DEF others
  <2> QED BY <1>1, <1>2, <1>3 DEF TypeOK
<1> QED
  BY <1>1, <1>3, <1>4, <1>5, <1>6 DEF Authenticators, Busy, Monotone

\* negoAuth moves on in its list.
LEMMA ShiftStep ==
    ASSUME TypeOK, Authenticators, NEW c \in Clients,
           auth' = [auth EXCEPT ![c].schemes = Tail(@)], UNCHANGED <<owner, default>>,
           Kind(c) = "nego", pc[c] = "verify",
           \/ pc' = [pc EXCEPT ![c] = "redo"]
           \/ pc' = [pc EXCEPT ![c] = "adopt"] /\ answer' = answer,
           \A x \in Clients \ {c} : answer'[x] = answer[x]
    PROVE  AuthTypes' /\ Authenticators' /\ Monotone
<1>1. auth[c] \in Authenticator /\ auth[c].schemes # <<>>
  BY DEF TypeOK, Authenticators, Kind
<1>2. Tail(auth[c].schemes) \in Seq(Schemes)
  BY <1>1 DEF Authenticator
<1>3. [auth[c] EXCEPT !.schemes = Tail(@)] \in Authenticator
  BY <1>1, <1>2 DEF Authenticator
<1>4. /\ auth' = [auth EXCEPT ![c] = [auth[c] EXCEPT !.schemes = Tail(@)]]
      /\ owner' = owner /\ default' = default
  BY DEF TypeOK
<1>5. \A x \in Clients : auth'[x].kind = auth[x].kind
  BY <1>1, <1>3, <1>4 DEF TypeOK, Authenticator
<1>6. AuthTypes' /\ Default'.kind = Default.kind
  BY <1>3, <1>4, <1>5 DEF AuthTypes, TypeOK, Default
<1>7. \A x \in Clients \ {c} : auth'[x] = auth[x] /\ pc'[x] = pc[x]
  BY <1>4 DEF TypeOK
<1>8. pc'[c] \in {"redo", "adopt"} /\ (pc'[c] = "adopt" => answer'[c] = answer[c])
  BY DEF TypeOK
<1> QED
  BY <1>4, <1>5, <1>6, <1>7, <1>8 DEF Authenticators, Busy, Monotone, Kind, TypeOK

\* The scheme that was accepted becomes the default, without its negotiator.
LEMMA AdoptStep ==
    ASSUME TypeOK, Authenticators, NEW c \in Clients, Adopt(c)
    PROVE  AuthTypes' /\ Authenticators' /\ Monotone
<1> DEFINE others == AuthsAfterSetDefault
<1>1. /\ others \in [Clients -> Authenticator]
      /\ \A x \in Clients : others[x].kind = auth[x].kind /\ others[x].schemes = auth[x].schemes
  BY Closing DEF AuthsAfterSetDefault, TypeOK
<1>2. /\ auth' = [others EXCEPT ![c] = Null] /\ owner' = NoClient
      /\ default' = Leaf(answer[c].scheme, auth[c].nonce)
      /\ \/ pc' = [pc EXCEPT ![c] = "idle"] 
         \/ pc' = [pc EXCEPT ![c] = "done"]
      /\ answer' = [answer EXCEPT ![c] = NoAnswer] /\ pc[c] = "adopt"
  BY DEF Adopt, Goto, Judged, Return, At
<1>3. answer[c].scheme \in Schemes /\ auth[c].nonce \in Nat
  BY <1>2 DEF TypeOK, Answer, Authenticators, Authenticator
<1>4. default' \in Authenticator /\ default'.kind # "null"
  <2>1. <<answer[c].scheme>> \in Seq(Schemes)
    BY <1>3
  <2> QED
    BY <1>2, <1>3, <2>1 DEF Leaf, Auth, Authenticator, Schemes
<1>5. AuthTypes' /\ Default' = default'
  <2> HIDE DEF others
  <2> QED BY <1>1, <1>2, <1>4, Closing DEF AuthTypes, Default
<1>6. \A x \in Clients \ {c} : /\ auth'[x].kind = auth[x].kind /\ auth'[x].schemes = auth[x].schemes
                               /\ pc'[x] = pc[x] /\ answer'[x] = answer[x]
  <2> HIDE DEF others
  <2> QED BY <1>1, <1>2 DEF TypeOK
<1>7. auth'[c].kind = "null" /\ auth'[c].schemes = <<>> /\ ~Busy(c)'
  <2> HIDE DEF others
  <2> QED BY <1>1, <1>2 DEF TypeOK, Null, Auth, Busy
<1> QED
  BY <1>2, <1>4, <1>5, <1>6, <1>7 DEF Authenticators, Busy, Monotone

-----------------------------------------------------------------------------
\* How a step of a request touches the rest of the state.
RestTypes ==
    /\ server \in Servers /\ serial \in Usages /\ faults \subseteq Faults
    /\ nonce \in 1..MaxNonce
    /\ pc \in [Clients -> {"idle", "send", "verify", "redo", "adopt", "done", "panicked"}]
    /\ phase \in [Clients -> {"probe", "stream", "plain"}]
    /\ \A c \in Clients : phase[c] = "plain" <=> c \notin Uploaders
    /\ answer \in [Clients -> Answer]
    /\ body \in [Clients -> {"whole", "partial"}]
    /\ stored \in [Clients -> {"nothing", "cut", "partial", "whole"}]
    /\ result \in [Clients -> {"none", "ok", "err"}]
    /\ crashed \in BOOLEAN

\* The end of req (Return): after a probe the upload goes on, else the
\* request has its result; no other request is touched.
LEMMA ReturnShape ==
    ASSUME RestTypes, NEW c \in Clients, NEW res \in {"ok", "err"}, Return(c, res)
    PROVE  /\ pc' \in [Clients -> {"idle", "send", "verify", "redo", "adopt", "done", "panicked"}]
           /\ phase' \in [Clients -> {"probe", "stream", "plain"}]
           /\ \A x \in Clients : phase'[x] = "plain" <=> x \notin Uploaders
           /\ result' \in [Clients -> {"none", "ok", "err"}]
           /\ \A x \in Clients \ {c} : /\ pc'[x] = pc[x] /\ phase'[x] = phase[x]
                                       /\ result'[x] = result[x]
           /\ phase[c] = "probe" =>
                pc'[c] = "idle" /\ phase'[c] = "stream" /\ result'[c] = result[c]
           /\ phase[c] # "probe" =>
                pc'[c] = "done" /\ phase'[c] = phase[c] /\ result'[c] = res
  BY DEF RestTypes, Return, Goto

\* A response that was looked at is gone.
LEMMA JudgedShape ==
    ASSUME RestTypes, NEW c \in Clients, Judged(c)
    PROVE  /\ answer' \in [Clients -> Answer]
           /\ \A x \in Clients \ {c} : answer'[x] = answer[x]
           /\ answer'[c].status = "none"
  BY DEF RestTypes, Judged, NoAnswer, Answer

\* What a request learns from an answer of the server.
LEMMA AnswersShape ==
    ASSUME TypeOK, NEW c \in Clients, NEW st \in {"ok", "failed", "denied", "stale"},
           Answers(c, st)
    PROVE  /\ answer' \in [Clients -> Answer]
           /\ \A x \in Clients \ {c} : answer'[x] = answer[x]
           /\ answer'[c].scheme = Scheme(auth[c])
           /\ answer'[c].status = st
           /\ Scheme(auth[c]) = "none" <=> auth[c].schemes = <<>>
<1>1. Scheme(auth[c]) \in {"none"} \cup Schemes
      /\ (Scheme(auth[c]) = "none" <=> auth[c].schemes = <<>>)
  <2>1. auth[c].schemes \in Seq(Schemes)
    BY DEF TypeOK, Authenticator
  <2>2. auth[c].schemes # <<>> => Head(auth[c].schemes) \in Schemes
    BY <2>1
  <2> QED
    BY <2>2 DEF Scheme, Schemes
<1>2. nonce \in Nat
  BY BoundAssumption DEF TypeOK
<1> QED
  BY <1>1, <1>2 DEF TypeOK, Answer, Answers

\* Accepted is what the server accepts.
LEMMA StatusShape ==
    ASSUME NEW a
    PROVE  Status(a) \in {"ok", "denied", "stale"} /\ (Status(a) = "ok" <=> Accepts(a))
  BY DEF Status, StaleSeen

\* What becomes of a stream that was sent.
LEMMA StoresShape ==
    ASSUME RestTypes, NEW c \in Clients, NEW what \in {"cut", "partial", "whole"},
           Stores(c, what)
    PROVE  /\ stored' \in [Clients -> {"nothing", "cut", "partial", "whole"}]
           /\ body' \in [Clients -> {"whole", "partial"}]
           /\ \A x \in Clients \ {c} : body'[x] = body[x] /\ stored'[x] = stored[x]
           /\ phase[c] # "stream" => body'[c] = body[c] /\ stored'[c] = stored[c]
           /\ phase[c] = "stream" =>
                stored'[c] = IF Accepts(auth[c]) THEN what ELSE stored[c]
  BY DEF RestTypes, Stores, UsesUp

\* The same of one that came through,
LEMMA ArrivesShape ==
    ASSUME RestTypes, NEW c \in Clients, Arrives(c)
    PROVE  /\ stored' \in [Clients -> {"nothing", "cut", "partial", "whole"}]
           /\ body' \in [Clients -> {"whole", "partial"}]
           /\ \A x \in Clients \ {c} : body'[x] = body[x] /\ stored'[x] = stored[x]
           /\ phase[c] # "stream" => body'[c] = body[c] /\ stored'[c] = stored[c]
           /\ phase[c] = "stream" =>
                stored'[c] = IF Accepts(auth[c]) THEN body[c] ELSE stored[c]
<1>1. body[c] \in {"cut", "partial", "whole"} /\ Stores(c, body[c])
  BY DEF RestTypes, Arrives
<1> QED
  BY <1>1, StoresShape

\* and of one on a connection that broke.
LEMMA BreaksShape ==
    ASSUME RestTypes, NEW c \in Clients, Breaks(c)
    PROVE  /\ stored' \in [Clients -> {"nothing", "cut", "partial", "whole"}]
           /\ body' \in [Clients -> {"whole", "partial"}]
           /\ \A x \in Clients \ {c} : body'[x] = body[x] /\ stored'[x] = stored[x]
           /\ phase[c] # "stream" => body'[c] = body[c] /\ stored'[c] = stored[c]
           /\ phase[c] = "stream" => stored'[c] \in {stored[c], body[c], "cut"}
<1>1. CASE UNCHANGED <<stored, body>>
  BY <1>1 DEF RestTypes
<1>2. CASE Stores(c, "cut")
  BY <1>2, StoresShape
<1>3. CASE Arrives(c)
  BY <1>3, ArrivesShape
<1> QED
  BY <1>1, <1>2, <1>3 DEF Breaks

-----------------------------------------------------------------------------
\* The type invariant taken apart ...
LEMMA Parts == TypeOK => /\ RestTypes /\ AuthTypes
                         /\ owner # NoClient => Busy(owner)
  BY DEF TypeOK, RestTypes, AuthTypes, Busy

\* ... and put together again.
LEMMA PartsMakeType ==
    ASSUME RestTypes', AuthTypes', owner' # NoClient => Busy(owner)'
    PROVE  TypeOK'
  BY DEF TypeOK, RestTypes, AuthTypes, Busy

\* A request that returns: with its Close, its answer looked at or not there.
LEMMA EndStep ==
    ASSUME TypeOK, Authenticators, NEW c \in Clients, NEW res \in {"ok", "err"},
           CloseShim(c, auth), Judged(c), Return(c, res),
           UNCHANGED <<circumstances, nonce, crashed>>,
           body' \in [Clients -> {"whole", "partial"}],
           stored' \in [Clients -> {"nothing", "cut", "partial", "whole"}]
    PROVE  TypeOK' /\ Authenticators' /\ Monotone
<1>1. RestTypes
  BY Parts
<1>2. RestTypes' /\ ~Busy(c)' /\ \A x \in Clients \ {c} : pc'[x] = pc[x] /\ answer'[x] = answer[x]
  <2>1. pc'[c] \in {"idle", "done"}
    BY <1>1, ReturnShape DEF RestTypes
  <2> QED
    BY <1>1, <2>1, ReturnShape, JudgedShape DEF RestTypes, circumstances, Busy
<1>3. AuthTypes' /\ Authenticators' /\ Monotone
  BY <1>2, ClosingStep DEF RestTypes
<1>4. owner' # NoClient => Busy(owner)'
  BY <1>2, CloseShimShape DEF TypeOK, Busy
<1> QED
  BY <1>2, <1>3, <1>4, PartsMakeType

\* Every action of a request preserves types and Authenticators.
LEMMA RequestStep ==
    ASSUME TypeOK, Authenticators, NEW c \in Clients, Request(c)
    PROVE  TypeOK' /\ Authenticators' /\ Monotone
<1> c # NoClient /\ RestTypes
  BY ClientAssumption, Parts
<1>1. CASE Begin(c)
  <2>1. AuthTypes' /\ Authenticators' /\ Monotone
    BY <1>1, BeginStep
  <2>2. RestTypes' /\ owner' = owner /\ pc' = [pc EXCEPT ![c] = "send"]
    BY <1>1 DEF Begin, Goto, RestTypes, circumstances
  <2> QED
    BY <2>1, <2>2, Parts, PartsMakeType DEF Busy, RestTypes
<1>2. CASE AuthorizeFails(c)
  BY <1>2, EndStep DEF AuthorizeFails, Fails, RestTypes
<1>3. CASE Answered(c) \/ TurnedDown(c)
  <2>1. PICK st \in {"ok", "failed", "denied", "stale"} : Answers(c, st)
    BY <1>3, StatusShape DEF Answered, TurnedDown
  <2>2. /\ auth' = auth /\ owner' = owner /\ default' = default
        /\ pc' = [pc EXCEPT ![c] = "verify"] /\ pc[c] = "send" /\ ~NothingToTry(c)
    BY <1>3, <2>1 DEF Answered, TurnedDown, Answers, Goto, At
  <2>3. /\ body' \in [Clients -> {"whole", "partial"}]
        /\ stored' \in [Clients -> {"nothing", "cut", "partial", "whole"}]
    BY <1>3, ArrivesShape DEF Answered, TurnedDown, UsesUp, RestTypes
  <2>4. RestTypes'
    BY <2>1, <2>2, <2>3, AnswersShape DEF Answers, RestTypes, circumstances
  <2>5. Default' = Default
    BY <2>2 DEF Default
  <2>6. \A x \in Clients \ {c} : pc'[x] = pc[x] /\ answer'[x] = answer[x]
    BY <2>1, <2>2, AnswersShape DEF RestTypes
  <2>7. Authenticators'
    BY <2>1, <2>2, <2>5, <2>6, AnswersShape DEF Authenticators, NothingToTry, Busy, RestTypes
  <2> QED
    BY <2>2, <2>4, <2>5, <2>7, Parts, PartsMakeType DEF Busy, RestTypes, AuthTypes, Monotone
<1>4. CASE Breaks(c)
  BY <1>4, BreaksShape, EndStep DEF Breaks, Fails
<1>5. CASE Settled(c)
  BY <1>5, EndStep DEF Settled, Outcome, Local, RestTypes
<1>6. CASE Refused(c) \/ NegotiateFails(c) \/ RedoRefused(c)
  BY <1>6, EndStep DEF Refused, NegotiateFails, RedoRefused, Fails, Local, RestTypes
<1>7. CASE Negotiate(c)
  <2>1. AuthTypes' /\ Authenticators' /\ Monotone
    BY <1>7, NegotiateStep
  <2>2. RestTypes' /\ owner' = c /\ Busy(c)'
    BY <1>7, JudgedShape DEF Negotiate, Goto, Local, RestTypes, circumstances, Busy
  <2> QED
    BY <2>1, <2>2, Parts, PartsMakeType
<1>8. CASE TryNext(c)
  <2>1. AuthTypes' /\ Authenticators' /\ Monotone
    BY <1>8, ShiftStep, JudgedShape DEF TryNext, Goto, At
  <2>2. RestTypes' /\ owner' = owner /\ pc' = [pc EXCEPT ![c] = "redo"]
    BY <1>8, JudgedShape DEF TryNext, Goto, Local, RestTypes, circumstances
  <2> QED
    BY <2>1, <2>2, Parts, PartsMakeType DEF Busy, RestTypes
<1>9. CASE Chooses(c)
  <2>1. AuthTypes' /\ Authenticators' /\ Monotone
    BY <1>9, ShiftStep DEF Chooses, Goto, At
  <2>2. RestTypes' /\ owner' = owner /\ pc' = [pc EXCEPT ![c] = "adopt"]
    BY <1>9 DEF Chooses, Goto, Local, RestTypes, circumstances
  <2> QED
    BY <2>1, <2>2, Parts, PartsMakeType DEF Busy, RestTypes
<1>10. CASE Adopt(c)
  <2>1. AuthTypes' /\ Authenticators' /\ Monotone
    BY <1>10, AdoptStep
  <2>2. RestTypes' /\ owner' = NoClient
    BY <1>10, JudgedShape, ReturnShape DEF Adopt, Outcome, Local, RestTypes, circumstances
  <2> QED
    BY <2>1, <2>2, Parts, PartsMakeType
<1>11. CASE AdoptPanics(c)
  <2>1. RestTypes' /\ pc' = [pc EXCEPT ![c] = "panicked"]
    BY <1>11, JudgedShape DEF AdoptPanics, Goto, RestTypes, circumstances
  <2>2. ~Busy(c)' /\ \A x \in Clients \ {c} : pc'[x] = pc[x] /\ answer'[x] = answer[x]
    BY <1>11, <2>1, JudgedShape DEF AdoptPanics, Busy, RestTypes
  <2>3. AuthTypes' /\ Authenticators' /\ Monotone
    BY <1>11, <2>1, <2>2, ClosingStep DEF AdoptPanics, RestTypes
  <2>4. owner' # NoClient => Busy(owner)'
    BY <1>11, <2>2, CloseShimShape DEF AdoptPanics, TypeOK, Busy
  <2> QED
    BY <2>1, <2>3, <2>4, Parts, PartsMakeType
<1>12. CASE Redo(c)
  <2>1. /\ auth' = auth /\ owner' = owner /\ default' = default /\ answer' = answer
        /\ pc' = [pc EXCEPT ![c] = "send"] /\ pc[c] = "redo"
    BY <1>12 DEF Redo, Goto, At
  <2>2. RestTypes'
    BY <1>12, <2>1 DEF Redo, Local, RestTypes, circumstances
  <2>3. Default' = Default
    BY <2>1 DEF Default
  <2>4. Authenticators'
    BY <2>1, <2>3 DEF Authenticators, Busy, RestTypes
  <2> QED
    BY <2>1, <2>2, <2>3, <2>4, Parts, PartsMakeType DEF Busy, RestTypes, AuthTypes, Monotone
<1> QED
  BY <1>1, <1>2, <1>3, <1>4, <1>5, <1>6, <1>7, <1>8, <1>9, <1>10, <1>11, <1>12
     DEF Request

-----------------------------------------------------------------------------
\* A request leaves the other requests alone, but for their callbacks.
Apart(c) ==
    \A x \in Clients \ {c} :
        /\ pc'[x] = pc[x] /\ phase'[x] = phase[x] /\ answer'[x] = answer[x]
        /\ body'[x] = body[x] /\ stored'[x] = stored[x] /\ result'[x] = result[x]
        /\ auth'[x].kind = auth[x].kind

\* No action of a request reaches into another one, but for closing its
\* negotiator.
LEMMA OthersAlone ==
    ASSUME TypeOK, NEW c \in Clients, Request(c)
    PROVE  Apart(c) /\ UNCHANGED circumstances
<1> RestTypes
  BY Parts
<1> USE DEF Apart
<1>0. \A x \in Clients : /\ AuthsAfterSetDefault[x].kind = auth[x].kind
                         /\ AuthsAfterSetDefault \in [Clients -> Authenticator]
  BY Closing DEF AuthsAfterSetDefault, TypeOK
<1>1. CASE Begin(c)
  BY <1>1 DEF Begin, Goto, RestTypes, TypeOK
<1>2. CASE \E res \in {"ok", "err"} :
              /\ CloseShim(c, auth) /\ Judged(c) /\ Return(c, res)
              /\ UNCHANGED <<circumstances, body, stored>> \/ Breaks(c)
  <2>1. PICK res \in {"ok", "err"} :
           CloseShim(c, auth) /\ Judged(c) /\ Return(c, res)
    BY <1>2
  <2>2. (UNCHANGED <<circumstances, body, stored>>)
           \/ (Breaks(c) /\ UNCHANGED circumstances)
    BY <1>2 DEF Breaks
  <2>3. \A x \in Clients \ {c} : auth'[x] = auth[x]
    BY <2>1 DEF CloseShim, TypeOK
  <2> QED
    BY <2>1, <2>2, <2>3, ReturnShape, JudgedShape, BreaksShape
<1>3. CASE AuthorizeFails(c) \/ Settled(c) \/ Refused(c) \/ NegotiateFails(c)
             \/ RedoRefused(c) \/ Breaks(c)
  BY <1>2, <1>3 DEF AuthorizeFails, Settled, Outcome, Refused, NegotiateFails, RedoRefused,
                    Breaks, Fails, Local
<1>4. CASE Answered(c) \/ TurnedDown(c)
  <2>1. PICK st \in {"ok", "failed", "denied", "stale"} : Answers(c, st)
    BY <1>4, StatusShape DEF Answered, TurnedDown
  <2>2. \A x \in Clients \ {c} : body'[x] = body[x] /\ stored'[x] = stored[x]
    BY <1>4, ArrivesShape DEF Answered, TurnedDown, UsesUp, RestTypes
  <2> QED
    BY <2>1, <2>2, AnswersShape DEF Answers, Goto, RestTypes
<1>5. CASE Negotiate(c)
  <2> HIDE DEF RestTypes
  <2>1. auth' = [AuthsAfterSetDefault EXCEPT ![c] = Negotiated(c)]
    BY <1>5 DEF Negotiate
  <2>2. \A x \in Clients \ {c} : auth'[x].kind = auth[x].kind
    BY <1>0, <2>1
  <2> QED
    BY <1>5, <2>2, JudgedShape DEF Negotiate, Goto, Local, RestTypes
<1>6. CASE TryNext(c) \/ Chooses(c)
  <2>1. \A x \in Clients \ {c} : auth'[x] = auth[x]
    BY <1>6 DEF TryNext, Chooses, TypeOK
  <2> QED
    BY <1>6, <2>1, JudgedShape DEF TryNext, Chooses, Goto, Local, RestTypes
<1>7. CASE Adopt(c)
  <2>1. \A x \in Clients \ {c} : auth'[x].kind = auth[x].kind
    BY <1>0, <1>7 DEF Adopt
  <2> QED
    BY <1>7, <2>1, JudgedShape, ReturnShape DEF Adopt, Outcome, Local
<1>8. CASE AdoptPanics(c)
  <2>1. \A x \in Clients \ {c} : auth'[x] = auth[x]
    BY <1>8 DEF AdoptPanics, CloseShim, TypeOK
  <2> QED
    BY <1>8, <2>1, JudgedShape DEF AdoptPanics, Goto, RestTypes
<1>9. CASE Redo(c)
  BY <1>9 DEF Redo, Goto, Local, RestTypes
<1> QED
  BY <1>1, <1>3, <1>4, <1>5, <1>6, <1>7, <1>8, <1>9 DEF Request

\* An action of an uploading request keeps what Streams says of it.
LEMMA OwnStreamStep ==
    ASSUME TypeOK, NEW c \in Uploaders, OwnStream(c), Request(c)
    PROVE  OwnStream(c)'
<1> RestTypes /\ c \in Clients
  BY Parts, ClientAssumption
<1> USE DEF OwnStream, Ok
<1>1. CASE Begin(c) \/ Redo(c)
  BY <1>1 DEF Begin, Redo, Goto, At, Local, RestTypes
<1>2. CASE Answered(c) \/ TurnedDown(c)
  <2>1. PICK st \in {"ok", "failed", "denied", "stale"} :
          /\ Answers(c, st) /\ pc[c] = "send"
          /\ \/ Arrives(c) /\ (st = "ok" => Accepts(auth[c]))
             \/ st = "failed" /\ UsesUp(c) /\ UNCHANGED stored
    BY <1>2, StatusShape DEF Answered, TurnedDown, At
  <2>2. pc'[c] = "verify" /\ UNCHANGED <<phase, result>> /\ answer'[c].status = st
    BY <2>1, AnswersShape DEF Answers, Goto, RestTypes
  <2>3. phase[c] = "probe" => body'[c] = body[c] /\ stored'[c] = stored[c]
    BY <2>1, ArrivesShape DEF UsesUp
  <2>4. /\ stored'[c] \in {"nothing", "whole"}
        /\ phase[c] = "stream" /\ st = "ok" => stored'[c] = "whole"
    BY <2>1, ArrivesShape DEF RestTypes
  <2> QED
    BY <2>1, <2>2, <2>3, <2>4 DEF RestTypes
<1>3. CASE AuthorizeFails(c) \/ Refused(c) \/ NegotiateFails(c) \/ RedoRefused(c)
  <2>1. Return(c, "err") /\ UNCHANGED <<body, stored>> /\ Busy(c)
    BY <1>3 DEF AuthorizeFails, Refused, NegotiateFails, RedoRefused, Fails, Local, At, Busy
  <2> QED
    BY <2>1, ReturnShape DEF Busy, RestTypes
<1>4. CASE Breaks(c)
  <2>1. Return(c, "err") /\ pc[c] = "send"
    BY <1>4 DEF Breaks, Fails, At
  <2> QED
    BY <1>4, <2>1, ReturnShape, BreaksShape DEF RestTypes
<1>5. CASE Settled(c) \/ Adopt(c)
  <2>1. /\ Return(c, Outcome(c)) /\ UNCHANGED <<body, stored>>
        /\ pc[c] \in {"verify", "adopt"}
    BY <1>5 DEF Settled, Adopt, Local, At
  <2> QED
    BY <2>1, ReturnShape DEF Outcome, RestTypes
<1>6. CASE Negotiate(c) \/ TryNext(c) \/ Chooses(c)
  <2>1. /\ pc[c] = "verify" /\ UNCHANGED <<phase, body, stored, result>>
        /\ \/ pc' = [pc EXCEPT ![c] = "redo"]
           \/ answer' = answer /\ pc' = [pc EXCEPT ![c] = "adopt"]
    BY <1>6 DEF Negotiate, TryNext, Chooses, Goto, At, Local
  <2> QED
    BY <2>1 DEF RestTypes
<1>7. CASE AdoptPanics(c)
  BY <1>7 DEF AdoptPanics, Goto, At, RestTypes
<1> QED
  BY <1>1, <1>2, <1>3, <1>4, <1>5, <1>6, <1>7 DEF Request

\* Every step preserves Streams: of the uploading requests and of the others.
LEMMA StreamsStep ==
    ASSUME TypeOK, Streams, NEW c \in Clients, Request(c)
    PROVE  Streams'
<1>1. Streams <=> \A x \in Uploaders : OwnStream(x)
  BY DEF Streams
<1>2. (\A x \in Uploaders : OwnStream(x)') => Streams'
  BY DEF Streams
<1> SUFFICES ASSUME NEW x \in Uploaders PROVE OwnStream(x)'
  BY <1>2
<1>3. CASE x = c
  BY <1>1, <1>3, OwnStreamStep
<1>4. CASE x # c
  <2>1. x \in Clients \ {c}
    BY <1>4, ClientAssumption
  <2> QED
    BY <1>1, <2>1, OthersAlone DEF OwnStream, Ok, Apart
<1> QED
  BY <1>3, <1>4

-----------------------------------------------------------------------------
\* The initial authenticator is accepted only where nothing is asked for.
LEMMA NullAccepted ==
    ASSUME TypeOK, Authenticators, NEW c \in Clients, auth[c].kind = "null",
           Accepts(auth[c])
    PROVE  server.offers = <<>>
<1>1. Scheme(auth[c]) = "none"
  BY DEF Authenticators, Scheme
<1>2. "none" \notin server.accepts
  BY ServerAssumption DEF TypeOK, Server, Offered, Schemes
<1> QED
  BY <1>1, <1>2 DEF Accepts

\* An action of a request keeps what Quiet says of it.
LEMMA OwnQuietStep ==
    ASSUME TypeOK, Authenticators, NEW c \in Clients, "network" \notin faults, OwnQuiet(c),
           c \in Uploaders => OwnStream(c), Request(c)
    PROVE  OwnQuiet(c)'
<1>0. /\ RestTypes /\ Monotone /\ server' = server
      /\ phase[c] = "stream" => OwnStream(c)
  BY Parts, RequestStep, OthersAlone DEF circumstances, RestTypes
<1> USE <1>0
<1>1. CASE Begin(c)
  <2>1. /\ auth'[c] = Default /\ Default' = Default /\ pc'[c] = "send"
        /\ pc[c] = "idle" /\ phase' = phase /\ result' = result /\ stored' = stored
    BY <1>1, ClientAssumption DEF Begin, Goto, At, TypeOK, Default
  <2> QED
    BY <2>1 DEF OwnQuiet, OwnStream, Busy
<1>2. CASE Answered(c) \/ TurnedDown(c)
  <2>1. PICK st \in {"ok", "failed", "denied", "stale"} :
          /\ Answers(c, st) /\ pc[c] = "send"
          /\ \/ Arrives(c) /\ st # "failed" /\ (st = "ok" <=> Accepts(auth[c]))
             \/ st = "failed" /\ UNCHANGED stored
    BY <1>2, StatusShape DEF Answered, TurnedDown, At
  <2>2. /\ pc'[c] = "verify" /\ answer'[c].status = st
        /\ phase' = phase /\ result' = result /\ auth' = auth /\ Default' = Default
    BY <2>1, AnswersShape DEF Answers, Goto, RestTypes, Default
  <2>3. ~Accepts(auth[c]) => server.offers # <<>>
    BY DEF Accepts
  <2>4. phase[c] = "stream" => stored[c] = "nothing" /\ result[c] = "none"
    BY <2>1 DEF OwnStream
  <2>5. phase[c] = "stream" /\ st # "ok" => stored'[c] = "nothing"
    BY <2>1, <2>4, ArrivesShape
  <2>6. phase[c] = "stream" /\ auth[c].kind = "null" => server.offers # <<>> /\ ~Accepts(auth[c])
    BY <2>1, NullAccepted DEF OwnQuiet, Busy
  <2> QED
    BY <2>1, <2>2, <2>3, <2>4, <2>5, <2>6 DEF OwnQuiet, Ok, Unchallenged, Denied, Busy
<1>3. CASE AuthorizeFails(c) \/ Refused(c) \/ NegotiateFails(c) \/ RedoRefused(c)
  <2>1. /\ Return(c, "err") /\ UNCHANGED <<body, stored>> /\ Busy(c)
        /\ \/ auth[c].kind # "null" /\ (pc[c] = "send" \/ (pc[c] = "verify" /\ Denied(c)))
           \/ pc[c] = "verify" /\ Denied(c)
           \/ pc[c] = "redo" /\ phase[c] = "stream"
    BY <1>3 DEF AuthorizeFails, Refused, NegotiateFails, RedoRefused, Fails, Local, At, Busy,
                NothingToTry, Kind
  <2>2. phase[c] = "stream" => stored[c] = "nothing"
    BY <2>1 DEF OwnQuiet, OwnStream, Ok, Denied
  <2>3. phase[c] = "probe" /\ Default'.kind = "null" => server.offers # <<>>
    BY <2>1 DEF OwnQuiet, Authenticators, Monotone, Unchallenged, Denied
  <2>4. pc'[c] \in {"idle", "done"} /\ (phase[c] = "probe" => result'[c] = result[c])
        /\ (phase'[c] = "stream" => phase[c] \in {"probe", "stream"})
    BY <2>1, ReturnShape DEF RestTypes
  <2>5. phase[c] = "probe" => result[c] = "none"
    BY DEF OwnStream, RestTypes
  <2> QED
    BY <2>2, <2>3, <2>4, <2>5, <2>1 DEF OwnQuiet, Busy, Monotone
<1>4. CASE Breaks(c)
  BY <1>4 DEF Breaks
<1>5. CASE Settled(c) \/ Adopt(c)
  <2>1. /\ Return(c, Outcome(c)) /\ UNCHANGED stored /\ Busy(c) /\ auth[c].kind # "null"
        /\ pc[c] \in {"verify", "adopt"}
    BY <1>5 DEF Settled, Adopt, Local, At, Busy, Kind, Authenticators
  <2>2. Default'.kind # "null"
    BY <2>1 DEF Authenticators, Monotone
  <2>3. /\ pc'[c] \in {"idle", "done"}
        /\ phase[c] = "probe" => result'[c] = result[c]
        /\ phase[c] # "probe" => phase'[c] = phase[c] /\ result'[c] = Outcome(c)
    BY <2>1, ReturnShape DEF Outcome, RestTypes
  <2>4. phase[c] = "probe" => result[c] = "none"
    BY DEF OwnStream, RestTypes
  <2>5. phase[c] = "stream" /\ ~Ok(c) => stored'[c] = "nothing"
    BY <2>1 DEF OwnQuiet
  <2> QED
    BY <2>2, <2>3, <2>4, <2>5 DEF OwnQuiet, Outcome, Busy
<1>6. CASE Negotiate(c)
  <2>1. /\ pc[c] = "verify" /\ pc'[c] = "redo" /\ UNCHANGED <<phase, stored, result>>
        /\ auth[c].kind = "null" \/ ~Ok(c)
        /\ auth'[c] = Negotiated(c)
    BY <1>6, Closing DEF Negotiate, At, Goto, Local, Changed, Kind, Stale, Ok, Denied, RestTypes,
                         AuthsAfterSetDefault, TypeOK
  <2>2. auth'[c].kind # "null"
    BY <2>1, NegotiatedShape
  <2>3. phase[c] = "stream" => stored[c] = "nothing"
    BY <2>1 DEF OwnQuiet, Busy
  <2> QED
    BY <2>1, <2>2, <2>3 DEF OwnQuiet, Monotone
<1>7. CASE TryNext(c) \/ Chooses(c)
  <2>1. /\ pc[c] = "verify" /\ UNCHANGED <<phase, stored, result>>
        /\ auth[c].kind = "nego" /\ auth'[c].kind = "nego"
        /\ \/ pc'[c] = "redo" /\ ~Ok(c)
           \/ pc'[c] = "adopt" /\ answer' = answer
    BY <1>7 DEF Ok, Denied, TryNext, Chooses, At, Goto, Local, Kind, RestTypes, TypeOK, Authenticator
  <2> QED
    BY <2>1 DEF OwnQuiet, Monotone, Ok, Busy
<1>8. CASE AdoptPanics(c)
  <2>1. /\ pc[c] = "adopt" /\ pc'[c] = "panicked" /\ UNCHANGED <<phase, stored, result>>
    BY <1>8 DEF AdoptPanics, At, Goto, RestTypes
  <2> QED
    BY <2>1 DEF OwnQuiet, Monotone, Busy
<1>9. CASE Redo(c)
  <2>1. /\ pc[c] = "redo" /\ pc'[c] = "send" /\ phase[c] # "stream"
        /\ UNCHANGED <<phase, auth, stored, result>>
    BY <1>9 DEF Redo, At, Goto, Local, RestTypes
  <2> QED
    BY <2>1 DEF OwnQuiet
<1> QED
  BY <1>1, <1>2, <1>3, <1>4, <1>5, <1>6, <1>7, <1>8, <1>9 DEF Request

\* Every step preserves Quiet; a default never becomes the initial one again.
LEMMA QuietStep ==
    ASSUME TypeOK, Authenticators, Streams, Quiet, NEW c \in Clients, Request(c)
    PROVE  Quiet'
<1>1. Monotone /\ faults' = faults /\ server' = server /\ Apart(c)
  BY RequestStep, OthersAlone DEF circumstances
<1>2. "network" \notin faults => \A x \in Clients : OwnQuiet(x)
  BY DEF Quiet
<1>3. ("network" \notin faults' => \A x \in Clients : OwnQuiet(x)') => Quiet'
  BY DEF Quiet
<1> SUFFICES ASSUME "network" \notin faults, NEW x \in Clients PROVE OwnQuiet(x)'
  BY <1>1, <1>3
<1>4. CASE x = c
  <2>1. c \in Uploaders => OwnStream(c)
    BY DEF Streams
  <2> QED
    BY <1>2, <1>4, <2>1, OwnQuietStep
<1>5. CASE x # c
  BY <1>1, <1>2, <1>5 DEF OwnQuiet, Apart, Monotone, Busy, Ok, Unchallenged, Denied
<1> QED
  BY <1>4, <1>5

-----------------------------------------------------------------------------
\* The invariant holds of a new client.
LEMMA InitDInv == Init => DInv
<1> SUFFICES ASSUME Init PROVE DInv
  OBVIOUS
<1>1. <<>> \in Seq(Schemes) /\ 1 \in 1..MaxNonce
  BY BoundAssumption
<1>2. Null \in Authenticator /\ Null.kind = "null" /\ Null.schemes = <<>>
  BY <1>1 DEF Null, Auth, Authenticator
<1>3. NoAnswer \in Answer
  BY DEF NoAnswer, Answer
<1>4. TypeOK
  BY <1>1, <1>2, <1>3, ClientAssumption DEF Init, TypeOK
<1>5. Authenticators /\ Streams /\ Quiet
  BY <1>2, ClientAssumption DEF Init, Authenticators, Streams, OwnStream, Quiet, OwnQuiet, Busy, Default
<1> QED
  BY <1>4, <1>5 DEF DInv

\* Every step preserves the invariant.
LEMMA DInvStep == DInv /\ [Next]_vars => DInv'
<1> SUFFICES ASSUME DInv, [Next]_vars PROVE DInv'
  OBVIOUS
<1>1. CASE \E c \in Clients : Request(c)
  BY <1>1, RequestStep, StreamsStep, QuietStep DEF DInv
<1>2. CASE Expires
  <2>1. /\ nonce' \in 1..MaxNonce
        /\ UNCHANGED <<circumstances, owner, default, auth, requests, crashed>>
    BY <1>2, BoundAssumption DEF Expires, DInv, TypeOK
  <2>2. TypeOK' /\ Default' = Default
    BY <2>1 DEF DInv, TypeOK, circumstances, requests, Default
  <2> QED
    BY <2>1, <2>2 DEF DInv, Authenticators, Streams, OwnStream, Quiet, OwnQuiet, Busy, Ok, Unchallenged, Denied,
                      circumstances, requests
<1>3. CASE UNCHANGED vars
  <2>1. TypeOK' /\ Default' = Default
    BY <1>3 DEF DInv, TypeOK, vars, circumstances, requests, Default
  <2> QED
    BY <1>3, <2>1 DEF DInv, Authenticators, Streams, OwnStream, Quiet, OwnQuiet, Busy, Ok, Unchallenged, Denied,
                      vars, circumstances, requests
<1> QED
  BY <1>1, <1>2, <1>3 DEF Next

\* The strengthened invariant of the authentication.
THEOREM AuthInductive == Spec => []DInv
  BY InitDInv, DInvStep, PTL DEF Spec

\* Every variable stays in its type, and only a request that is under way
\* shares its authenticator as the default.
THEOREM AuthTypeCorrect == Spec => []TypeOK
<1>1. DInv => TypeOK
  BY DEF DInv
<1> QED
  BY AuthInductive, <1>1, PTL

\* However many requests overlap, whatever breaks or expires: success means that
\* the server keeps the whole stream, and a stream is never sent a second time.
THEOREM StreamsAreWhole == Spec => []WholeOrNothing
<1>1. DInv => WholeOrNothing
  BY ClientAssumption DEF DInv, Streams, OwnStream, WholeOrNothing
<1> QED
  BY AuthInductive, <1>1, PTL

\* Unless connections break, an upload that failed has left nothing, whatever
\* expires, overlaps or is turned down.
THEOREM FailuresLeaveNothing == Spec => []FailedLeavesNothing
<1>1. DInv => FailedLeavesNothing
  BY ClientAssumption DEF DInv, TypeOK, Streams, OwnStream, Quiet, OwnQuiet, FailedLeavesNothing
<1> QED
  BY AuthInductive, <1>1, PTL
=============================================================================
