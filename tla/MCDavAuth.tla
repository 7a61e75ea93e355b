------------------------------ MODULE MCDavAuth ------------------------------
(* Instances of DavAuth for TLC: the servers. *)
EXTENDS DavAuth

NoneAsked == [offers |-> <<>>, accepts |-> {}]
OneScheme(s) == [offers |-> <<s>>, accepts |-> {s}]
WrongPassword == [offers |-> <<"basic">>, accepts |-> {}]
UnknownScheme == [offers |-> <<"negotiate">>, accepts |-> {"negotiate"}]
Both == [offers |-> <<"basic", "digest">>, accepts |-> {"basic", "digest"}]
DigestFirst == [offers |-> <<"digest", "basic">>, accepts |-> {"digest"}]
DigestLast == [offers |-> <<"basic", "digest">>, accepts |-> {"digest"}]

AllServers == {NoneAsked, OneScheme("basic"), OneScheme("digest"), WrongPassword,
               UnknownScheme, Both, DigestFirst, DigestLast}
TwoSchemes == {Both}
=============================================================================
