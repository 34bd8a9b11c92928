------------------------------- MODULE Destination -----------------------------
(***************************************************************************)
(* newDestination (pkg/southbound/destination.go) and the checks Connect   *)
(* makes before it: how a target object of the topology becomes the        *)
(* timeout and the transport credentials Connect dials with.               *)
(*                                                                         *)
(* A file that an option names is "good" (it can be loaded) or "bad"; an   *)
(* option that is the empty string is "none".  The address is copied from  *)
(* the endpoint and left out.                                              *)
(***************************************************************************)
CONSTANT NoAspect     \* the entity does not have the aspect

File == {"none", "good", "bad"}

\* topoapi.TLSOptions.
TLSOptions == [plain : BOOLEAN, insecure : BOOLEAN, ca : File, cert : File, key : File]

\* topoapi.P4RTServerInfo: whether it gives a timeout.
ServerInfo == [timeout : {"default", "given"}]

\* What Connect may be called with.
TargetObjects ==
  [type : {"entity", "relation"}, kind : {"none", "given"},
   server : ServerInfo \cup {NoAspect}, tls : TLSOptions \cup {NoAspect}]

-----------------------------------------------------------------------------

Fails(why) == [error |-> why]

\* The credentials of a TLS configuration, or those of no TLS at all.
Plaintext == [error |-> "none", tls |-> FALSE]
TLS(verify, roots, certs) ==
  [error |-> "none", tls |-> TRUE, verify |-> verify, roots |-> roots, certs |-> certs]

BothGiven(o)   == o.cert # "none" /\ o.key # "none"
NeitherGiven(o) == o.cert = "none" /\ o.key = "none"

\* Where the root and the client certificates come from.
Source(file) == IF file = "none" THEN "default" ELSE "given"

\* (mutant) Half a key pair is replaced by the default one.
CredentialsDefaulted(o) ==
  CASE o.plain -> Plaintext
    [] ~ o.plain /\ o.ca = "bad" -> Fails("ca")
    [] OTHER -> IF BothGiven(o)
                THEN IF "bad" \in {o.cert, o.key} THEN Fails("pair")
                     ELSE TLS(~ o.insecure, Source(o.ca), "given")
                ELSE TLS(~ o.insecure, Source(o.ca), "default")

\* (mutant) The key is not looked at when the certificate can be read.
CredentialsOfCert(o) ==
  CASE o.plain -> Plaintext
    [] ~ o.plain /\ o.ca = "bad" -> Fails("ca")
    [] OTHER ->
         CASE NeitherGiven(o) -> TLS(~ o.insecure, Source(o.ca), "default")
           [] BothGiven(o)    -> IF o.cert = "bad" THEN Fails("pair")
                                 ELSE TLS(~ o.insecure, Source(o.ca), "given")
           [] OTHER           -> TLS(FALSE, "none", "none")

\* The branches on the TLS options: a file that cannot be loaded is an error; of
\* a key pair of which only one half is given nothing is used, nor of the CA.
Credentials(o) ==
  CASE o.plain -> Plaintext
    [] ~ o.plain /\ o.ca = "bad" -> Fails("ca")
    [] OTHER ->
         CASE NeitherGiven(o) -> TLS(~ o.insecure, Source(o.ca), "default")
           [] BothGiven(o)    -> IF "bad" \in {o.cert, o.key} THEN Fails("pair")
                                 ELSE TLS(~ o.insecure, Source(o.ca), "given")
           [] OTHER           -> TLS(FALSE, "none", "none")

\* newDestination: both aspects are needed; the timeout has a default.
NewDestination(t) ==
  IF NoAspect \in {t.server, t.tls} THEN Fails("aspect")
  ELSE [credentials |-> Credentials(t.tls), timeout |-> t.server.timeout,
        error |-> Credentials(t.tls).error]

\* Connect, from the check of the type to the destination it dials.
Dialled(t) ==
  CASE t.type # "entity"                   -> Fails("type")
    [] t.type = "entity" /\ t.kind = "none" -> Fails("kind")
    [] OTHER                               -> NewDestination(t)
=============================================================================
