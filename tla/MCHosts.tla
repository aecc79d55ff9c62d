------------------------------- MODULE MCHosts -------------------------------
(***************************************************************************)
(* Instances of Hosts for TLC.                                             *)
(***************************************************************************)
EXTENDS HostsProperties

Own == "mobile"

Document(namespace, version, flags) ==
  [namespace |-> namespace, version |-> version, flags |-> flags]

MCDocuments == {Document(Own, 1, {"f"}), Document(Own, 2, {"f", "g"}),
                Document("web", 3, {"f"})}

MCSeeds == {Text(Some(Document(Own, 1, {"g"}))), Text(Some(Document("web", 3, {"f"}))),
            Text(None)}

Property(name, kind, text) == [property |-> name, kind |-> kind, text |-> text]

Request(key, context) == [flag_key |-> key, context |-> context]

MCRequests ==
  {<<Request("f", Some({Property("tier", "string", "1")}))>>,
   <<Request("f", Some({Property("tier", "number", "1"), Property("age", "null", "null")}))>>,
   <<Request("g", None)>>,
   <<Request("f", Some({})), Request("g", Some({Property("tier", "string", "2")}))>>}

Jwt(token) == [kind |-> "jwt_token", token |-> token]

Lease(token, ticks, retries) ==
  [strategy |-> Jwt(token), expiresAt |-> ticks, maxRetries |-> retries]

MCLeases ==
  {Lease("a", Some(8), Some(2)), Lease("b", Some(3), Some(0)), Lease("c", None, None),
   Lease(NotHeaderText, Some(8), Some(2))}

Configured ==
  [DefaultOpts EXCEPT !.namespace = Some(Own), !.url = Some("https://flipt"),
                      !.request_timeout = Some(0)]

Identities ==
  {NoTls,
   [NoTls EXCEPT !.client_cert_data = Some("pem"), !.client_key_data = Some("pem")],
   [NoTls EXCEPT !.client_cert_data = Some("pem")],
   [NoTls EXCEPT !.client_cert_file = Some("pem"), !.client_key_file = Some("pem")],
   [NoTls EXCEPT !.client_cert_file = Some("unreadable"), !.client_key_data = Some("pem")]}

TlsChoices ==
  {[identity EXCEPT !.ca_cert_file = file, !.ca_cert_data = data,
                    !.insecure_skip_hostname_verify = hostname] :
     identity \in Identities, file \in {None, Some("pem"), Some("unreadable")},
     data \in {None, Some("junk")}, hostname \in {None, Some(TRUE)}}
  \cup {[identity EXCEPT !.ca_cert_file = Some("unreadable"),
                         !.insecure_skip_verify = Some(TRUE)] : identity \in Identities}

MCOptionTexts ==
  {Some(Text(None))}
  \cup {Some(Text(Some([Configured EXCEPT
            !.url = None, !.tls_config = Some([NoTls EXCEPT !.ca_cert_file = Some(file)])]))) :
          file \in {"pem", "unreadable"}}
  \cup {Some(Text(Some([Configured EXCEPT !.tls_config = Some(t)]))) : t \in TlsChoices}
  \cup {Some(Text(Some([Configured EXCEPT !.snapshot = Some(s), !.error_strategy = Some(e)]))) :
          s \in MCSeeds, e \in {"fail", "fallback"}}
  \cup {Some(Text(Some([Configured EXCEPT
            !.authentication = Some(l.strategy), !.request_timeout = Some(5),
            !.fetch_mode = Some("streaming")]))) : l \in MCLeases}
=============================================================================
