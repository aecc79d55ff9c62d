----------------------------- MODULE EngineStart -----------------------------
(***************************************************************************)
(* How an engine of the C interface starts: initialize_engine reads the    *)
(* options, builds the HTTP client with its TLS settings and the fetcher,  *)
(* and decodes the seed snapshot.                                          *)
(*                                                                         *)
(* An Option of the code is a sequence of at most one element, and so is a *)
(* Result whose error nobody looks at.  A text passed by pointer is        *)
(* [utf8, json]: whether its bytes are UTF-8, and what it parses to.  The  *)
(* content of a certificate is "pem" or "junk"; a file may also be         *)
(* "unreadable".                                                           *)
(***************************************************************************)
EXTENDS Naturals, Sequences

None == <<>>
Some(x) == <<x>>
OrElse(option, default) == IF option = None THEN default ELSE option[1]

Text(json) == [utf8 |-> TRUE, json |-> json]

-----------------------------------------------------------------------------
(* tls.rs *)

NoTls ==
  [ca_cert_file |-> None, ca_cert_data |-> None,
   insecure_skip_verify |-> None, insecure_skip_hostname_verify |-> None,
   client_cert_file |-> None, client_key_file |-> None,
   client_cert_data |-> None, client_key_data |-> None]

ReadFiles(files) == IF "unreadable" \in files THEN {"failed"} ELSE files

(* The bytes to be parsed, or {"failed"}; none when nothing is configured. *)
LoadCaCertificateData(tls) ==
  IF tls.ca_cert_data # None THEN {tls.ca_cert_data[1]}
  ELSE IF tls.ca_cert_file # None THEN ReadFiles({tls.ca_cert_file[1]})
  ELSE {}

LoadClientCertificateData(tls) ==
  IF tls.client_cert_data # None /\ tls.client_key_data # None
    THEN {tls.client_cert_data[1], tls.client_key_data[1]}
  ELSE IF tls.client_cert_file # None /\ tls.client_key_file # None
    THEN ReadFiles({tls.client_cert_file[1], tls.client_key_file[1]})
  ELSE {}

(* What the HTTP client checks of the server and shows of itself. *)
PlainClient ==
  [chain |-> TRUE, hostname |-> TRUE, customCa |-> FALSE, identity |-> FALSE]

(* Mutant: the CA is read only after the check of host names is settled,
   and no longer when that check is to be skipped. *)
ConfigureTlsLosesCa(tls) ==
  LET ca == LoadCaCertificateData(tls)
      client == LoadClientCertificateData(tls)
      hostname == ~OrElse(tls.insecure_skip_hostname_verify, FALSE)
  IN IF OrElse(tls.insecure_skip_verify, FALSE)
     THEN Some([PlainClient EXCEPT !.chain = FALSE, !.hostname = FALSE])
     ELSE IF ca \cup client \subseteq {"pem"}
     THEN Some([PlainClient EXCEPT !.customCa = hostname /\ ca # {},
                                   !.hostname = hostname,
                                   !.identity = client # {}])
     ELSE None

(* Skipping the verification returns before anything else is looked at. *)
ConfigureTls(tls) ==
  LET ca == LoadCaCertificateData(tls)
      client == LoadClientCertificateData(tls)
  IN IF OrElse(tls.insecure_skip_verify, FALSE)
     THEN Some([PlainClient EXCEPT !.chain = FALSE, !.hostname = FALSE])
     ELSE IF ca \cup client \subseteq {"pem"}
     THEN Some([PlainClient EXCEPT
                  !.customCa = ca # {},
                  !.hostname = ~OrElse(tls.insecure_skip_hostname_verify, FALSE),
                  !.identity = client # {}])
     ELSE None

-----------------------------------------------------------------------------
(* http.rs: the credential and the builder of the fetcher *)

NoAuthentication == [kind |-> "none", token |-> ""]

Authenticate(auth) ==
  CASE auth.kind = "client_token" -> Some(<<"Bearer", auth.token>>)
    [] auth.kind = "jwt_token"    -> Some(<<"JWT", auth.token>>)
    [] auth.kind = "none"         -> None

(* HeaderValue::from_str(..).unwrap() *)
NotHeaderText == "control characters"
HeaderPanics(auth) == auth.kind # "none" /\ auth.token = NotHeaderText

DefaultUrl == "http://localhost:8080"

NewBuilder(url) ==
  [base_url |-> url, environment |-> None, namespace |-> None,
   authentication |-> None, reference |-> None, request_timeout |-> None,
   update_interval |-> 120, mode |-> "polling", tls_config |-> None]

(* A duration of 0 is as good as none. *)
Positive(seconds) == SelectSeq(seconds, LAMBDA n : n > 0)

Build(builder) ==
  LET client == IF builder.tls_config = None
                THEN Some(PlainClient)
                ELSE ConfigureTls(builder.tls_config[1])
  IN IF client = None THEN None
     ELSE Some([url |-> builder.base_url,
                environment |-> OrElse(builder.environment, "default"),
                namespace |-> OrElse(builder.namespace, "default"),
                authorization |-> builder.authentication,
                reference |-> builder.reference,
                timeout |-> IF builder.mode = "polling"
                            THEN builder.request_timeout ELSE None,
                interval |-> builder.update_interval,
                mode |-> builder.mode,
                client |-> client[1]])

-----------------------------------------------------------------------------
(* lib.rs: initialize_engine *)

DefaultOpts ==
  [environment |-> Some("default"), namespace |-> Some("default"),
   url |-> Some(DefaultUrl), authentication |-> None,
   request_timeout |-> None, update_interval |-> Some(120),
   fetch_mode |-> Some("polling"), reference |-> None,
   error_strategy |-> Some("fail"), snapshot |-> None, tls_config |-> None]

EmptySnapshot(namespace) ==
  [namespace |-> namespace, version |-> 0, flags |-> {}]

DefaultSnapshot == EmptySnapshot("default")

ConfiguredBuilder(opts) ==
  [NewBuilder(OrElse(opts.url, DefaultUrl)) EXCEPT
     !.environment = opts.environment,
     !.namespace = Some(OrElse(opts.namespace, "default")),
     !.authentication = Authenticate(OrElse(opts.authentication, NoAuthentication)),
     !.reference = opts.reference,
     !.request_timeout = Positive(opts.request_timeout),
     !.update_interval = OrElse(Positive(opts.update_interval), 120),
     !.mode = OrElse(opts.fetch_mode, "polling"),
     !.tls_config = opts.tls_config]

(* The engine before its first fetch; None when the caller gets a null
   pointer.  A text that is not the JSON of options counts as no options, a
   client that cannot be built is replaced by the default one, a seed that
   cannot be decoded by the default snapshot. *)
InitializeEngine(pointer) ==
  IF pointer = None \/ ~pointer[1].utf8 THEN None
  ELSE LET opts == OrElse(pointer[1].json, DefaultOpts)
           namespace == OrElse(opts.namespace, "default")
           fetcher == Build(ConfiguredBuilder(opts))
           seed == IF opts.snapshot = None THEN None ELSE opts.snapshot[1].json
       IN IF HeaderPanics(OrElse(opts.authentication, NoAuthentication))
          THEN None
          ELSE Some([namespace |-> namespace,
                     store |-> OrElse(seed, DefaultSnapshot),
                     error |-> FALSE,
                     strategy |-> OrElse(opts.error_strategy, "fail"),
                     fetcher |-> OrElse(fetcher, Build(NewBuilder(DefaultUrl))[1])])
=============================================================================
