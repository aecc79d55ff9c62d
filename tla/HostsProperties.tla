-------------------------- MODULE HostsProperties --------------------------
(***************************************************************************)
(* What the clients promise, whichever engine is behind them.              *)
(***************************************************************************)
EXTENDS Hosts

(* Types; in particular no panic of an engine reaches its host, the engine
   never takes back more texts than it gave out, and owes few. *)
TypeOK ==
  /\ phase \in {"new", "started", "seeded", "open", "unattended", "failed", "crashed",
                "closed"}
  /\ Len(engine) <= 1 /\ Len(call) <= 1
  /\ call # None => /\ call[1].stage \in {"called", "written", "freed"}
                    /\ call[1].response.status \in {"success", "failure"}
  /\ updated # None => updated[1].status \in {"success", "failure"}
  /\ blocks \in 0..6
  /\ renewer \in {"off", "waiting", "fetching", "updating", "reading", "stopped"}
  /\ closer \in {"no", "awaiting", "done"}
  /\ failures \in Nat /\ late \in 0..ExpiryBuffer + 1
  /\ refusing \in BOOLEAN /\ freeFailed \in BOOLEAN

(* The three engines and their hosts agree: a call is answered from the last
   document or seed the engine was given for its namespace, with the context
   as it was sent, and what an engine refuses (a seed of another namespace, a
   payload that is no document) changes no answer. *)
HostsAgree ==
  outcome # None /\ outcome[1].promised # None =>
    outcome[1].response = outcome[1].promised[1]

(* Between calls an engine holds no text for its host but the two of
   NewClient, whichever step of the calls before has failed, unless taking
   one back is what failed. *)
NothingLeaks ==
  /\ call = None /\ updated = None /\ ~freeFailed
  /\ phase \in {"started", "seeded", "open", "unattended"}
  => blocks = Kept

(* The renewal of a lease never uses an engine that close() has destroyed,
   unless close() was interrupted while it waited for the renewal. *)
EngineAliveWhenUsed ==
  renewer = "updating" /\ ~interrupted => phase = "open"

(* A credential lapses only if the provider, or the retries after it failed,
   took the thirty seconds a renewal has (or all but the first five of a
   shorter lease); and a bounded lease with retries is given up only after
   that many failures in a row, or because the client is closed. *)
LeaseKeptFresh ==
  /\ renewer \in {"waiting", "fetching"} /\ expiry = Some(0) =>
       late >= (IF granted > ExpiryBuffer THEN ExpiryBuffer ELSE granted - 1)
  /\ renewer = "stopped" /\ expiry # None /\ maxRetries > 0 =>
       closed \/ failures = maxRetries

(* An engine asks the server it was configured for, about its namespace, with
   the checks and the identity it was configured with, unless a certificate
   among its options is spoiled.  Then it may ask the default server instead,
   about the default namespace, whatever its own is. *)
Spoiled(tls) ==
  \E c \in {tls.ca_cert_data, tls.ca_cert_file, tls.client_cert_data,
            tls.client_key_data, tls.client_cert_file, tls.client_key_file} :
    c # None /\ c # Some("pem")

TlsAsConfigured(client, tls) ==
  IF OrElse(tls.insecure_skip_verify, FALSE) THEN ~client.chain
  ELSE /\ client.chain
       /\ client.hostname = ~OrElse(tls.insecure_skip_hostname_verify, FALSE)
       /\ client.customCa = (tls.ca_cert_data # None \/ tls.ca_cert_file # None)
       /\ client.identity =
            \/ tls.client_cert_data # None /\ tls.client_key_data # None
            \/ tls.client_cert_file # None /\ tls.client_key_file # None

StartedAsConfigured ==
  host = "java" /\ phase = "open" /\ engine # None /\ options[1].json # None =>
    LET asked == options[1].json[1]
        tls == OrElse(asked.tls_config, NoTls)
        fetcher == engine[1].fetcher
    IN \/ /\ fetcher.url = OrElse(asked.url, DefaultUrl)
          /\ fetcher.namespace = engine[1].namespace
          /\ Spoiled(tls) \/ TlsAsConfigured(fetcher.client, tls)
          /\ fetcher.mode = "streaming" => fetcher.timeout = None
       \/ /\ Spoiled(tls)
          /\ fetcher.url = DefaultUrl /\ fetcher.namespace = "default"
          /\ fetcher.client = PlainClient /\ fetcher.mode = "polling"
=============================================================================
