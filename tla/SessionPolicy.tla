---------------------------- MODULE SessionPolicy ----------------------------
(***************************************************************************)
(* The declarative policies that a session broker takes (policy.js), the    *)
(* live gate that lets a browser policy name an https origin, and the check *)
(* of the credentials.  A policy is a record of what the validators look   *)
(* at: of a URL the parts that the parser gives, of a list the set of its   *)
(* entries, of a name or path whether it has the required form.            *)
(***************************************************************************)
EXTENDS Integers, FiniteSets

\* CREDENTIAL_CLASS_BY_VERSION.
CredentialClass ==
    <<"http_bearer", "http_api_key_header", "http_basic", "onecli_proxy",
      "browser_form_login", "http_api_key_query", "ssh", "ftp">>

\* A URL that new URL() accepts.  The port is NoPort if it is not written, and
\* also if it is the default one of the scheme, which the parser drops; bare
\* is an origin without credentials, path, query and fragment.
NoPort == -1

Url(scheme, host, port) == [scheme |-> scheme, host |-> host, port |-> port, bare |-> TRUE]

\* http on 127.0.0.1 or localhost, with a port that is written, 0 included.
parseLoopbackHttpUrl(url) ==
    /\ url.scheme = "http" /\ url.host = "loopback"
    /\ url.port \in 0..65535
    /\ url.bare

\* buildBrowserFormLoginLiveGate brands the gate it makes for one host name; a
\* copy of a gate carries no brand.
NoGate == [branded |-> FALSE, pinned_hostname |-> "", given |-> FALSE]

BrowserLiveGate(hostname) == [branded |-> TRUE, pinned_hostname |-> hostname, given |-> TRUE]

assertBrandedBrowserLiveGate(gate) == gate.branded

\* validateSessionTtls, and the same two tests for a browser policy.
validateSessionTtls(p) ==
    /\ p.session_ttl_ms \in 1000..300000
    /\ p.idle_ttl_ms \in 1000..p.session_ttl_ms

\* The user name and the password of a policy are the placeholders.
Placeholders(p) ==
    /\ p.username_value = "{{username}}" /\ p.password_value = "{{password}}"

\* buildBrowserFormLoginPolicy: the names of the user name, password and
\* hidden fields differ, and the paths to be reached are allowed ones.
buildBrowserFormLoginPolicy(p) ==
    /\ p.wellFormed
    /\ p.username_field # p.password_field
    /\ {p.username_field, p.password_field} \cap p.hidden_fields = {}
    /\ Cardinality(p.hidden_fields) <= 16
    /\ Cardinality(p.allowed) \in 1..32
    /\ p.success \in p.allowed /\ p.replay \in p.allowed
    /\ p.max_redirect_hops \in 1..3
    /\ validateSessionTtls(p)
    /\ Placeholders(p)

\* validateSshSessionPolicy and validateFtpSessionPolicy: a loopback target,
\* whose port may still be 0, and a bounded list that allows something.
validateTargetPolicy(p) ==
    /\ p.target_host = "loopback" /\ p.target_port \in 0..65535
    /\ p.wellFormed
    /\ Cardinality(p.allowed) \in 1..(IF p.version = 7 THEN 8 ELSE 16)
    /\ p.version = 8 => p.allowed_ops # {} /\ p.allowed_ops \subseteq {"list", "retr"}
    /\ validateSessionTtls(p)
    /\ Placeholders(p)

\* The classes that startBroker and the OneCLI proxy broker serve: method,
\* path and the name of a header or query parameter have their form.
validateHttpPolicy(p) ==
    /\ p.wellFormed
    /\ parseLoopbackHttpUrl(p.origin)
    /\ p.version = 4 => /\ p.origin.port # 0
                        /\ p.target_host # "address"
                        /\ p.target_port = 443
    /\ IF p.version = 3 THEN Placeholders(p) ELSE p.credential_value = "{{credential}}"

validatePolicy(p) ==
    /\ p.version \in 1..8
    /\ ~p.extraFields
    /\ p.class = CredentialClass[p.version]
    /\ parseLoopbackHttpUrl(p.bind)
    /\ CASE p.version = 5 ->
              parseLoopbackHttpUrl(p.origin) /\ buildBrowserFormLoginPolicy(p)
         [] p.version \in {7, 8} -> validateTargetPolicy(p)
         [] OTHER -> validateHttpPolicy(p)

\* validateLiveBrowserFormLoginPolicy: the origin is https on the host name
\* that the gate pins, with any port.
validateLiveBrowserFormLoginPolicy(p, gate) ==
    /\ assertBrandedBrowserLiveGate(gate)
    /\ p.version = 5 /\ p.class = "browser_form_login"
    /\ ~p.extraFields
    /\ parseLoopbackHttpUrl(p.bind)
    /\ p.origin.scheme = "https" /\ p.origin.host = gate.pinned_hostname /\ p.origin.bare
    /\ buildBrowserFormLoginPolicy(p)

\* validateBasicCredentials: exactly two own data values of printable ASCII,
\* their lengths in their bounds and no colon in the user name.
validateBasicCredentials(c) ==
    /\ c.exact /\ c.printable /\ ~c.colon
    /\ c.username_length \in 8..256
    /\ c.password_length \in 8..1024
=============================================================================
