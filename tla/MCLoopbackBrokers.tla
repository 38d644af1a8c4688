-------------------------- MODULE MCLoopbackBrokers --------------------------
(* The brokers: a behaviour is one of a session broker, of the OneCLI proxy,  *)
(* or of the HTTP broker, the other parts staying where they begin.  For each *)
(* class of session a valid policy is offered next to ones that each break    *)
(* one rule.                                                                  *)
EXTENDS SessionBroker, ProxyRuntime, HttpBroker

CONSTANT Scope  \* the parts a run is about

VARIABLE part   \* what the behaviour is about

brokerVars == <<sessionVars, proxyVars, httpVars>>

BrokersInit ==
    /\ SessionInit /\ ProxyInit /\ HttpInit
    /\ part # "session" => proto = "ssh"
    /\ part # "http" => policy = CHOOSE p \in RawPolicies : TRUE
    /\ part # "http" => material = CHOOSE m \in Materials : TRUE

BrokersNext ==
    \/ part = "session" /\ SessionNext /\ UNCHANGED <<proxyVars, httpVars, part>>
    \/ part = "proxy" /\ ProxyNext /\ UNCHANGED <<sessionVars, httpVars, part>>
    \/ part = "http" /\ HttpNext /\ UNCHANGED <<sessionVars, proxyVars, part>>

Loopback == Url("http", "loopback", 8080)
Site == Url("https", "site", NoPort)

Base == [version |-> 5, class |-> "browser_form_login", extraFields |-> FALSE,
         bind |-> Loopback, origin |-> Loopback, target_host |-> "loopback",
         target_port |-> 2200, allowed |-> {"home"}, allowed_ops |-> {"list", "retr"},
         success |-> "home", replay |-> "home", username_field |-> "user",
         password_field |-> "pass", hidden_fields |-> {"csrf"}, wellFormed |-> TRUE,
         max_redirect_hops |-> 1, session_ttl_ms |-> 2000, idle_ttl_ms |-> 1000,
         username_value |-> "{{username}}", password_value |-> "{{password}}",
         credential_value |-> "{{credential}}"]

SshPolicy == [Base EXCEPT !.version = 7, !.class = "ssh"]
FtpPolicy == [Base EXCEPT !.version = 8, !.class = "ftp"]

\* Two cookies that fill a jar, and one that replaces the first and is short.
MCNames == {<<"n1", "v1">>, <<"n2", "v1">>}
MCCookies == MCNames \cup {<<"n1", "v2">>}
MCShortCookies == {<<"n1", "v2">>}

Credentials == [exact |-> TRUE, printable |-> TRUE, colon |-> FALSE, quoted |-> FALSE,
                username_length |-> 8, password_length |-> 1024]

Offer(p, gate) == [policy |-> p, gate |-> gate, credentials |-> Credentials]

MCPlainOffers ==
    {Offer(p, NoGate) : p \in
        {Base, SshPolicy, FtpPolicy,
         [Base EXCEPT !.version = 1, !.class = "http_bearer"],
         [Base EXCEPT !.class = "ssh"],
         [Base EXCEPT !.success = "elsewhere"],
         [Base EXCEPT !.hidden_fields = {"pass"}],
         [SshPolicy EXCEPT !.target_port = 0],
         [FtpPolicy EXCEPT !.idle_ttl_ms = 2001]}}
    \cup {Offer([Base EXCEPT !.origin = Site], g) :
             g \in {NoGate, BrowserLiveGate("site"), BrowserLiveGate("elsewhere"),
                    [BrowserLiveGate("site") EXCEPT !.branded = FALSE]}}
    \cup {[Offer(Base, NoGate) EXCEPT !.credentials.password_length = 1025]}

\* With credentials that hold a quote or a backslash.
MCOffers ==
    MCPlainOffers \cup {[Offer(p, NoGate) EXCEPT !.credentials.quoted = TRUE] :
                            p \in {Base, SshPolicy, FtpPolicy}}

\* Every written form of the credential.
MCForms == AllForms
=============================================================================
