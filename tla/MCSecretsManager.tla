-------------------------- MODULE MCSecretsManager --------------------------
(* Secrets Manager: a behaviour is one of the local state of a machine, on    *)
(* every platform, one of the vault and two commands that use it, or one of   *)
(* the brokers that the secrets are for; the other parts stay where they      *)
(* begin.  The two commands are alike, so the first to start is called c1.    *)
EXTENDS MCLoopbackBrokers, SmLifecycle, SmVault

CONSTANTS c1, c2   \* the two commands

MCPlatforms == {"win32", "darwin", "linux"}

Text == [kind |-> "text", secret |-> "unset"]
Password == [kind |-> "password", secret |-> "unset"]

Values(ks, v) == [k \in ks |-> v]

Write(k) == [kind |-> "write", keys |-> <<k>>, values |-> Values({k}, "v1")]

Entry(pass) ==
    [kind |-> "entry", keys |-> <<"user", "pass">>,
     values |-> Values({"user", "pass"}, "v1"),
     fields |-> [k \in {"user", "pass"} |-> IF k = "user" THEN Text ELSE pass]]

Seed(loads) ==
    [kind |-> "seed", keys |-> <<"user", "pass">>,
     values |-> Values({"user", "pass"}, "v2"), prune |-> TRUE, smoke |-> TRUE,
     manifestLoads |-> loads]

Rows(kind) == [kind |-> kind, keys |-> <<"inv", "user">>,
               source |-> <<"env_file", "env_var">>]

Resolve(class, ks) ==
    [kind |-> "resolve", keys |-> ks, gate |-> "branded", class |-> class]

MCPrograms ==
    {Write("inv"), Write("stray"), Write("foreign"), Entry(Password),
     Entry([Password EXCEPT !.secret = "no"]), Seed(TRUE),
     [Seed(FALSE) EXCEPT !.keys = <<"pass">>, !.smoke = FALSE],
     Rows("import"), [Rows("parity") EXCEPT !.keys = <<"inv">>], Rows("dryrun"),
     [Rows("import") EXCEPT !.source = <<"clixml", "env_var">>],
     Resolve("basic", <<"user", "pass">>),
     [Resolve("sentinel", <<"inv">>) EXCEPT !.gate = "copied"]}

Item(id, k, v) == [id |-> id, key |-> k, value |-> v]

MCStocks == {{}, {Item(1, "inv", "v2"), Item(2, "user", "v2")}}

\* A local store changes while an import is between reading and writing it.
Imports(c) == job[c].program.kind = "import"

MCInit ==
    /\ part \in Scope
    /\ Init /\ VaultInit /\ BrokersInit
    /\ IF part = "vault"
          THEN /\ local["inv"] \in {"v1", NoValue} /\ local["user"] = "v1"
               /\ local["inv"] = NoValue <=> vault = {}
          ELSE vault = {} /\ \A k \in InventoryKeys : local[k] = NoValue
    /\ part # "lifecycle" =>
          platform = "linux" /\ \A p \in Places : store[p] = None

MCNext ==
    \/ part = "lifecycle" /\ Next /\ UNCHANGED <<vaultVars, brokerVars, part>>
    \/ BrokersNext /\ UNCHANGED <<vars, vaultVars>>
    \/ /\ part = "vault" /\ VaultNext
       /\ job'[c1] = IdleJob => job'[c2] = IdleJob
       /\ local' # local => \E c \in Commands : job[c].at = "list" /\ Imports(c)
       /\ UNCHANGED <<vars, brokerVars, part>>

MCSpec == MCInit /\ [][MCNext]_<<vars, vaultVars, brokerVars, part>>

MCFairSpec ==
    /\ MCSpec
    /\ VaultFairness /\ SessionFairness /\ ProxyFairness /\ HttpFairness

-----------------------------------------------------------------------------
(* One seed after another while no call of bws fails.                         *)

SeedNext ==
    /\ \/ \E c \in Commands : Begins(c, Seed(TRUE))
       \/ \E c \in Commands : JobWork(c)
    /\ UNCHANGED <<vars, brokerVars, part>>

SeedSpec ==
    MCInit /\ [][SeedNext]_<<vars, vaultVars, brokerVars, part>>
=============================================================================
