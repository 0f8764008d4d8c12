---------------------------- MODULE Configuration ----------------------------
(***************************************************************************)
(* How the gateway gets its configuration (config.rs): config.toml, with   *)
(* endpoints taken from environment variables, signing keys taken from the *)
(* environment only, and the checks of Config::load.                       *)
(*                                                                         *)
(* Texts are kept as the forms the code tells apart.  Settings that no     *)
(* condition looks at (log level, genesis time, cache lifetimes, the fee   *)
(* parameters) are left out.                                               *)
(***************************************************************************)
EXTENDS Naturals

CONSTANTS
    Unset,          \* an environment variable that is not set
    DefaultKey,     \* the fixed development keys of SigningConfig::default
    Keys,           \* texts that parse as keys; DefaultKey may be one of them
    BadKey,         \* a text that is no key
    NoFile, Malformed, Unreadable,   \* states of config.toml
    NoConfig        \* load returned an error

ASSUME KeysAssumption ==
    /\ {Unset, BadKey} \cap (Keys \cup {DefaultKey}) = {}

\* "own_var": has the ${...} placeholder of its service; "api_key": has
\* YOUR_API_KEY or YOUR_PROJECT_ID; "replace_me", "example": has REPLACE_ME,
\* example.com; "no_scheme": does not start with http:// or https://; "other_var":
\* starts so, and has a placeholder no check knows, as ${...} of another name.
EndpointForms ==
    {"empty", "own_var", "api_key", "replace_me", "example", "no_scheme", "other_var",
     "url"}

\* "not_hex": 0x and forty characters, not all of them hex digits.
WhitelistForms == {"address", "not_hex", "bare", "short"}

\* The fallbacks are kept without their order.
BeaconApiConfig ==
    [primary_endpoint : EndpointForms, fallback_endpoints : SUBSET EndpointForms,
     request_timeout_secs : Nat]

ConstraintsApiConfig ==
    [relay_endpoint : EndpointForms, request_timeout_secs : Nat, max_retries : Nat]

RethConfig == [endpoint : EndpointForms, max_retries : Nat]

\* The text of domain_application_gateway: only whether it is hex of 4 bytes.
DelegationConfig == [domain_ok : BOOLEAN]

ServerConfig == [address_ok : BOOLEAN]

\* Every traced method name makes a filter directive that parses.
LoggingConfig == [directives_ok : BOOLEAN]

ValidationConfig == [slasher_whitelist : SUBSET WhitelistForms]

SigningKeys == Keys \cup {DefaultKey}

SigningConfig == [ecdsa_private_key : SigningKeys, bls_private_key : SigningKeys]

Config ==
    [server : ServerConfig, logging : LoggingConfig, validation : ValidationConfig,
     beacon_api : BeaconApiConfig, constraints_api : ConstraintsApiConfig,
     delegation : DelegationConfig, reth : RethConfig, signing : SigningConfig]

Environment ==
    [BEACON_API_ENDPOINT : EndpointForms \cup {Unset},
     RETH_ENDPOINT : EndpointForms \cup {Unset},
     CONSTRAINTS_API_ENDPOINT : EndpointForms \cup {Unset},
     COMMITTER_PRIVATE_KEY : Keys \cup {Unset, BadKey},
     BLS_PRIVATE_KEY : Keys \cup {Unset, BadKey}]
-----------------------------------------------------------------------------
(* The defaults.                                                           *)

default_server == [address_ok |-> TRUE]
default_logging == [directives_ok |-> TRUE]
default_validation == [slasher_whitelist |-> {}]

default_beacon_api ==
    [primary_endpoint |-> "api_key", fallback_endpoints |-> {}, request_timeout_secs |-> 30]

default_constraints_api ==
    [relay_endpoint |-> "example", request_timeout_secs |-> 10, max_retries |-> 3]

default_delegation == [domain_ok |-> TRUE]
default_reth == [endpoint |-> "url", max_retries |-> 3]

\* Keys anyone can read in the source.
default_signing ==
    [ecdsa_private_key |-> DefaultKey, bls_private_key |-> DefaultKey]

default_config ==
    [server |-> default_server, logging |-> default_logging,
     validation |-> default_validation, beacon_api |-> default_beacon_api,
     constraints_api |-> default_constraints_api,
     delegation |-> default_delegation, reth |-> default_reth,
     signing |-> default_signing]
-----------------------------------------------------------------------------
(* Config::load.                                                           *)

\* A missing file means the defaults; a file that cannot be read or parsed, one
\* with a section missing included, is an error.  signing is never in the file.
load_from_file(file) ==
    IF file = NoFile THEN default_config
    ELSE IF file \in {Malformed, Unreadable} THEN NoConfig
    ELSE [file EXCEPT !.signing = default_signing]

\* A variable is used only where the file has its placeholder; the fallback
\* endpoints are left as the file has them.
Substituted(endpoint, var) ==
    IF endpoint = "own_var" /\ var # Unset THEN var ELSE endpoint

substitute_env_vars(c, env) ==
    [c EXCEPT
        !.beacon_api.primary_endpoint = Substituted(@, env.BEACON_API_ENDPOINT),
        !.reth.endpoint = Substituted(@, env.RETH_ENDPOINT),
        !.constraints_api.relay_endpoint = Substituted(@, env.CONSTRAINTS_API_ENDPOINT)]

\* Mutant: any text is taken for a key.
parse_bls_key_any(text) == TRUE

parse_bls_key_ok(text) == text \in Keys

\* Mutant: a key that is not set falls back to the development key.
signing_or_default(env) ==
    LET Or(text) == IF text \in Keys THEN text ELSE DefaultKey IN
    [ecdsa_private_key |-> Or(env.COMMITTER_PRIVATE_KEY),
     bls_private_key |-> Or(env.BLS_PRIVATE_KEY)]

\* Both keys must be set and parse: there is no default for a key.
signing_load(env) ==
    IF env.COMMITTER_PRIVATE_KEY \in Keys /\ parse_bls_key_ok(env.BLS_PRIVATE_KEY)
    THEN [ecdsa_private_key |-> env.COMMITTER_PRIVATE_KEY,
          bls_private_key |-> env.BLS_PRIVATE_KEY]
    ELSE NoConfig

validate_beacon_endpoint(e) ==
    e \notin {"empty", "own_var", "api_key", "replace_me", "no_scheme"}

validate_endpoint(e) ==
    e \notin {"empty", "own_var", "replace_me", "example", "no_scheme"}

validate_slasher_whitelist(v) ==
    /\ v.slasher_whitelist # {}
    /\ v.slasher_whitelist \subseteq {"address", "not_hex"}

\* The fallback endpoints are not looked at.
Config_load(file, env) ==
    IF NoConfig \in {load_from_file(file), signing_load(env)} THEN NoConfig
    ELSE LET c == [substitute_env_vars(load_from_file(file), env)
                     EXCEPT !.signing = signing_load(env)]
         IN  IF /\ validate_beacon_endpoint(c.beacon_api.primary_endpoint)
                /\ validate_endpoint(c.reth.endpoint)
                /\ validate_endpoint(c.constraints_api.relay_endpoint)
                /\ validate_slasher_whitelist(c.validation)
             THEN c ELSE NoConfig
=============================================================================
