--------------------------- MODULE MCGatewayProcess ---------------------------
EXTENDS GatewayProcess

CONSTANTS i1, i2, key, h1, alice, p1, ours

lower == [account |-> alice, form |-> "lower"]

MCCommitments == {[hash |-> h1, ctype |-> 1, slot |-> 0, slasher |-> lower]}

MCDelegations ==
    {[proposer |-> p, delegate |-> ours, committer |-> lower, slot |-> 0,
      verified |-> TRUE] : p \in Proposers}

\* The config.toml of the repository, and an environment that goes with it.
shipped ==
    [server |-> [address_ok |-> TRUE], logging |-> [directives_ok |-> TRUE],
     validation |-> [slasher_whitelist |-> {"address"}],
     beacon_api |-> [primary_endpoint |-> "own_var", fallback_endpoints |-> {},
                     request_timeout_secs |-> 30],
     constraints_api |-> [relay_endpoint |-> "url", request_timeout_secs |-> 30,
                          max_retries |-> 3],
     delegation |-> [domain_ok |-> TRUE],
     reth |-> [endpoint |-> "own_var", max_retries |-> 3],
     signing |-> default_signing]

complete ==
    [BEACON_API_ENDPOINT |-> "url", RETH_ENDPOINT |-> "url",
     CONSTRAINTS_API_ENDPOINT |-> Unset, COMMITTER_PRIVATE_KEY |-> key,
     BLS_PRIVATE_KEY |-> key]

\* A file that says everything itself, with a placeholder no check knows and
\* fallbacks nobody has looked at.
written ==
    [shipped EXCEPT !.beacon_api.primary_endpoint = "other_var",
                    !.beacon_api.fallback_endpoints = {"own_var", "empty"},
                    !.reth.endpoint = "api_key",
                    !.validation.slasher_whitelist = {"address", "not_hex"}]

\* One thing wrong with the file, or with the environment.
BadFiles ==
    {NoFile, Malformed, Unreadable}
    \cup {[shipped EXCEPT !.beacon_api.primary_endpoint = e] :
            e \in {"empty", "api_key", "replace_me", "no_scheme"}}
    \cup {[shipped EXCEPT !.reth.endpoint = e] :
            e \in {"empty", "replace_me", "example", "no_scheme"}}
    \cup {[shipped EXCEPT !.constraints_api.relay_endpoint = e] :
            e \in {"own_var", "empty", "example"}}
    \cup {[shipped EXCEPT !.validation.slasher_whitelist = w] :
            w \in {{}, {"address", "bare"}, {"short"}}}
    \cup {[shipped EXCEPT !.logging.directives_ok = FALSE],
          [shipped EXCEPT !.beacon_api.request_timeout_secs = 0],
          [shipped EXCEPT !.constraints_api.request_timeout_secs = 0],
          [shipped EXCEPT !.constraints_api.max_retries = 11],
          [shipped EXCEPT !.delegation.domain_ok = FALSE],
          [shipped EXCEPT !.server.address_ok = FALSE]}

BadEnvironments ==
    {[complete EXCEPT !.BEACON_API_ENDPOINT = Unset],
     [complete EXCEPT !.BEACON_API_ENDPOINT = "own_var"],
     [complete EXCEPT !.RETH_ENDPOINT = Unset],
     [complete EXCEPT !.COMMITTER_PRIVATE_KEY = Unset],
     [complete EXCEPT !.COMMITTER_PRIVATE_KEY = BadKey],
     [complete EXCEPT !.BLS_PRIVATE_KEY = Unset],
     [complete EXCEPT !.BLS_PRIVATE_KEY = BadKey]}

MCDeployments ==
    {[file |-> shipped, env |-> complete, oneHost |-> FALSE],
     [file |-> written, oneHost |-> TRUE,
      env |-> [complete EXCEPT !.BLS_PRIVATE_KEY = DefaultKey]]}
    \cup {[file |-> f, env |-> complete, oneHost |-> FALSE] : f \in BadFiles}
    \cup {[file |-> shipped, env |-> e, oneHost |-> FALSE] : e \in BadEnvironments}
================================================================================
