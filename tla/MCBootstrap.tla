---------------------------- MODULE MCBootstrap -----------------------------
EXTENDS Bootstrap

\* The databases and their clients, without the rest.
Stores == {c \in Config : /\ ~c.fastHttp /\ ~c.cron /\ ~c.async /\ ~c.flake /\ ~c.ipdb
                          /\ c.cache \in {None, -1, c.limiter}}

\* What runs in the background and is used there, without clients.
Background == {c \in Config : /\ c.redis = <<>> /\ c.limiter = -1 /\ c.cache = None
                              /\ c.async => c.cron
                              /\ ~c.mongo}

MCConfigs == Stores \cup Background

\* The second configuration differs from the first in one or two places.
MCRereads ==
    [c \in MCConfigs |->
        {d \in MCConfigs :
            /\ Cardinality({f \in DOMAIN c : c[f] # d[f]}) <= 2
            /\ c.server # "absent" => d.server # "absent"
            /\ c.log => d.log}]

=============================================================================
