--------------------------- MODULE MCClientCaches ---------------------------
\* Two services of one server over four files, which import each other's
\* imports; one entry of channels, so that every other channel clears the cache.
EXTENDS ClientCaches

MCFiles == {"a", "b", "common", "types"}
MCFileOf == [s \in {"A", "B"} |-> IF s = "A" THEN "a" ELSE "b"]
MCDependencies == [f \in MCFiles |->
    CASE f = "a" -> <<"common", "types">> [] f = "b" -> <<"types", "common">>
      [] f = "common" -> <<"types">> [] f = "types" -> <<>>]

Reflected(channel, pool, target, answers) ==
    [channel |-> channel, pool |-> pool, address_ok |-> TRUE, settings_ok |-> TRUE,
     source |-> "reflection", target |-> target, listed |-> <<"A", "B">>, answers |-> answers]

MCConfigs ==
    {Reflected("one", "all", {}, {"A", "B"}),
     Reflected("one", "a", {"A"}, {"A", "B"}),
     Reflected("two", "b", {"B"}, {"A"}),
     [Reflected("two", "file", {}, {}) EXCEPT !.source = "file"],
     [Reflected("one", "bad", {}, {}) EXCEPT !.source = "bad_file"],
     [Reflected("two", "none", {}, {}) EXCEPT !.settings_ok = FALSE],
     [Reflected("none", "none", {}, {}) EXCEPT !.address_ok = FALSE]}
=============================================================================
