------------------------- MODULE MC_RouteValidation -------------------------
(* Bounded instance of RouteValidation: strings over space, '/', 'a', '{' *)
(* and '}' of length at most 2; names that are empty, blank or "a".        *)
(* The sample rules for whole definitions cover every action variant,     *)
(* the failing empty Weighted action, and filter overrides on a rule and  *)
(* on a weighted cluster.                                                  *)
EXTENDS RouteValidation

MCChars == {" ", "/", "a", "{", "}"}

MCNameSamples == {<<>>, <<" ">>, <<"a">>}

SampleRule(action, filters) ==
    [path |-> [kind |-> "prefix", value |-> <<"/">>], headers |-> <<>>,
     queryParameters |-> <<>>, action |-> action, typedPerFilterConfig |-> filters]

MCSampleRules ==
    LET forward  == [type |-> "forward", cluster |-> <<"a">>,
                     prefixRewrite |-> <<"/">>, templateRewrite |-> None]
        weighted == [type |-> "weighted",
                     clusters |-> <<[name |-> <<"a">>, weight |-> 1,
                                     typedPerFilterConfig |-> RateLimitFilter]>>]
        empty    == [type |-> "weighted", clusters |-> <<>>]
        redirect == [type |-> "redirect", hostRedirect |-> None, pathRedirect |-> <<"a">>]
    IN {SampleRule(forward, NoFilters), SampleRule(forward, RateLimitFilter),
        SampleRule(weighted, NoFilters), SampleRule(empty, NoFilters),
        SampleRule(redirect, RateLimitFilter)}

=============================================================================
