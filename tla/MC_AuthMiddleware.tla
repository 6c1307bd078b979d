-------------------------- MODULE MC_AuthMiddleware --------------------------
EXTENDS AuthMiddleware, TLC

CONSTANTS c1, c2, t1, t2, t3

MCClients == {c1, c2}
MCTokens == {t1, t2, t3}

\* t1 administers tokens; t2 can read tokens, write APIs (but not every
\* scope POST /platform/apis needs) and expires; t3 is an unused id that
\* POST /tokens may issue.
MCInitialTokens ==
    (t1 :> [status |-> "active", scopes |-> {"tokens:write", "tokens:read"},
            gen |-> 0, expires |-> "never"])
    @@ (t2 :> [status |-> "active",
               scopes |-> {"tokens:read", "apis:write", "route-configs:write"},
               gen |-> 0, expires |-> "future"])
    @@ (t3 :> None)

\* Scopes on both sides of SCOPE_REGEX: an empty action, an upper-case
\* letter, an underscore, a trailing '-' with no colon, and a '-' just
\* before the colon (which the pattern allows).
MCScopes == {"tokens:write", "tokens:read", "apis:write", "route-configs:write",
             "tokens:", "Tokens:read", "bad_scope", "bad-scope-", "apis-:write"}

Update(n, sc, st) == [name |-> n, scopes |-> sc, status |-> st]

\* PATCH bodies: an escalation to tokens:write, a reactivation, an empty
\* scope list, one with a name NAME_REGEX rejects and one with a scope
\* SCOPE_REGEX rejects.
MCUpdates == {Update(None, <<"tokens:write">>, None),
              Update(None, None, "active"),
              Update(None, <<>>, None),
              Update("!bad", None, "revoked"),
              Update("new-name", <<"tokens:read", "tokens:">>, None)}

Create(n, sc, ex) == [name |-> n, scopes |-> sc, expires |-> ex]

\* POST /tokens bodies: a valid one (with the '-' before the colon), one
\* with a two-character name and no scope, and one whose scopes
\* SCOPE_REGEX rejects.
MCCreates == {Create("ci_token-1", <<"apis:write", "apis-:write">>, "future"),
              Create("no", <<>>, "never"),
              Create("ci-token", <<"tokens:", "Tokens:read">>, "never")}

Call(m, f, k, target, body) ==
    [ep |-> Endpoint(m, f, k), target |-> target, body |-> body]

MCCalls ==
    {Call("PATCH", "tokens", "item", t, u) : t \in MCTokens, u \in MCUpdates}
    \cup {Call("POST", "tokens", "coll", None, b) : b \in MCCreates}
    \cup {Call("DELETE", "tokens", "item", t1, None),
          Call("POST", "tokens", "rotate", t2, None),
          Call("GET", "tokens", "coll", None, None),
          Call("POST", "platform/apis", "coll", None, None),
          Call("OPTIONS", "clusters", "coll", None, None)}

ClientSymmetry == Permutations(MCClients)
=============================================================================
