-------------------------- MODULE MCHubCredentials --------------------------
(* A hub with one member in two workspaces, one pinned OIDC provider, the   *)
(* two token-based cloud providers and STS.                                 *)
EXTENDS HubCredentials, TLC

Pinned(issuer, realm, keys) ==
    [issuer |-> issuer, audience |-> "hub", type |-> "JWT", algorithms |-> {"RS256"}, maxLifetime |-> Hour,
     cacheTTL |-> 1, maxKeys |-> 2, keys |-> keys, realm |-> realm, actor |-> None]
MCProviders == [idp |-> Pinned("idp", None, {"k1", "k2"}), gcp |-> Pinned("google", "org", {"g1"}),
                azure |-> [Pinned("entra", "tenant", {"e1"}) EXCEPT !.actor = "app1"]]
MCSTS == [host |-> "sts", region |-> "r1", partition |-> "aws", audience |-> "hub"]

T(iss, kid, sub) ==
    [id |-> sub, wellFormed |-> TRUE, iss |-> iss, kid |-> kid, alg |-> "RS256", typ |-> "JWT", aud |-> <<"hub">>, azp |-> None,
     sub |-> sub, nonce |-> NoNonce, iat |-> 0, nbf |-> 0, exp |-> 3, realm |-> None, email |-> None, emailVerified |-> FALSE,
     idtyp |-> None, ver |-> None]
G == [T("google", "g1", "robot") EXCEPT !.azp = "robot", !.email = "mail", !.emailVerified = TRUE, !.realm = "org", !.nbf = Never]
E == [T("entra", "e1", "app") EXCEPT !.azp = "app1", !.realm = "tenant", !.idtyp = "app", !.ver = "2.0", !.exp = 2]
P == [id |-> "p1", wellFormed |-> TRUE, host |-> "sts", region |-> "r1", iat |-> 0, exp |-> 2,
      answer |-> [kind |-> "assumed-role", partition |-> "aws", arnAccount |-> "acct", account |-> "acct", role |-> "role"]]

MCRows0 ==
    [members |-> (<<"w1", "ann">> :> "operator") @@ (<<"w2", "ann">> :> "reader"),
     keys |-> (0 :> [ws |-> "w1", subject |-> "ann", created |-> 0, expires |-> 2, retire |-> Never, revoked |-> Never, by |-> Never]),
     bindings |-> (<<"w1", "idp", "ann">> :> [ws |-> "w1", subject |-> "ann"]) @@ (<<"w2", "idp", "ann">> :> [ws |-> "w2", subject |-> "ann"])
               @@ (<<"w1", "aws", "acct", "role">> :> [ws |-> "w1", subject |-> "ann"])
               @@ (<<"w1", "gcp", "org", "robot">> :> [ws |-> "w1", subject |-> "ann"])]

Exchange(kind) == [kind |-> kind, addr |-> "a", ws |-> "w1"]
Admin(kind) == [kind |-> kind, role |-> "admin", ws |-> "w1", subject |-> "ann"]
Member(role) == [kind |-> "member", ws |-> "w1", subject |-> "ann", newRole |-> role]
UseKey(addr, k) == [kind |-> "key", addr |-> addr, key |-> k]
Rotate(overlap) == Admin("rotate") @@ [key |-> 0, overlap |-> overlap]
Revoke == Admin("revoke") @@ [key |-> 0]
CallIn(ws) == [kind |-> "call", ws |-> ws]
Token1 == T("idp", "k1", "ann")
Browser == [Token1 EXCEPT !.nbf = Never, !.nonce = OwnNonce]

MCWorkloads == {
    [slots |-> 3, ticks |-> 2, inputs |-> {UseKey("a", 0), UseKey("a", 1), Rotate(0), Rotate(1), Revoke, Member(None), Member("reader")}],
    [slots |-> 3, ticks |-> 3, inputs |-> {UseKey("a", 0), CallIn("w1"), CallIn("w2")}],
    [slots |-> 2, ticks |-> 1, inputs |-> {Rotate(9), Admin("issue"), [Admin("issue") EXCEPT !.role = "reader"], UseKey("a", 1)}],
    [slots |-> 2, ticks |-> 3, inputs |-> {Exchange("aws") @@ [proof |-> P], Exchange("aws") @@ [proof |-> [P EXCEPT !.answer.kind = "user", !.id = "p2"]],
                              Exchange("aws") @@ [proof |-> [P EXCEPT !.region = "r2"]], Exchange("gcp") @@ [token |-> G]}],
    [slots |-> 2, ticks |-> 3, inputs |-> {Exchange("azure") @@ [token |-> E], Exchange("azure") @@ [token |-> [E EXCEPT !.ver = "1.0"]],
                              Exchange("gcp") @@ [token |-> [G EXCEPT !.iat = 2]],
                              Admin("bind") @@ [identity |-> <<"w1", "azure", "tenant", "app">>]}],
    [slots |-> 3, ticks |-> 2, inputs |-> {Exchange("oidc") @@ [token |-> Token1], Exchange("oidc") @@ [token |-> [Token1 EXCEPT !.aud = <<"hub", "other">>]],
                              [kind |-> "withdraw", provider |-> "idp", kid |-> "k1"]}],
    [slots |-> 2, ticks |-> 1, inputs |-> {Exchange("oidc") @@ [token |-> T("idp", "k2", "bob")],
                              Admin("bind") @@ [identity |-> <<"w1", "idp", "bob">>],
                              Admin("bind") @@ [identity |-> <<"w1", "okta", "bob">>]}],
    [slots |-> 3, ticks |-> 2, inputs |-> {[kind |-> "login", addr |-> "a", ws |-> "w1"], [kind |-> "login", addr |-> "b", ws |-> "w2"],
                              [kind |-> "callback", addr |-> "b", token |-> Browser],
                              [kind |-> "callback", addr |-> "b", token |-> [Browser EXCEPT !.nonce = 1]]}],
    [slots |-> 4, ticks |-> 3, inputs |-> {UseKey("a", 7), UseKey("b", 7), UseKey("c", 7)}]}
=============================================================================
