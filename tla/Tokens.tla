------------------------------- MODULE Tokens -------------------------------
(***************************************************************************)
(* What the hub accepts as proof of identity, as predicates of one         *)
(* credential and one clock reading: tenancy/model.go and scope.go (roles, *)
(* memberships, principals), hubauth/oidc.go (ID tokens), aws_sts.go,      *)
(* google.go and entra.go (cloud proofs), cloud.go (what any cloud proof   *)
(* must satisfy) and jwt.go (the hub's own sessions).                      *)
(*                                                                         *)
(* A tick of the clock is half a minute: the skews in the code are minutes.*)
(* Texts are members of small sets; None is the empty string or an absent  *)
(* claim, Bad any text the validators refuse.  A token is signed by the    *)
(* key its header names: signatures themselves belong to the JWT library.  *)
(***************************************************************************)
EXTENDS Integers, Sequences, FiniteSets

None == "none"
Bad == "bad"
Never == -1      \* an absent time
NoNonce == 0
Minute == 2     \* in ticks
Hour == 120

ValidIdentity(t) == t \notin {None, Bad}

(***************************************************************************)
(* Roles, memberships and scopes.                                          *)
(***************************************************************************)
Roles == {"reader", "operator", "approver", "admin"}
Allowed ==
    [reader |-> {"read"}, operator |-> {"read", "propose-intent"}, approver |-> {"read", "approve-intent"},
     admin |-> {"read", "export-audit", "manage-workspace"}]
Authorize(role, action) == role \in Roles /\ action \in Allowed[role]

MembershipValid(m) == ValidIdentity(m.ws) /\ ValidIdentity(m.subject) /\ m.role \in Roles
NewPrincipal(m) == IF MembershipValid(m) THEN {m} ELSE {}
Scope(principal, ws) == {m \in principal : m.ws = ws}

(***************************************************************************)
(* The JWT library's time checks (external): the three claims against now, *)
(* each widened by the leeway.                                             *)
(***************************************************************************)
InTime(t, now, leeway) ==
    /\ t.exp # Never /\ now < t.exp + leeway
    /\ t.nbf # Never => now >= t.nbf - leeway
    /\ t.iat # Never => now >= t.iat - leeway

(***************************************************************************)
(* Upstream ID tokens.  A provider is a pinned configuration: issuer,      *)
(* audience, type, algorithms, the lifetime it accepts and how long its    *)
(* keys may be cached.                                                     *)
(***************************************************************************)
Inspected(t, p) == t.wellFormed /\ t.iss = p.issuer /\ t.alg \in p.algorithms /\ t.typ = p.type /\ ValidIdentity(t.kid)

AudienceOK(t, p, exact) ==
    /\ \E i \in DOMAIN t.aud : t.aud[i] = p.audience
    /\ exact => t.aud = <<p.audience>>
    /\ ~exact /\ Len(t.aud) # 1 => t.azp = p.audience
    /\ t.azp # None => t.azp = p.audience

OIDCTokenOK(t, p, now, nonce, requireNotBefore, exact) ==
    /\ InTime(t, now, 0)
    /\ requireNotBefore => t.nbf # Never
    /\ t.iat # Never /\ ValidIdentity(t.sub)
    /\ t.exp > t.iat /\ t.exp - t.iat <= p.maxLifetime
    /\ t.nbf # Never => t.nbf >= t.iat - Minute
    /\ AudienceOK(t, p, exact)
    /\ nonce # NoNonce => t.nonce = nonce

(***************************************************************************)
(* Cloud proofs.  Each verifier returns the principal it normalised, or    *)
(* the empty set.  AWS forwards the presigned request to STS, whose answer *)
(* (identity) is external; Google and Entra verify a token.                *)
(***************************************************************************)
CloudPrincipal(provider, realm, sub, aud, iat, exp) ==
    {[provider |-> provider, realm |-> realm, sub |-> sub, aud |-> aud, iat |-> iat, exp |-> exp]}

MaxPresign == Minute
AWSProofOK(q, endpoint, now) ==
    /\ q.wellFormed /\ q.host = endpoint.host /\ q.region = endpoint.region
    /\ q.iat <= now /\ q.exp - q.iat \in 1..MaxPresign /\ q.exp > now

NormalizeAWS(q, answer, endpoint) ==
    IF answer.kind = "assumed-role" /\ answer.partition = endpoint.partition /\ answer.arnAccount = answer.account
       /\ ValidIdentity(answer.account) /\ ValidIdentity(answer.role)
    THEN CloudPrincipal("aws", answer.account, answer.role, endpoint.audience, q.iat, q.exp)
    ELSE {}

VerifyGoogle(t, p, now) ==
    IF InTime(t, now, 0) /\ t.iat # Never /\ t.aud = <<p.audience>> /\ ValidIdentity(t.sub) /\ t.azp = t.sub
       /\ t.emailVerified /\ ValidIdentity(t.email) /\ ValidIdentity(t.realm) /\ t.realm = p.realm
       /\ t.exp - t.iat <= Hour /\ t.exp > now
    THEN CloudPrincipal("gcp", t.realm, t.sub, p.audience, t.iat, t.exp)
    ELSE {}

VerifyEntra(t, p, now) ==
    IF InTime(t, now, 0) /\ t.iat # Never /\ t.nbf # Never /\ (\E i \in DOMAIN t.aud : t.aud[i] = p.audience)
       /\ t.realm = p.realm /\ ValidIdentity(t.sub) /\ t.idtyp = "app" /\ t.ver = "2.0"
       /\ (p.actor # None => t.azp = p.actor) /\ t.exp - t.iat <= Hour /\ t.exp > now
    THEN CloudPrincipal("azure", t.realm, t.sub, p.audience, t.iat, t.exp)
    ELSE {}

CloudProviders == {"aws", "gcp", "azure"}
CloudIdentityOK(c) == c.provider \in CloudProviders /\ ValidIdentity(c.realm) /\ ValidIdentity(c.sub)
MaxProofLifetime == Hour
CloudPrincipalOK(c, now) ==
    /\ CloudIdentityOK(c) /\ ValidIdentity(c.aud)
    /\ c.iat # Never /\ c.exp > c.iat /\ c.exp - c.iat <= MaxProofLifetime
    /\ c.iat <= now + Minute /\ c.exp > now

(***************************************************************************)
(* The hub's own session tokens: Issue signs the memberships it was given; *)
(* Verify trusts what was signed for as long as the token lives.           *)
(***************************************************************************)
IssuedSession(principal, now, life) == [members |-> principal, iat |-> now, nbf |-> now, exp |-> now + life]

SessionOK(t, now, leeway, maxLife) ==
    /\ InTime(t, now, leeway) /\ t.exp > t.iat /\ t.exp - t.iat <= maxLife
    /\ t.members # {} /\ \A m \in t.members : MembershipValid(m)
=============================================================================
