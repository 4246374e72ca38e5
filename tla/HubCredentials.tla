--------------------------- MODULE HubCredentials ---------------------------
(***************************************************************************)
(* How the hub turns credentials into sessions: the attempt limiter and    *)
(* exchange handlers (hubserver/exchange.go), API keys and their rotation  *)
(* (hubauth/apikey.go, hubdb/api_keys.go), cloud proofs and the replay     *)
(* guard (hubauth/cloud.go), provider keys and ID tokens (hubauth/oidc.go),*)
(* the browser login (hubserver/browser_oidc.go), the session issuer and   *)
(* the authentication middleware (hubauth/issuer.go, hubserver/auth.go).   *)
(*                                                                         *)
(* A request is a process: req[s] holds its input, where it stands, and    *)
(* the values it has read so far.  Every database round trip, provider     *)
(* call, mutex and clock reading is a step of its own, so requests and the *)
(* clock interleave between them.  A database transaction is one step: the *)
(* rotation locks its row, and a second one re-reads it under the lock.    *)
(***************************************************************************)
EXTENDS Tokens

CONSTANTS Attempts, Window, MaxAddresses,     \* AttemptLimiterConfig
          KeyLife, MaxOverlap,                \* API key lifetime, longest rotation overlap
          GuardCapacity,                      \* MemoryCloudReplayGuardConfig.Capacity
          TransactionTTL, MaxTransactions,    \* BrowserOIDCHandlerConfig
          SessionLife, Leeway,                \* session issuer and verifier
          Providers, STS,                     \* name -> pinned token provider; the STS endpoint
          Slots, Workloads, Rows0             \* request slots; the requests considered; the first rows

ASSUME CredentialAssumptions ==
    /\ {Attempts, Window, MaxAddresses, KeyLife, GuardCapacity, TransactionTTL, MaxTransactions, SessionLife} \subseteq Nat \ {0}
    /\ MaxOverlap \in Nat /\ Leeway \in 0..Minute
    /\ IsFiniteSet(Slots) /\ Slots \subseteq Nat \ {0}
    /\ \A p \in DOMAIN Providers : Providers[p].cacheTTL \in Nat \ {0}

\* The digest of a cloud proof, and until when it proves.
ProofId(in) == IF in.kind = "aws" THEN in.proof.id ELSE in.token.id
ProofExpiry(in) == IF in.kind = "aws" THEN in.proof.exp ELSE in.token.exp
ProviderOf(in) == IF in.kind \in {"gcp", "azure"} THEN in.kind ELSE "idp"

\* Requests reach an endpoint of a configured provider, a binding is of the workspace it is stored in,
\* and a digest stands for one proof.
ASSUME WorkloadAssumptions == \A w \in Workloads :
    /\ w.slots \in Nat /\ w.ticks \in Nat
    /\ \A in \in w.inputs :
         /\ in.kind \in {"gcp", "azure", "oidc", "callback"} =>
              ProviderOf(in) \in DOMAIN Providers /\ "kid" \in DOMAIN in.token
         /\ in.kind = "withdraw" => in.provider \in DOMAIN Providers
         /\ in.kind = "bind" => in.identity[1] = in.ws
         /\ in.kind \in CloudProviders =>
              /\ ProofExpiry(in) \in Int
              /\ \A x \in w.inputs : x.kind \in CloudProviders /\ ProofId(x) = ProofId(in) => ProofExpiry(x) = ProofExpiry(in)

\* The rows a hub starts with: keys are named apart from those made later.
ASSUME RowAssumptions ==
    /\ DOMAIN Rows0 = {"members", "keys", "bindings"} /\ Rows0 = [f \in DOMAIN Rows0 |-> Rows0[f]]
    /\ DOMAIN Rows0.keys \cap Slots = {}
    /\ \A k \in DOMAIN Rows0.keys : LET r == Rows0.keys[k] IN
         /\ r = [f \in {"ws", "subject", "created", "expires", "retire", "revoked", "by"} |-> r[f]]
         /\ {r.created, r.expires, r.retire, r.revoked, r.by} \subseteq Int
    /\ \A i \in DOMAIN Rows0.bindings : Rows0.bindings[i].ws = i[1]

VARIABLES clock, workload,
          req,          \* slot -> the request, kept when it is answered
          limiter,      \* AttemptLimiter.entries
          rows,         \* the database: api_keys, memberships, bindings
          guard,        \* MemoryCloudReplayGuard.entries
          cache, held,  \* provider -> its key cache, and the request that holds its mutex (0: nobody)
          published,    \* provider -> the keys it publishes, and when it withdrew the others (external)
          logins,       \* BrowserOIDCHandler.transactions
          cookie        \* the browser's transaction cookie

vars == <<clock, workload, req, limiter, rows, guard, cache, held, published, logins, cookie>>

NoRequest == [pc |-> "idle"]
NoCookie == 0
Without(f, S) == [x \in DOMAIN f \ S |-> f[x]]
With(f, k, v) == [x \in DOMAIN f \cup {k} |-> IF x = k THEN v ELSE f[x]]

Init ==
    /\ clock = 0 /\ workload \in Workloads
    /\ req = [s \in Slots |-> NoRequest]
    /\ limiter = << >> /\ guard = << >> /\ logins = << >>
    /\ rows = Rows0
    /\ cache = [p \in DOMAIN Providers |-> [keys |-> {}, fetchedAt |-> Never]]
    /\ held = [p \in DOMAIN Providers |-> 0]
    /\ published = [p \in DOMAIN Providers |-> [keys |-> Providers[p].keys, gone |-> << >>]]
    /\ cookie = NoCookie

At(s, pc) == req[s].pc = pc
\* The request goes on at pc, remembering more.
Keep(s, pc, more) == req' = [req EXCEPT ![s] = [x \in DOMAIN req[s] \cup DOMAIN more |->
                         IF x = "pc" THEN pc ELSE IF x \in DOMAIN more THEN more[x] ELSE req[s][x]]]
Goto(s, pc) == Keep(s, pc, << >>)
\* What is remembered of an answered request, for the properties.
Recorded == {"pc", "in", "begun", "state", "live", "token", "member", "takenAt", "expires", "keyAt", "spentAt", "principal"}
Answer(s, a) == req' = [req EXCEPT ![s] = [x \in (DOMAIN req[s] \cap Recorded) \cup {"answer"} |->
                    IF x = "pc" THEN "done" ELSE IF x = "answer" THEN a ELSE req[s][x]]]
\* Every refusal of a browser callback clears the transaction cookie.
Refuse(s) == Answer(s, "refused") /\ cookie' = IF req[s].in.kind = "callback" THEN NoCookie ELSE cookie

(***************************************************************************)
(* The attempt limiter: fixed windows per address, bounded addresses.      *)
(***************************************************************************)
EndsEarly(w) == clock + 1 >= w.started + Window   \* mutant
Expired(w) == clock >= w.started + Window

\* The tables Allow may leave (map order picks the candidate), each with its answer.
Allow(a) ==
    LET full == a \notin DOMAIN limiter /\ Cardinality(DOMAIN limiter) >= MaxAddresses
        old == {x \in DOMAIN limiter : Expired(limiter[x])}
        tables == IF full /\ old # {} THEN {Without(limiter, {x}) : x \in old} ELSE {limiter}
    IN {IF full /\ old = {} THEN [table |-> t, ok |-> FALSE]
        ELSE IF a \notin DOMAIN t \/ Expired(t[a])
             THEN [table |-> With(t, a, [started |-> clock, count |-> 1]), ok |-> TRUE]
        ELSE IF t[a].count >= Attempts THEN [table |-> t, ok |-> FALSE]
        ELSE [table |-> [t EXCEPT ![a].count = @ + 1], ok |-> TRUE] : t \in tables}

\* A key that may start an exchange now: stored, not revoked, not expired, not retired.
Live(k) == k \in DOMAIN rows.keys /\ LET r == rows.keys[k] IN
              r.revoked = Never /\ clock < r.expires /\ (r.retire # Never => clock < r.retire)

FirstStep ==
    [key |-> "keylookup", aws |-> "parse", gcp |-> "inspect", azure |-> "inspect", oidc |-> "inspect",
     login |-> "store", callback |-> "take"]

\* A request starts; slots are taken in order.
Starts(s, in) == At(s, "idle") /\ (\A x \in Slots : x < s => ~At(x, "idle")) /\ s <= workload.slots /\ in \in workload.inputs

\* A callback returns from the login in slot l, whose redirect the browser followed, with that
\* login's state and the cookie the browser holds now; l = 0 for every other request.  A key is known
\* once the call that made it has returned it.
Admit(s, in, l) ==
    /\ Starts(s, in) /\ in.kind \in DOMAIN FirstStep
    /\ IF in.kind = "callback" THEN l \in Slots /\ At(l, "done") /\ req[l].answer = "redirect" ELSE l = 0
    /\ in.kind = "key" /\ in.key \in Slots => At(in.key, "done") /\ req[in.key].answer = "ok"
    /\ \E a \in Allow(in.addr) :
         /\ limiter' = a.table
         /\ req' = [req EXCEPT ![s] =
              IF ~a.ok THEN [pc |-> "done", in |-> in, answer |-> "limited"]
              ELSE [pc |-> FirstStep[in.kind], in |-> in, begun |-> clock,
                    live |-> in.kind = "key" => Live(in.key), state |-> l, cookie |-> cookie]]
    /\ UNCHANGED <<clock, workload, rows, guard, cache, held, published, logins, cookie>>

(***************************************************************************)
(* API keys: APIKeyService and the api_keys table.                         *)
(***************************************************************************)
MemberOf(ws, subject) == IF <<ws, subject>> \in DOMAIN rows.members
                         THEN {[ws |-> ws, subject |-> subject, role |-> rows.members[<<ws, subject>>]]} ELSE {}

\* LookupAPIKey joins the key with its owner's current membership.
KeyLookup(s) ==
    /\ At(s, "keylookup")
    /\ LET k == req[s].in.key IN
       \/ k \in DOMAIN rows.keys /\ (\E m \in MemberOf(rows.keys[k].ws, rows.keys[k].subject) :
             Keep(s, "keycheck", [record |-> rows.keys[k], member |-> m]) /\ UNCHANGED cookie)
       \/ Refuse(s)      \* no such row, or the database failed
    /\ UNCHANGED <<clock, workload, limiter, rows, guard, cache, held, published, logins>>

RevocationUnread(r) == clock < r.expires /\ (r.retire # Never => clock < r.retire)   \* mutant
ActiveRecord(r) == r.revoked = Never /\ clock < r.expires /\ (r.retire # Never => clock < r.retire)

KeyCheck(s) ==
    /\ At(s, "keycheck")
    /\ IF ActiveRecord(req[s].record) THEN Goto(s, "sign") /\ UNCHANGED cookie ELSE Refuse(s)
    /\ UNCHANGED <<clock, workload, limiter, rows, guard, cache, held, published, logins>>

NewKey(ws, subject) == [ws |-> ws, subject |-> subject, created |-> clock, expires |-> clock + KeyLife,
                        retire |-> Never, revoked |-> Never, by |-> Never]

\* An identity a binding may name: of a configured provider, its parts well formed.
Bindable(identity) == /\ identity[2] \in DOMAIN Providers \cup {"aws"}
                      /\ \A i \in 3..Len(identity) : ValidIdentity(identity[i])

\* Issue, Rotate, Revoke and BindIdentity share their start: the admin's role, and what is checked
\* or read before the database is reached.
AdminBegin(s, in) ==
    /\ Starts(s, in) /\ in.kind \in {"issue", "rotate", "revoke", "bind"}
    /\ LET ok == /\ Authorize(in.role, "manage-workspace")
                 /\ in.kind \in {"issue", "rotate", "bind"} => ValidIdentity(in.subject)
                 /\ in.kind = "rotate" => in.overlap \in 0..MaxOverlap
                 /\ in.kind = "bind" => Bindable(in.identity)
       IN req' = [req EXCEPT ![s] =
            IF ~ok THEN [pc |-> "done", in |-> in, answer |-> "refused"]
            ELSE [pc |-> IF in.kind = "rotate" THEN "retire" ELSE in.kind, in |-> in, now |-> clock,
                  new |-> NewKey(in.ws, IF in.kind = "revoke" THEN None ELSE in.subject)]]
    /\ UNCHANGED <<clock, workload, limiter, rows, guard, cache, held, published, logins, cookie>>

\* Rotate reads the clock again for the retirement time.
RotateRetire(s) ==
    /\ At(s, "retire")
    /\ Keep(s, "rotate", [retire |-> clock + req[s].in.overlap])
    /\ UNCHANGED <<clock, workload, limiter, rows, guard, cache, held, published, logins, cookie>>

RevokedOnly(r, created) == r.revoked = Never /\ r.expires > created   \* mutant
Rotatable(r, created) == r.revoked = Never /\ r.retire = Never /\ r.by = Never /\ r.expires > created

\* The rows each statement leaves, as a set of at most one: none when it does not apply.
HasMember(in) == <<in.ws, in.subject>> \in DOMAIN rows.members
StoredKey(in) == in.key \in DOMAIN rows.keys /\ rows.keys[in.key].ws = in.ws

CreateAPIKey(s, q) == IF HasMember(q.in) THEN {[rows EXCEPT !.keys = With(@, s, q.new)]} ELSE {}

RotateAPIKey(s, q) ==
    LET in == q.in IN
    IF /\ HasMember(in) /\ StoredKey(in) /\ q.retire >= q.new.created
       /\ Rotatable(rows.keys[in.key], q.new.created) /\ rows.keys[in.key].subject = in.subject
    THEN {[rows EXCEPT !.keys = With([@ EXCEPT ![in.key].retire = q.retire, ![in.key].by = s], s, q.new)]}
    ELSE {}

RevokeAPIKey(q) ==
    IF StoredKey(q.in) /\ rows.keys[q.in.key].revoked = Never
    THEN {[rows EXCEPT !.keys[q.in.key].revoked = q.now]} ELSE {}

\* CreateOIDCBinding and CreateCloudIdentityBinding: one binding per external identity.
CreateBinding(q) ==
    IF HasMember(q.in) /\ q.in.identity \notin DOMAIN rows.bindings
    THEN {[rows EXCEPT !.bindings = With(@, q.in.identity, [ws |-> q.in.ws, subject |-> q.in.subject])]} ELSE {}

Statement(s) ==
    LET q == req[s] IN
    CASE q.in.kind = "issue" -> CreateAPIKey(s, q) [] q.in.kind = "rotate" -> RotateAPIKey(s, q)
      [] q.in.kind = "revoke" -> RevokeAPIKey(q) [] q.in.kind = "bind" -> CreateBinding(q)

\* One workspace transaction; its commit may be reported as an error although it happened.
AdminCommit(s) ==
    /\ req[s].pc \in {"issue", "rotate", "revoke", "bind"}
    /\ \/ \E r \in Statement(s) : rows' = r /\ (Answer(s, "ok") \/ Answer(s, "unknown"))
       \/ UNCHANGED rows /\ Answer(s, "refused")
    /\ UNCHANGED <<clock, workload, limiter, guard, cache, held, published, logins, cookie>>

\* Another administrator changes or removes a membership (external): a removal cascades.
ChangeMembership(s, in) ==
    /\ Starts(s, in) /\ in.kind = "member"
    /\ req' = [req EXCEPT ![s] = [pc |-> "done", in |-> in, answer |-> "ok"]]
    /\ LET theirs(f) == {x \in DOMAIN f : f[x].ws = in.ws /\ f[x].subject = in.subject}
       IN rows' = IF in.newRole = None
                  THEN [members |-> Without(rows.members, {<<in.ws, in.subject>>}),
                        keys |-> Without(rows.keys, theirs(rows.keys)),
                        bindings |-> Without(rows.bindings, theirs(rows.bindings))]
                  ELSE [rows EXCEPT !.members = With(@, <<in.ws, in.subject>>, in.newRole)]
    /\ UNCHANGED <<clock, workload, limiter, guard, cache, held, published, logins, cookie>>

(***************************************************************************)
(* Provider keys (providerKeyWithFetcher): one mutex per provider, held    *)
(* while its key set is fetched; the cache is stamped with the time before *)
(* the fetch and replaced as a whole.                                      *)
(***************************************************************************)
OwnNonce == -1   \* the nonce the provider was given by the login that the callback completes
Token(s) == IF req[s].in.kind = "callback" /\ req[s].in.token.nonce = OwnNonce
            THEN [req[s].in.token EXCEPT !.nonce = req[s].nonce] ELSE req[s].in.token

Inspect(s) ==
    /\ At(s, "inspect")
    /\ IF Inspected(Token(s), Providers[ProviderOf(req[s].in)]) THEN Goto(s, "key") /\ UNCHANGED cookie ELSE Refuse(s)
    /\ UNCHANGED <<clock, workload, limiter, rows, guard, cache, held, published, logins>>

StaleTolerated(p, kid) == kid \in cache[p].keys   \* mutant
CacheHit(p, kid) == clock < cache[p].fetchedAt + Providers[p].cacheTTL /\ kid \in cache[p].keys

ProviderKey(s) ==
    /\ At(s, "key")
    /\ LET p == ProviderOf(req[s].in) IN
       /\ held[p] = 0
       /\ IF CacheHit(p, Token(s).kid) THEN Keep(s, "verify", [keyAt |-> clock]) /\ UNCHANGED held
          ELSE Keep(s, "fetch", [now |-> clock]) /\ held' = [held EXCEPT ![p] = s]
    /\ UNCHANGED <<clock, workload, limiter, rows, guard, cache, published, logins, cookie>>

\* Discovery and the key set, or any failure on the way; the mutex is released either way.
FetchKeys(s) ==
    /\ At(s, "fetch")
    /\ LET p == ProviderOf(req[s].in)
           keys == published[p].keys
       IN /\ held' = [held EXCEPT ![p] = 0]
          /\ \/ /\ keys # {} /\ Cardinality(keys) <= Providers[p].maxKeys
                /\ cache' = [cache EXCEPT ![p] = [keys |-> keys, fetchedAt |-> req[s].now]]
                /\ IF Token(s).kid \in keys THEN Keep(s, "verify", [keyAt |-> clock]) /\ UNCHANGED cookie ELSE Refuse(s)
             \/ UNCHANGED cache /\ Refuse(s)
    /\ UNCHANGED <<clock, workload, limiter, rows, guard, published, logins>>

\* The provider stops publishing a key (external).
Withdraw(s, in) ==
    /\ Starts(s, in) /\ in.kind = "withdraw" /\ in.kid \in published[in.provider].keys
    /\ published' = [published EXCEPT ![in.provider] = [keys |-> @.keys \ {in.kid}, gone |-> With(@.gone, in.kid, clock)]]
    /\ req' = [req EXCEPT ![s] = [pc |-> "done", in |-> in, answer |-> "ok"]]
    /\ UNCHANGED <<clock, workload, limiter, rows, guard, cache, held, logins, cookie>>

(***************************************************************************)
(* Verification: of ID tokens, and of the three kinds of cloud proof.      *)
(***************************************************************************)
TokenVerify(s) ==
    /\ At(s, "verify")
    /\ LET in == req[s].in
           p == Providers[ProviderOf(in)]
           principal == IF in.kind = "gcp" THEN VerifyGoogle(Token(s), p, clock) ELSE VerifyEntra(Token(s), p, clock)
           browser == in.kind = "callback"
       IN IF in.kind \in {"oidc", "callback"}
          THEN IF OIDCTokenOK(Token(s), p, clock, IF browser THEN req[s].nonce ELSE NoNonce, ~browser, browser)
               THEN Goto(s, "lookup") /\ UNCHANGED cookie ELSE Refuse(s)
          ELSE \/ \E c \in principal : Keep(s, "principal", [principal |-> c]) /\ UNCHANGED cookie
               \/ principal = {} /\ Refuse(s)
    /\ UNCHANGED <<clock, workload, limiter, rows, guard, cache, held, published, logins>>

ParseProof(s) ==
    /\ At(s, "parse")
    /\ IF AWSProofOK(req[s].in.proof, STS, clock) THEN Goto(s, "sts") /\ UNCHANGED cookie ELSE Refuse(s)
    /\ UNCHANGED <<clock, workload, limiter, rows, guard, cache, held, published, logins>>

\* STS answers with the caller's identity, or the call fails or times out.
CallSTS(s) ==
    /\ At(s, "sts")
    /\ \/ \E c \in NormalizeAWS(req[s].in.proof, req[s].in.proof.answer, STS) :
            Keep(s, "principal", [principal |-> c]) /\ UNCHANGED cookie
       \/ Refuse(s)
    /\ UNCHANGED <<clock, workload, limiter, rows, guard, cache, held, published, logins>>

\* CloudIdentityService.Exchange reads its own clock after the verifier has answered.
CheckPrincipal(s) ==
    /\ At(s, "principal")
    /\ IF CloudPrincipalOK(req[s].principal, clock) THEN Goto(s, "lookup") /\ UNCHANGED cookie ELSE Refuse(s)
    /\ UNCHANGED <<clock, workload, limiter, rows, guard, cache, held, published, logins>>

\* The binding of the verified identity in the workspace the endpoint is fixed to.
Identity(s) ==
    LET in == req[s].in
        ws == IF in.kind = "callback" THEN req[s].ws ELSE in.ws
    IN IF in.kind \in {"oidc", "callback"} THEN <<ws, Token(s).iss, Token(s).sub>>
       ELSE <<ws, req[s].principal.provider, req[s].principal.realm, req[s].principal.sub>>

MembershipLookup(s) ==
    /\ At(s, "lookup")
    /\ \/ /\ Identity(s) \in DOMAIN rows.bindings
          /\ \E m \in MemberOf(rows.bindings[Identity(s)].ws, rows.bindings[Identity(s)].subject) :
               /\ MembershipValid(m)
               /\ Keep(s, IF req[s].in.kind \in CloudProviders THEN "precheck" ELSE "sign", [member |-> m])
          /\ UNCHANGED cookie
       \/ Refuse(s)
    /\ UNCHANGED <<clock, workload, limiter, rows, guard, cache, held, published, logins>>

(***************************************************************************)
(* The replay guard: the expiry is compared with the clock before the      *)
(* mutex is taken, and the clock is read again under it.                   *)
(***************************************************************************)
GuardPrecheck(s) ==
    /\ At(s, "precheck")
    /\ IF req[s].principal.exp > clock THEN Goto(s, "consume") /\ UNCHANGED cookie ELSE Refuse(s)
    /\ UNCHANGED <<clock, workload, limiter, rows, guard, cache, held, published, logins>>

OldestPurged(g) == IF Cardinality(DOMAIN g) >= GuardCapacity THEN << >> ELSE g   \* mutant
Purged(g) == Without(g, {d \in DOMAIN g : g[d] <= clock})

Consume(s) ==
    /\ At(s, "consume")
    /\ LET g == Purged(guard)
           d == ProofId(req[s].in)
       IN IF d \in DOMAIN g \/ Cardinality(DOMAIN g) >= GuardCapacity
          THEN guard' = g /\ Refuse(s)
          ELSE guard' = With(g, d, req[s].principal.exp) /\ Keep(s, "sign", [spentAt |-> clock]) /\ UNCHANGED cookie
    /\ UNCHANGED <<clock, workload, limiter, rows, cache, held, published, logins>>

(***************************************************************************)
(* The browser login: one transaction per login, named by the cookie.      *)
(***************************************************************************)
LiveLogins == Without(logins, {l \in DOMAIN logins : clock >= logins[l].expires})

\* Login reads the clock for the expiry, stores the transaction, and asks the provider where to go.
LoginStore(s) ==
    /\ At(s, "store")
    /\ LET room == Cardinality(DOMAIN LiveLogins) < MaxTransactions
           t == [ws |-> req[s].in.ws, state |-> s, nonce |-> s, expires |-> clock + TransactionTTL]
       IN /\ logins' = IF room THEN With(LiveLogins, s, t) ELSE LiveLogins
          /\ IF room THEN Keep(s, "url", [expires |-> t.expires]) ELSE Answer(s, "limited")
    /\ UNCHANGED <<clock, workload, limiter, rows, guard, cache, held, published, cookie>>

LoginRedirect(s) ==
    /\ At(s, "url")
    /\ \/ Answer(s, "redirect") /\ cookie' = s /\ UNCHANGED logins
       \/ Answer(s, "refused") /\ logins' = Without(logins, {s}) /\ UNCHANGED cookie
    /\ UNCHANGED <<clock, workload, limiter, rows, guard, cache, held, published>>

Taken(f, S) == Without(f, S)

\* takeTransaction deletes before it compares expiry and state.
CallbackTake(s) ==
    /\ At(s, "take")
    /\ LET c == req[s].cookie IN
       IF c = NoCookie \/ c \notin DOMAIN logins THEN Refuse(s) /\ UNCHANGED logins
       ELSE /\ logins' = Taken(logins, {c})
            /\ IF clock < logins[c].expires /\ logins[c].state = req[s].state
               THEN Keep(s, "code", [nonce |-> logins[c].nonce, ws |-> logins[c].ws, takenAt |-> clock]) /\ UNCHANGED cookie
               ELSE Refuse(s)
    /\ UNCHANGED <<clock, workload, limiter, rows, guard, cache, held, published>>

\* The provider redeems the code for an ID token, whose nonce may not be the login's, or refuses.
CallbackCode(s) ==
    /\ At(s, "code")
    /\ (Goto(s, "inspect") /\ UNCHANGED cookie) \/ Refuse(s)
    /\ UNCHANGED <<clock, workload, limiter, rows, guard, cache, held, published, logins>>

(***************************************************************************)
(* Sessions: signed, handed over if still alive, and trusted by the        *)
(* authentication middleware.                                              *)
(***************************************************************************)
SignSession(s) ==
    /\ At(s, "sign")
    /\ IF NewPrincipal(req[s].member) = {} THEN Refuse(s)
       ELSE Keep(s, "respond", [token |-> IssuedSession(NewPrincipal(req[s].member), clock, SessionLife)]) /\ UNCHANGED cookie
    /\ UNCHANGED <<clock, workload, limiter, rows, guard, cache, held, published, logins>>

Respond(s) ==
    /\ At(s, "respond")
    /\ LET exp == req[s].token.exp
           alive == IF req[s].in.kind = "callback" THEN exp > clock ELSE exp >= clock
       IN IF alive THEN Answer(s, "session") /\ cookie' = (IF req[s].in.kind = "callback" THEN NoCookie ELSE cookie) ELSE Refuse(s)
    /\ UNCHANGED <<clock, workload, limiter, rows, guard, cache, held, published, logins>>

\* A request with the session of slot x for a workspace: Verify, then the scope of its signed claims.
Call(s, in, x) ==
    /\ Starts(s, in) /\ in.kind = "call" /\ x \in Slots /\ At(x, "done") /\ req[x].answer = "session"
    /\ LET t == req[x].token
           ok == SessionOK(t, clock, Leeway, SessionLife) /\ Scope(t.members, in.ws) # {}
       IN req' = [req EXCEPT ![s] = [pc |-> "done", in |-> in, answer |-> IF ok THEN "accepted" ELSE "refused",
                                     by |-> x, begun |-> clock]]
    /\ UNCHANGED <<clock, workload, limiter, rows, guard, cache, held, published, logins, cookie>>

Tick == clock < workload.ticks /\ clock' = clock + 1
        /\ UNCHANGED <<workload, req, limiter, rows, guard, cache, held, published, logins, cookie>>

\* A request that has started and has not been answered takes its next step.
RequestStep(s) ==
    \/ KeyLookup(s) \/ KeyCheck(s) \/ RotateRetire(s) \/ AdminCommit(s)
    \/ Inspect(s) \/ ProviderKey(s) \/ FetchKeys(s) \/ TokenVerify(s) \/ ParseProof(s) \/ CallSTS(s) \/ CheckPrincipal(s)
    \/ MembershipLookup(s) \/ GuardPrecheck(s) \/ Consume(s)
    \/ LoginStore(s) \/ LoginRedirect(s) \/ CallbackTake(s) \/ CallbackCode(s)
    \/ SignSession(s) \/ Respond(s)

Next ==
    \/ \E s \in Slots : RequestStep(s)
    \/ \E s \in Slots, in \in workload.inputs :
         \/ \E l \in Slots \cup {0} : Admit(s, in, l)
         \/ \E x \in Slots : Call(s, in, x)
         \/ AdminBegin(s, in) \/ ChangeMembership(s, in) \/ Withdraw(s, in)
    \/ Tick

Spec == Init /\ [][Next]_vars

(***************************************************************************)
(* Properties.                                                             *)
(***************************************************************************)
Signed(s) == "token" \in DOMAIN req[s]
Has(s, field) == field \in DOMAIN req[s]

\* A revocation, retirement, expiry or removal of the owner that was committed when an exchange began
\* is never overlooked by it (Exchange, LookupAPIKey), whatever rotations, removals and returns of the
\* member run beside it; and the sessions already signed stop being accepted with their lifetime.
RevocationHolds ==
    \A s \in Slots :
        /\ Signed(s) /\ req[s].in.kind = "key" => req[s].live
        /\ Has(s, "by") /\ req[s].answer = "accepted" => req[s].begun < req[req[s].by].token.iat + SessionLife + Leeway

\* A key has at most one successor (RotateAPIKey): of any number of concurrent rotations of one key
\* one commits, and the key it replaced is retired and names it.
OneSuccessor ==
    \A s, x \in Slots \cap DOMAIN rows.keys :
        req[s].in.kind = "rotate" =>
          /\ req[x].in.kind = "rotate" /\ req[x].in.key = req[s].in.key => x = s
          /\ req[s].in.key \in DOMAIN rows.keys =>
               rows.keys[req[s].in.key].by = s /\ rows.keys[req[s].in.key].retire # Never

\* AttemptLimiter.Allow: fixed windows let at most 2 * attempts - 1 requests of one address through in
\* any stretch of one window's length, and no eviction from the full table ever resets a running window.
AttemptsBounded ==
    /\ Cardinality(DOMAIN limiter) <= MaxAddresses
    /\ \A t \in 0..workload.ticks, s \in Slots : Has(s, "begun") /\ Has(s, "state") =>
         Cardinality({x \in Slots : Has(x, "begun") /\ Has(x, "state") /\ req[x].in.addr = req[s].in.addr
                                    /\ req[x].begun \in (t - Window + 1)..t}) <= 2 * Attempts - 1

\* MemoryCloudReplayGuard.Consume: a proof is not spent a second time before its verified expiry,
\* although the expiry is compared before the mutex and entries are purged under it.
ProofSpentOnce ==
    \A s, x \in Slots : s # x /\ Has(s, "spentAt") /\ Has(x, "spentAt") /\ ProofId(req[s].in) = ProofId(req[x].in) =>
        req[s].spentAt >= req[s].principal.exp \/ req[x].spentAt >= req[s].principal.exp

\* providerKeyWithFetcher: a token is never verified with a key its provider withdrew longer ago than
\* the cache lifetime, whoever filled the cache and however long a fetch took.
TrustedKeyFresh ==
    \A s \in Slots : Has(s, "keyAt") =>
        LET p == ProviderOf(req[s].in)
            kid == req[s].in.token.kid
        IN kid \in DOMAIN published[p].gone => req[s].keyAt < published[p].gone[kid] + Providers[p].cacheTTL

\* BrowserOIDCHandler: a login yields at most one session, in its own workspace and within its time,
\* whatever callbacks are repeated, delayed, or sent by another tab with the same cookie.
LoginRedeemedOnce ==
    \A s, x \in Slots : Signed(s) /\ req[s].in.kind = "callback" =>
        LET l == req[s].state IN
        /\ Signed(x) /\ req[x].in.kind = "callback" /\ req[x].state = l => x = s
        /\ req[s].member.ws = req[l].in.ws /\ req[s].takenAt < req[l].expires

\* What is to be used once is used once, though the expiry is looked at before the lock that spends it:
\* a cloud proof (MemoryCloudReplayGuard.Consume) and a browser login (BrowserOIDCHandler's callback).
SpentOnce == ProofSpentOnce /\ LoginRedeemedOnce
=============================================================================
