----------------------------- MODULE AccessIdentity -----------------------------
(***************************************************************************)
(* Who a request of the dashboard comes from and what role it has          *)
(* (conductor-server/src/routes/config.rs): the headers of the web proxy,  *)
(* or a Cloudflare Access token, whose signing keys are fetched and        *)
(* cached, then the allow list, the bindings of roles and the default.     *)
(*                                                                         *)
(* DomainOf says what the domain of an email is.  A signature is valid when   *)
(* the key the token names is among the keys; the texts of reasons are     *)
(* left out.                                                               *)
(***************************************************************************)
EXTENDS Naturals, FiniteSets

CONSTANTS
    Asked,      \* clients: the headers of their request
    DomainOf,   \* emails: their domain
    Access,     \* [enabled, provider, team, audience, requireAuth, defaultRole, roles]
    Env,        \* CONDUCTOR_*: [secret, emails, domains, admins]
    Rotations,  \* the sets of keys that are published one after the other
    MaxAges,    \* times the cache expires
    Faults      \* of "fetch"

Clients == DOMAIN Asked
None == "none"
AccessAssumption ==
    /\ Faults \subseteq {"fetch"} /\ MaxAges \in Nat
    /\ \A c \in Clients : DOMAIN Asked[c] = {"proxy", "token", "email"}

VARIABLES
    published,  \* the index in Rotations of the keys that are published
    cache,      \* CLOUDFLARE_JWKS_CACHE: [keys, fresh]
    ages,       \* times the cache expired
    at,         \* clients: where
    keys,       \* clients: the keys they were given
    identity,   \* clients: who they are
    live        \* clients: the keys published ever since they asked

vars == <<published, cache, ages, at, keys, identity, live>>
Published == Rotations[published]
Nobody == [authenticated |-> FALSE, role |-> None, email |-> None, why |-> None]

Init ==
    /\ published = 1 /\ cache = [keys |-> {}, fresh |-> FALSE] /\ ages = 0
    /\ at = [c \in Clients |-> "new"] /\ keys = [c \in Clients |-> {}]
    /\ identity = [c \in Clients |-> Nobody] /\ live = [c \in Clients |-> {}]

Go(c, where) == at' = [at EXCEPT ![c] = where] /\ UNCHANGED identity
Is(c, who) == at' = [at EXCEPT ![c] = "done"] /\ identity' = [identity EXCEPT ![c] = who]

-----------------------------------------------------------------------------
\* Roles.
AuthRequired == Access.requireAuth \/ Env.emails # {} \/ Env.domains # {} \/ Env.admins # {}
Matches(email, emails, domains) == email \in emails \/ DomainOf[email] \in domains
Bound == \E r \in DOMAIN Access.roles : Access.roles[r] # [emails |-> {}, domains |-> {}]
Explicit == Bound \/ Env.admins # {} \/ Env.emails # {} \/ Env.domains # {}

\* The allow list of the environment makes operators.
Emails(role) ==
    Access.roles[role].emails
        \cup (CASE role = "admin" -> Env.admins [] role = "operator" -> Env.emails [] OTHER -> {})
Domains(role) == Access.roles[role].domains \cup (IF role = "operator" THEN Env.domains ELSE {})
Holds(email, role) == Matches(email, Emails(role), Domains(role))
RoleOf(email) ==
    CASE Holds(email, "admin") -> "admin"
      [] Holds(email, "operator") -> "operator"
      [] Holds(email, "viewer") -> "viewer"
      [] Access.defaultRole \in {"admin", "operator", "viewer"} -> Access.defaultRole
      [] OTHER -> IF Explicit THEN None ELSE "operator"

\* An email that is listed passes only if its domain is, when domains are.
OnTheList(email) ==
    /\ Env.emails # {} => email \in Env.emails \cup Env.admins
    /\ Env.domains # {} => DomainOf[email] \in Env.domains
Listed(email) == (Env.emails = {} /\ Env.domains = {} /\ Env.admins = {}) \/ OnTheList(email)

Granted(email) ==
    [authenticated |-> TRUE, email |-> email,
     role |-> IF Listed(email) THEN RoleOf(email) ELSE None,
     why |-> IF ~Listed(email) THEN "not listed" ELSE IF RoleOf(email) = None THEN "not bound" ELSE None]
NotGranted(email, why) == [Nobody EXCEPT !.email = email, !.why = why]
\* Without a token that counts.
Fallback == IF AuthRequired THEN NotGranted(None, "required") ELSE [Nobody EXCEPT !.role = "admin", !.email = "local"]

-----------------------------------------------------------------------------
\* A request: headers of the proxy count only with its secret.
FromProxy(c) == Env.secret # None /\ Asked[c].proxy.secret = Env.secret
Ask(c) ==
    /\ at[c] = "new" /\ live' = [live EXCEPT ![c] = Published]
    /\ LET a == Asked[c] IN
       IF FromProxy(c) THEN Is(c, a.proxy.identity)
       ELSE IF ~Access.enabled THEN Is(c, Fallback)
       ELSE IF Access.provider = "generic" THEN Is(c, NotGranted(a.email, "removed"))
       ELSE IF a.token.alg = None THEN Is(c, Fallback)
       ELSE IF None \in {Access.team, Access.audience} THEN Is(c, NotGranted(a.email, "no team"))
       ELSE IF a.token.alg # "RSA" THEN Is(c, NotGranted(a.email, "algorithm"))
       ELSE Go(c, "look")
    /\ UNCHANGED <<published, cache, ages, keys>>

\* get_cloudflare_jwks
CacheHit(c) ==
    /\ at[c] = "look" /\ cache.fresh /\ Go(c, "select")
    /\ keys' = [keys EXCEPT ![c] = cache.keys]
    /\ UNCHANGED <<published, cache, ages, live>>
CacheMiss(c) ==
    /\ at[c] = "look" /\ ~cache.fresh /\ Go(c, "fetch")
    /\ UNCHANGED <<published, cache, ages, keys, live>>
Fetching == {"fetch", "refetch"}
FetchFails(c) == Is(c, NotGranted(Asked[c].email, "fetch"))
Fetch(c) ==
    /\ at[c] \in Fetching
    /\ \/ /\ Go(c, IF at[c] = "fetch" THEN "store" ELSE "restore")
          /\ keys' = [keys EXCEPT ![c] = Published]
       \/ "fetch" \in Faults /\ FetchFails(c) /\ UNCHANGED keys
    /\ UNCHANGED <<published, cache, ages, live>>
Store(c) ==
    /\ at[c] \in {"store", "restore"} /\ Go(c, IF at[c] = "store" THEN "select" ELSE "reselect")
    /\ cache' = [keys |-> keys[c], fresh |-> TRUE]
    /\ UNCHANGED <<published, ages, keys, live>>

\* The key a token names, or the only one there is.
Selected(c) ==
    LET rsa == {k \in keys[c] : k.kty = "RSA"} IN
    IF Asked[c].token.kid # None THEN {k \in rsa : k.kid = Asked[c].token.kid}
    ELSE IF Cardinality(rsa) = 1 THEN rsa ELSE {}

\* validate_cloudflare_claims and the claims that name the email
ClaimsFit(t) == t.iss = Access.team /\ Access.audience \in t.aud /\ t.when = "now"
EmailOf(t) == IF t.email # None THEN t.email ELSE t.sub
ByCacheOnly(c) ==
    /\ at[c] \in {"select", "reselect"}
    /\ LET t == Asked[c].token
           header == Asked[c].email IN
       IF Selected(c) = {} \/ ~ClaimsFit(t)
       THEN Is(c, NotGranted(header, IF Selected(c) = {} THEN "no key" ELSE "claims"))
       ELSE Is(c, Granted(EmailOf(t)))
    /\ UNCHANGED <<published, cache, ages, keys, live>>
Select(c) ==
    /\ at[c] \in {"select", "reselect"}
    /\ LET t == Asked[c].token
           header == Asked[c].email IN
       IF Selected(c) = {}
       THEN IF at[c] = "select" THEN Go(c, "refetch") ELSE Is(c, NotGranted(header, "no key"))
       ELSE IF ~ClaimsFit(t) THEN Is(c, NotGranted(header, "claims"))
       ELSE IF EmailOf(t) = None THEN Is(c, NotGranted(header, "no email"))
       ELSE IF header # None /\ header # EmailOf(t) THEN Is(c, NotGranted(header, "other email"))
       ELSE IF RoleOf(EmailOf(t)) = None /\ Listed(EmailOf(t)) /\ ~Explicit THEN Is(c, Fallback)
       ELSE Is(c, Granted(EmailOf(t)))
    /\ UNCHANGED <<published, cache, ages, keys, live>>

\* Cloudflare rotates its keys; the entry in the cache expires.
Rotate ==
    /\ published < Cardinality(DOMAIN Rotations) /\ published' = published + 1
    /\ live' = [c \in Clients |-> live[c] \cap Rotations[published + 1]]
    /\ UNCHANGED <<cache, ages, at, keys, identity>>
Expire ==
    /\ cache.fresh /\ ages < MaxAges /\ ages' = ages + 1
    /\ cache' = [cache EXCEPT !.fresh = FALSE]
    /\ UNCHANGED <<published, at, keys, identity, live>>

Next ==
    \/ \E c \in Clients :
        Ask(c) \/ CacheHit(c) \/ CacheMiss(c) \/ Fetch(c) \/ Store(c) \/ Select(c)
    \/ Rotate \/ Expire
Spec == Init /\ [][Next]_vars
FairSpec ==
    /\ Spec
    /\ \A c \in Clients :
        WF_vars(Ask(c) \/ CacheHit(c) \/ CacheMiss(c) \/ Fetch(c) \/ Store(c) \/ Select(c))

-----------------------------------------------------------------------------
TypeOK ==
    /\ published \in DOMAIN Rotations /\ cache.fresh \in BOOLEAN
    /\ \A c \in Clients :
        /\ DOMAIN identity[c] = DOMAIN Nobody
        /\ identity[c].role \in {"admin", "operator", "viewer", None}
        /\ identity[c] # Nobody => at[c] = "done"

\* Rotating keys turns nobody away: a token whose key was published all the
\* while is not refused for want of it, however old the cache is and whoever
\* stores an older answer in it meanwhile.
KeyIsFound ==
    \A c \in Clients : at[c] = "done" /\ identity[c].why = "no key" =>
        Asked[c].token.kid \notin {k.kid : k \in live[c]}

\* Whoever has a role was told by the proxy, proved an email that is allowed
\* and bound to nothing higher, or is local where nobody needs to sign in.
RoleIsEarned ==
    \A c \in Clients : at[c] = "done" /\ identity[c].role # None =>
        \/ FromProxy(c)
        \/ ~AuthRequired /\ identity[c].email = "local"
        \/ /\ identity[c].authenticated /\ ClaimsFit(Asked[c].token)
           /\ identity[c].email = EmailOf(Asked[c].token) /\ Listed(identity[c].email)
           /\ \A r \in {"admin", "operator"} :
                Holds(identity[c].email, r) => identity[c].role \in {"admin", r}

\* Every request is answered.
Answered == \A c \in Clients : <>(at[c] = "done")
=============================================================================
