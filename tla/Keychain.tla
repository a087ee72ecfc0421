------------------------------- MODULE Keychain ------------------------------
(***************************************************************************)
(* Key providers (one per request of knitd_backend) that share a keychain: *)
(* a Secret of Kubernetes with the keys, and a row of the database that is *)
(* locked while a key is issued.  A key is given out with a token, which   *)
(* has to be verifiable until the end of the import it is for.             *)
(***************************************************************************)
EXTENDS Naturals

CONSTANTS
    Provider, NoOne, \* NoOne: no provider
    Kid, NoKid, \* bound: the ids of the keys that can be issued; none of them
    TTL,      \* how long a key lives
    Need,     \* how long a token has to be verifiable
    MaxTime   \* bound: the last moment of the clock

ASSUME KeychainAssumption ==
    /\ NoOne \notin Provider /\ NoKid \notin Kid
    /\ TTL \in Nat /\ Need \in Nat \ {0} /\ MaxTime \in Nat

VARIABLES
    now,
    secret,   \* [Kid -> when the key expires], 0 if it is not in the Secret
    issued,   \* the ids in use
    hasRow,   \* whether the keychain has its row in the database
    holder,   \* who has locked the row, or inserted it and not committed
    asks,
    kc,       \* [Provider -> the keychain as it was read]
    kid,      \* [Provider -> the key it found or issued]
    until,    \* [Provider -> until when it needs its key]
    tokens    \* what was given out: [kid, until]

local == <<asks, kc, kid, until>>
keychainVars == <<now, secret, issued, hasRow, holder, local, tokens>>

Keys == [Kid -> Nat]

KeychainTypeOK ==
    /\ now \in 0..MaxTime /\ secret \in Keys /\ issued \subseteq Kid
    /\ hasRow \in BOOLEAN /\ holder \in Provider \cup {NoOne}
    /\ asks \in [Provider -> {"idle", "read", "get", "lock", "insert", "issue", "update", "commit"}]
    /\ kc \in [Provider -> Keys] /\ kid \in [Provider -> Kid \cup {NoKid}]
    /\ until \in [Provider -> Nat]
    /\ tokens \subseteq [kid : Kid, until : Nat]

KeychainInit ==
    /\ now = 0 /\ secret = [k \in Kid |-> 0] /\ issued = {} /\ hasRow = FALSE /\ holder = NoOne
    /\ asks = [p \in Provider |-> "idle"] /\ kc = [p \in Provider |-> secret]
    /\ kid = [p \in Provider |-> NoKid] /\ until = [p \in Provider |-> 0] /\ tokens = {}

Proceed(p, l) == asks' = [asks EXCEPT ![p] = l]

Ask(p) ==
    /\ asks[p] = "idle" /\ Proceed(p, "read") /\ until' = [until EXCEPT ![p] = now + Need]
    /\ UNCHANGED <<now, secret, issued, hasRow, holder, kc, kid, tokens>>

GetKeychain(p) ==
    /\ asks[p] = "read" /\ Proceed(p, "get") /\ kc' = [kc EXCEPT ![p] = secret]
    /\ UNCHANGED <<now, secret, issued, hasRow, holder, kid, until, tokens>>

\* Mutant: a key that is not expired yet will do.
WithExpAfter_Now(p, exp) == exp > now
WithExpAfter(p, exp) == exp > until[p]

\* The expiration time of a key that is issued now.
Exp == now + TTL

\* Mutant: the requirements of the caller are lost, no key meets them.
Satisfying_None(p) == {}
Satisfying(p) == {k \in Kid : WithExpAfter(p, kc[p][k])}

Give(p, k) == tokens' = tokens \cup {[kid |-> k, until |-> until[p]]}

\* A key of the keychain that was read satisfies the requirements.
GetKey(p) ==
    /\ asks[p] = "get" /\ \E k \in Satisfying(p) : Give(p, k)
    /\ Proceed(p, "idle")
    /\ UNCHANGED <<now, secret, issued, hasRow, holder, kc, kid, until>>

\* None does.  The row is to be locked; if the query sees none it inserts it.
NoKey(p) ==
    /\ asks[p] = "get" /\ Satisfying(p) = {} /\ Proceed(p, IF hasRow THEN "lock" ELSE "insert")
    /\ UNCHANGED <<now, secret, issued, hasRow, holder, kc, kid, until, tokens>>

LockRow(p) ==
    /\ asks[p] = "lock" /\ holder = NoOne /\ holder' = p /\ Proceed(p, "issue")
    /\ UNCHANGED <<now, secret, issued, hasRow, kc, kid, until, tokens>>

\* Mutant: whoever inserts the row is on its own.
Insert_Alone(p) ==
    /\ asks[p] = "insert" /\ Proceed(p, "issue") /\ holder' = p
    /\ UNCHANGED <<now, secret, issued, hasRow, kc, kid, until, tokens>>

\* Who meets a row that another has inserted meanwhile gets no row: an error.
Insert(p) ==
    /\ asks[p] = "insert" /\ holder = NoOne
    /\ IF hasRow THEN Proceed(p, "idle") /\ UNCHANGED holder
                 ELSE Proceed(p, "issue") /\ holder' = p
    /\ UNCHANGED <<now, secret, issued, hasRow, kc, kid, until, tokens>>

\* Mutant: the transaction is not rolled back.
Rollback_Not(p) == Proceed(p, "idle") /\ UNCHANGED holder
Rollback(p) == Proceed(p, "idle") /\ holder' = NoOne

\* Mutant: the key that was issued is not the one that is given out.
Remember_Not(p, k) == k \in Kid /\ UNCHANGED kid
Remember(p, k) == kid' = [kid EXCEPT ![p] = k]

\* The new key goes into the keychain as it was read, unless it is too
\* short-lived itself (ErrBadNewKey).
Issue(p) ==
    /\ asks[p] = "issue"
    /\ IF WithExpAfter(p, Exp)
       THEN \E k \in Kid \ issued :
                /\ issued' = issued \cup {k} /\ Remember(p, k)
                /\ kc' = [kc EXCEPT ![p][k] = Exp]
                /\ Proceed(p, "update") /\ UNCHANGED holder
       ELSE Rollback(p) /\ UNCHANGED <<issued, kc, kid>>
    /\ UNCHANGED <<now, secret, hasRow, until, tokens>>

Unexpired(keys) == [k \in Kid |-> IF keys[k] > now THEN keys[k] ELSE 0]

\* The whole Secret is replaced.
Update(p) ==
    /\ asks[p] = "update" /\ Proceed(p, "commit") /\ secret' = Unexpired(kc[p])
    /\ UNCHANGED <<now, issued, hasRow, holder, kc, kid, until, tokens>>

CommitRow(p) ==
    /\ asks[p] = "commit" /\ Proceed(p, "idle") /\ holder' = NoOne /\ hasRow' = TRUE /\ Give(p, kid[p])
    /\ UNCHANGED <<now, secret, issued, kc, kid, until>>

\* Issue, Update or the commit is an error, or the process stops.
IssueFails(p) ==
    /\ asks[p] \in {"issue", "update", "commit"} /\ Rollback(p)
    /\ UNCHANGED <<now, secret, issued, hasRow, kc, kid, until, tokens>>

Tick ==
    /\ now < MaxTime /\ now' = now + 1
    /\ UNCHANGED <<secret, issued, hasRow, holder, local, tokens>>

Provide(p) ==
    \/ GetKeychain(p) \/ GetKey(p) \/ NoKey(p) \/ LockRow(p) \/ Insert(p)
    \/ Issue(p) \/ Update(p) \/ CommitRow(p) \/ IssueFails(p)

KeychainNext == Tick \/ \E p \in Provider : Ask(p) \/ Provide(p)

KeychainSpec == KeychainInit /\ [][KeychainNext]_keychainVars

-----------------------------------------------------------------------------
\* At most one key is good for a token asked for now: however many providers
\* miss one at the same time, they do not fill the keychain with keys.
OneFreshKey ==
    \A k, l \in Kid : secret[k] > now + Need /\ secret[l] > now + Need => k = l

\* "If and only if in the critical section, you can update the keychain."
\* (pkg/domain/keychain/db/keychain.go:16): the row excludes others, from the
\* first time on, when there is no row to lock yet.
LockExcludes ==
    \A p \in Provider : asks[p] \in {"issue", "update", "commit"} => holder = p

\* VerifyJWS finds the key of a token by its id, unless it is expired.
Verifies(t) == secret[t.kid] > now

\* dbKeychain: "With this, KeyProvider synchronizes Key rotatiton."
\* (cmd/knitd_backend/provider/keyProvider/keyprovider.go:46): a token is
\* verifiable until the time it was asked for, whoever else issues a key.
TokensVerify == \A t \in tokens : now <= t.until => Verifies(t)

\* The providers that have been asked for a key.
Acted == {p \in Provider : until[p] # 0}

\* It is, where one provider alone holds the keychain; whoever writes it holds
\* its lock, however many there are (KeyProvider.Provide).
TokensVerifyAlone ==
    /\ KeychainTypeOK /\ LockExcludes
    /\ (\A p, q \in Acted : p = q) => TokensVerify
=============================================================================
