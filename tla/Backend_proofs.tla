---------------------------- MODULE Backend_proofs ---------------------------
(***************************************************************************)
(* Proofs about what knitd_backend uses: the keychain, for any providers,  *)
(* keys and times; the streams of data, for any number of files and any    *)
(* room in a connection; uploads, whose data is done only when it is whole *)
(* and stays while it is read; walks of trees, of any size and with any    *)
(* links.                                                                  *)
(***************************************************************************)
EXTENDS Keychain, Transfer, Uploads, TreeWalk, Induction, SequenceTheorems, TLAPS

-----------------------------------------------------------------------------
(* The keychain: types, the lock, one fresh key at a time, and that tokens *)
(* can be verified as long as one provider is asked for them               *)

\* What a provider knows while it is at work: the key that it gives out is
\* one, and its keychain had no key good enough when it decided to issue.
Knows ==
    \A p \in Provider :
        /\ asks[p] \in {"update", "commit"} => kid[p] \in Kid
        /\ asks[p] # "idle" => until[p] <= now + Need
        /\ asks[p] \in {"lock", "insert", "issue"} => \A k \in Kid : kc[p][k] <= until[p]
        /\ asks[p] = "update" =>
              \A k, l \in Kid : kc[p][k] > now + Need /\ kc[p][l] > now + Need => k = l

KeychainInv == KeychainTypeOK /\ LockExcludes /\ Knows /\ OneFreshKey

LEMMA KeychainInitInv == KeychainInit => KeychainInv
<1>1. SUFFICES ASSUME KeychainInit PROVE KeychainInv
  OBVIOUS
<1>2. KeychainTypeOK
  <2>1. secret \in Keys
    BY <1>1 DEF KeychainInit, Keys
  <2>2. kc \in [Provider -> Keys]
    BY <1>1, <2>1 DEF KeychainInit
  <2>3. now \in 0..MaxTime
    BY <1>1, KeychainAssumption DEF KeychainInit
  <2>4. issued = {} /\ hasRow = FALSE /\ tokens = {}
    BY <1>1 DEF KeychainInit
  <2>5. asks = [p \in Provider |-> "idle"] /\ kid = [p \in Provider |-> NoKid]
        /\ until = [p \in Provider |-> 0] /\ holder = NoOne
    BY <1>1 DEF KeychainInit
  <2>6. QED
    BY <2>1, <2>2, <2>3, <2>4, <2>5 DEF KeychainTypeOK
<1>3. QED
  BY <1>1, <1>2, KeychainAssumption DEF KeychainInit, KeychainInv, LockExcludes, Knows, OneFreshKey

LEMMA TypeStep == ASSUME KeychainInv, [KeychainNext]_keychainVars PROVE KeychainTypeOK'
<1> USE KeychainAssumption DEF KeychainInv, KeychainTypeOK, Keys, Proceed, Rollback, Give
<1>1. ASSUME NEW p \in Provider, Ask(p) PROVE KeychainTypeOK'
  BY <1>1 DEF Ask
<1>2. ASSUME NEW p \in Provider, GetKeychain(p) PROVE KeychainTypeOK'
  BY <1>2 DEF GetKeychain
<1>3. ASSUME NEW p \in Provider, GetKey(p) PROVE KeychainTypeOK'
  BY <1>3 DEF GetKey, Satisfying
<1>4. ASSUME NEW p \in Provider, NoKey(p) PROVE KeychainTypeOK'
  BY <1>4 DEF NoKey
<1>5. ASSUME NEW p \in Provider, LockRow(p) PROVE KeychainTypeOK'
  BY <1>5 DEF LockRow
<1>6. ASSUME NEW p \in Provider, Insert(p) PROVE KeychainTypeOK'
  BY <1>6 DEF Insert
<1>7. ASSUME NEW p \in Provider, Issue(p) PROVE KeychainTypeOK'
  <2>1. CASE WithExpAfter(p, Exp)
    <3>1. PICK k \in Kid \ issued :
              /\ issued' = issued \cup {k} /\ kid' = [kid EXCEPT ![p] = k]
              /\ kc' = [kc EXCEPT ![p] = [kc[p] EXCEPT ![k] = Exp]]
              /\ asks' = [asks EXCEPT ![p] = "update"] /\ UNCHANGED holder
      BY <1>7, <2>1 DEF Issue, Remember
    <3>2. [kc[p] EXCEPT ![k] = Exp] \in [Kid -> Nat]
      BY <3>1 DEF Exp
    <3>3. kc' \in [Provider -> [Kid -> Nat]]
      BY <3>1, <3>2
    <3>4. UNCHANGED <<now, secret, hasRow, until, tokens>>
      BY <1>7 DEF Issue
    <3>5. QED
      BY <3>1, <3>3, <3>4
  <2>2. CASE ~ WithExpAfter(p, Exp)
    BY <1>7, <2>2 DEF Issue
  <2>3. QED
    BY <2>1, <2>2
<1>8. ASSUME NEW p \in Provider, Update(p) PROVE KeychainTypeOK'
  BY <1>8 DEF Update, Unexpired
<1>9. ASSUME NEW p \in Provider, CommitRow(p) PROVE KeychainTypeOK'
  BY <1>9 DEF CommitRow, Knows
<1>10. ASSUME NEW p \in Provider, IssueFails(p) PROVE KeychainTypeOK'
  BY <1>10 DEF IssueFails
<1>11. CASE Tick
  BY <1>11 DEF Tick, local
<1>12. CASE UNCHANGED keychainVars
  BY <1>12 DEF keychainVars, local
<1>13. QED
  BY <1>1, <1>2, <1>3, <1>4, <1>5, <1>6, <1>7, <1>8, <1>9, <1>10, <1>11, <1>12 DEF KeychainNext, Provide

LEMMA LockStep == ASSUME KeychainInv, [KeychainNext]_keychainVars PROVE LockExcludes'
<1> USE KeychainAssumption DEF KeychainInv, KeychainTypeOK, LockExcludes, Proceed, Rollback
<1>1. ASSUME NEW p \in Provider, Ask(p) \/ GetKeychain(p) \/ GetKey(p) \/ NoKey(p) PROVE LockExcludes'
  BY <1>1 DEF Ask, GetKeychain, GetKey, NoKey
<1>2. ASSUME NEW p \in Provider, LockRow(p) \/ Insert(p) PROVE LockExcludes'
  BY <1>2 DEF LockRow, Insert
<1>3. ASSUME NEW p \in Provider, Issue(p) PROVE LockExcludes'
  BY <1>3 DEF Issue
<1>4. ASSUME NEW p \in Provider, Update(p) \/ CommitRow(p) \/ IssueFails(p) PROVE LockExcludes'
  BY <1>4 DEF Update, CommitRow, IssueFails
<1>5. CASE Tick \/ UNCHANGED keychainVars
  BY <1>5 DEF Tick, local, keychainVars
<1>6. QED
  BY <1>1, <1>2, <1>3, <1>4, <1>5 DEF KeychainNext, Provide

LEMMA KnowsStep == ASSUME KeychainInv, [KeychainNext]_keychainVars PROVE Knows'
<1> USE KeychainAssumption DEF KeychainInv, KeychainTypeOK, Keys, Knows, Proceed, Rollback
<1>1. ASSUME NEW p \in Provider, Ask(p) \/ GetKeychain(p) \/ GetKey(p) PROVE Knows'
  <2>1. CASE Ask(p)
    BY <2>1 DEF Ask
  <2>2. CASE GetKeychain(p)
    <3>1. \A q \in Provider : asks'[q] # "get" => asks'[q] = asks[q] /\ kc'[q] = kc[q]
      BY <2>2 DEF GetKeychain
    <3>2. \A q \in Provider : asks'[q] # "idle" => asks[q] # "idle"
      BY <2>2 DEF GetKeychain
    <3>3. QED
      BY <2>2, <3>1, <3>2 DEF GetKeychain
  <2>3. CASE GetKey(p)
    BY <2>3 DEF GetKey
  <2>4. QED
    BY <1>1, <2>1, <2>2, <2>3
<1>2. ASSUME NEW p \in Provider, NoKey(p) PROVE Knows'
  <2>1. \A k \in Kid : kc[p][k] <= until[p]
    BY <1>2 DEF NoKey, Satisfying, WithExpAfter
  <2>2. QED
    BY <1>2, <2>1 DEF NoKey
<1>3. ASSUME NEW p \in Provider, LockRow(p) \/ Insert(p) PROVE Knows'
  BY <1>3 DEF LockRow, Insert
<1>4. ASSUME NEW p \in Provider, Issue(p) PROVE Knows'
  <2>1. CASE WithExpAfter(p, Exp)
    <3>1. PICK k \in Kid \ issued :
              /\ kid' = [kid EXCEPT ![p] = k] /\ kc' = [kc EXCEPT ![p][k] = Exp]
              /\ asks' = [asks EXCEPT ![p] = "update"]
      BY <1>4, <2>1 DEF Issue, Remember
    <3>2. UNCHANGED <<now, until>> /\ asks[p] = "issue"
      BY <1>4 DEF Issue
    <3>3. \A l \in Kid : l # k => ~ (kc'[p][l] > now + Need)
      BY <3>1, <3>2, <1>4 DEF Exp
    <3>4. QED
      BY <3>1, <3>2, <3>3 DEF Exp
  <2>2. CASE ~ WithExpAfter(p, Exp)
    BY <1>4, <2>2 DEF Issue
  <2>3. QED
    BY <2>1, <2>2
<1>5. ASSUME NEW p \in Provider, Update(p) \/ CommitRow(p) \/ IssueFails(p) PROVE Knows'
  BY <1>5 DEF Update, CommitRow, IssueFails
<1>6. CASE Tick
  BY <1>6 DEF Tick, local
<1>7. CASE UNCHANGED keychainVars
  BY <1>7 DEF keychainVars, local
<1>8. QED
  BY <1>1, <1>2, <1>3, <1>4, <1>5, <1>6, <1>7 DEF KeychainNext, Provide

LEMMA FreshStep == ASSUME KeychainInv, [KeychainNext]_keychainVars PROVE OneFreshKey'
<1> USE KeychainAssumption DEF KeychainInv, KeychainTypeOK, Keys, OneFreshKey
<1>1. ASSUME NEW p \in Provider, Update(p) PROVE OneFreshKey'
  <2>1. \A k, l \in Kid : kc[p][k] > now + Need /\ kc[p][l] > now + Need => k = l
    BY <1>1 DEF Update, Knows
  <2>2. \A k \in Kid : secret'[k] > now + Need => kc[p][k] > now + Need
    BY <1>1 DEF Update, Unexpired
  <2>3. QED
    BY <2>1, <2>2, <1>1 DEF Update
<1>2. CASE Tick
  BY <1>2 DEF Tick
<1>3. ASSUME UNCHANGED <<now, secret>> PROVE OneFreshKey'
  BY <1>3
<1>4. ASSUME NEW p \in Provider, Ask(p) \/ Provide(p), ~ Update(p) PROVE UNCHANGED <<now, secret>>
  BY <1>4 DEF Ask, Provide, GetKeychain, GetKey, NoKey, LockRow, Insert, Issue, CommitRow, IssueFails
<1>5. QED
  BY <1>1, <1>2, <1>3, <1>4 DEF KeychainNext, Provide, keychainVars

LEMMA Invariance == KeychainSpec => []KeychainInv
<1>1. KeychainInv /\ [KeychainNext]_keychainVars => KeychainInv'
  BY TypeStep, LockStep, KnowsStep, FreshStep DEF KeychainInv
<1>2. QED
  BY <1>1, KeychainInitInv, PTL DEF KeychainSpec

\* The variables of Keychain have their types in every reachable state.
THEOREM TypeCorrect == KeychainSpec => []KeychainTypeOK
<1>1. KeychainInv => KeychainTypeOK
  BY DEF KeychainInv
<1>2. QED
  BY <1>1, Invariance, PTL

\* Whoever issues or stores a key holds the row of the keychain (LockRow).
THEOREM LockIsExclusive == KeychainSpec => []LockExcludes
<1>1. KeychainInv => LockExcludes
  BY DEF KeychainInv
<1>2. QED
  BY <1>1, Invariance, PTL

\* Providers that miss a key at the same time leave one fresh key (Update).
THEOREM AtMostOneFreshKey == KeychainSpec => []OneFreshKey
<1>1. KeychainInv => OneFreshKey
  BY DEF KeychainInv
<1>2. QED
  BY <1>1, Invariance, PTL
-----------------------------------------------------------------------------
(* The tokens of a provider that is alone *)

\* Ids that were given out or are about to be have been issued; only who has
\* been asked for a key is at work.
IssuedOK ==
    /\ \A t \in tokens : t.kid \in issued
    /\ \A k \in Kid : secret[k] # 0 => k \in issued
    /\ \A p \in Provider :
          /\ asks[p] # "idle" => until[p] # 0
          /\ asks[p] \in {"update", "commit"} => kid[p] \in issued
          /\ \A k \in Kid : kc[p][k] # 0 => k \in issued

\* A key lives as long as the token that needs it, in a keychain.
Outlives(keys, k, time) == now <= time => keys[k] > time

\* The keychain that the only provider holds is the one that is stored, but
\* for the key that it adds.
Alone == \A p, q \in Acted : p = q
HoldsOK(p) ==
    /\ asks[p] \in {"get", "lock", "insert", "issue"} => kc[p] = secret
    /\ asks[p] = "update" =>
          /\ kc[p][kid[p]] > until[p]
          /\ \A t \in tokens : Outlives(kc[p], t.kid, t.until)
    /\ asks[p] = "commit" => Outlives(secret, kid[p], until[p])
AloneOK ==
    Alone =>
        /\ \A t \in tokens : Outlives(secret, t.kid, t.until)
        /\ \A p \in Provider : HoldsOK(p)

LEMMA IssuedStep == ASSUME KeychainInv, IssuedOK, [KeychainNext]_keychainVars PROVE IssuedOK'
<1> USE KeychainAssumption DEF KeychainInv, KeychainTypeOK, Keys, IssuedOK, Proceed, Rollback, Give
<1>1. ASSUME NEW p \in Provider, Ask(p) PROVE IssuedOK'
  BY <1>1 DEF Ask
<1>2. ASSUME NEW p \in Provider, GetKeychain(p) \/ NoKey(p) \/ LockRow(p) \/ Insert(p) \/ IssueFails(p)
      PROVE  IssuedOK'
  BY <1>2 DEF GetKeychain, NoKey, LockRow, Insert, IssueFails
<1>3. ASSUME NEW p \in Provider, GetKey(p) PROVE IssuedOK'
  <2>1. PICK k \in Satisfying(p) : tokens' = tokens \cup {[kid |-> k, until |-> until[p]]}
    BY <1>3 DEF GetKey
  <2>2. k \in issued
    BY <2>1 DEF Satisfying, WithExpAfter
  <2>3. QED
    BY <1>3, <2>1, <2>2 DEF GetKey
<1>4. ASSUME NEW p \in Provider, Issue(p) PROVE IssuedOK'
  <2>1. CASE WithExpAfter(p, Exp)
    <3>1. PICK k \in Kid \ issued :
              /\ issued' = issued \cup {k} /\ kid' = [kid EXCEPT ![p] = k]
              /\ kc' = [kc EXCEPT ![p] = [kc[p] EXCEPT ![k] = Exp]]
              /\ asks' = [asks EXCEPT ![p] = "update"]
      BY <1>4, <2>1 DEF Issue, Remember
    <3>2. UNCHANGED <<secret, until, tokens>>
      BY <1>4 DEF Issue
    <3>3. \A q \in Provider : \A l \in Kid : kc'[q][l] = kc[q][l] \/ l = k
      BY <3>1
    <3>4. QED
      BY <1>4, <3>1, <3>2, <3>3 DEF Issue
  <2>2. CASE ~ WithExpAfter(p, Exp)
    BY <1>4, <2>2 DEF Issue
  <2>3. QED
    BY <2>1, <2>2
<1>5. ASSUME NEW p \in Provider, Update(p) PROVE IssuedOK'
  BY <1>5 DEF Update, Unexpired
<1>6. ASSUME NEW p \in Provider, CommitRow(p) PROVE IssuedOK'
  BY <1>6 DEF CommitRow
<1>7. CASE Tick \/ UNCHANGED keychainVars
  BY <1>7 DEF Tick, local, keychainVars
<1>8. QED
  BY <1>1, <1>2, <1>3, <1>4, <1>5, <1>6, <1>7 DEF KeychainNext, Provide

\* Who is alone after a step was so before, and everybody else is idle.
LEMMA StaysAlone ==
    ASSUME KeychainInv, IssuedOK, NEW p \in Provider, Ask(p) \/ Provide(p), Alone'
    PROVE  Alone /\ \A q \in Provider \ {p} : asks[q] = "idle" /\ asks'[q] = "idle"
<1> USE KeychainAssumption DEF KeychainInv, KeychainTypeOK, IssuedOK
<1>1. \A q \in Provider : until[q] # 0 => until'[q] # 0
  BY DEF Ask, Provide, GetKeychain, GetKey, NoKey, LockRow, Insert, Issue, Update, CommitRow, IssueFails
<1>2. until'[p] # 0
  BY DEF Ask, Provide, GetKeychain, GetKey, NoKey, LockRow, Insert, Issue, Update, CommitRow, IssueFails
<1>3. \A q \in Provider \ {p} : until'[q] = 0
  BY <1>2 DEF Alone, Acted
<1>4. \A q \in Provider \ {p} : until[q] = 0
  BY <1>1, <1>3
<1>5. \A q \in Provider \ {p} : asks'[q] = asks[q]
  BY DEF Ask, Provide, GetKeychain, GetKey, NoKey, LockRow, Insert, Issue, Update, CommitRow, IssueFails,
         Proceed, Rollback
<1>6. QED
  BY <1>4, <1>5 DEF Alone, Acted

LEMMA AloneStep ==
    ASSUME KeychainInv, IssuedOK, AloneOK, [KeychainNext]_keychainVars
    PROVE  AloneOK'
<1> USE KeychainAssumption DEF KeychainInv, KeychainTypeOK, Keys
<1>1. SUFFICES ASSUME Alone'
               PROVE  /\ \A t \in tokens' : Outlives(secret, t.kid, t.until)'
                      /\ \A p \in Provider : HoldsOK(p)'
  BY DEF AloneOK
<1>2. ASSUME NEW p \in Provider, Ask(p) \/ Provide(p)
      PROVE  /\ \A t \in tokens' : Outlives(secret, t.kid, t.until)'
             /\ HoldsOK(p)'
  <2>1. /\ \A t \in tokens : Outlives(secret, t.kid, t.until)
        /\ HoldsOK(p)
    BY <1>1, <1>2, StaysAlone DEF AloneOK
  <2> USE DEF Proceed, Rollback, Outlives
  <2>2. CASE Ask(p) \/ NoKey(p) \/ LockRow(p) \/ Insert(p) \/ IssueFails(p) \/ GetKeychain(p)
    BY <2>1, <2>2 DEF Ask, NoKey, LockRow, Insert, IssueFails, GetKeychain, HoldsOK
  <2>3. CASE GetKey(p)
    <3>1. PICK k \in Satisfying(p) : tokens' = tokens \cup {[kid |-> k, until |-> until[p]]}
      BY <2>3 DEF GetKey, Give
    <3>2. secret[k] > until[p]
      BY <2>1, <2>3, <3>1 DEF GetKey, HoldsOK, Satisfying, WithExpAfter
    <3>3. secret' = secret /\ now' = now /\ asks'[p] = "idle"
      BY <2>3 DEF GetKey
    <3>4. QED
      BY <2>1, <3>1, <3>2, <3>3 DEF HoldsOK
  <2>4. CASE Issue(p)
    <3>1. UNCHANGED <<now, secret, until, tokens>> /\ kc[p] = secret
      BY <2>1, <2>4 DEF Issue, HoldsOK
    <3>2. CASE WithExpAfter(p, Exp)
      <4>1. PICK k \in Kid \ issued :
                /\ kid'[p] = k /\ kc'[p] = [kc[p] EXCEPT ![k] = Exp] /\ asks'[p] = "update"
        BY <2>4, <3>2 DEF Issue, Remember
      <4>2. kc'[p][k] > until'[p]
        BY <3>1, <3>2, <4>1 DEF WithExpAfter, Exp
      <4>3. \A t \in tokens : t.kid \in Kid /\ t.kid # k
        BY <4>1 DEF IssuedOK
      <4>4. \A t \in tokens' : kc'[p][t.kid] = secret[t.kid]
        BY <3>1, <4>1, <4>3
      <4>5. QED
        BY <2>1, <3>1, <4>1, <4>2, <4>4 DEF HoldsOK
    <3>3. CASE ~ WithExpAfter(p, Exp)
      BY <2>1, <2>4, <3>1, <3>3 DEF Issue, HoldsOK
    <3>4. QED
      BY <3>2, <3>3
  <2>5. CASE Update(p)
    <3>1. /\ asks[p] = "update" /\ asks'[p] = "commit" /\ UNCHANGED <<now, kid, until, tokens>>
          /\ secret' = [k \in Kid |-> IF kc[p][k] > now THEN kc[p][k] ELSE 0]
      BY <2>5 DEF Update, Unexpired
    <3>2. kid[p] \in Kid
      BY <3>1 DEF Knows
    <3>3. ASSUME NEW k \in Kid, NEW time \in Nat, Outlives(kc[p], k, time)
          PROVE  now <= time => secret'[k] > time
      BY <3>1, <3>3
    <3>4. \A t \in tokens : t.kid \in Kid /\ t.until \in Nat /\ Outlives(kc[p], t.kid, t.until)
      BY <2>1, <3>1 DEF HoldsOK
    <3>5. now <= until[p] => secret'[kid[p]] > until[p]
      BY <2>1, <3>1, <3>2, <3>3 DEF HoldsOK
    <3>6. QED
      BY <3>1, <3>3, <3>4, <3>5 DEF HoldsOK
  <2>6. CASE CommitRow(p)
    BY <2>1, <2>6 DEF CommitRow, Give, HoldsOK
  <2>7. QED
    BY <1>2, <2>2, <2>3, <2>4, <2>5, <2>6 DEF Provide
<1>3. ASSUME NEW p \in Provider, Ask(p) \/ Provide(p)
      PROVE  \A q \in Provider : HoldsOK(q)'
  BY <1>1, <1>2, <1>3, StaysAlone DEF HoldsOK
<1>4. CASE Tick
  <2>1. AloneOK /\ Alone /\ now' = now + 1 /\ UNCHANGED <<secret, local, tokens>>
    BY <1>1, <1>4 DEF Tick, Alone, Acted, local
  <2>2. \A n \in Nat : now' <= n => now <= n
    BY <2>1
  <2>3. QED
    BY <2>1, <2>2 DEF AloneOK, HoldsOK, Outlives, local
<1>5. CASE UNCHANGED keychainVars
  BY <1>1, <1>5 DEF keychainVars, local, AloneOK, Alone, Acted, HoldsOK, Outlives
<1>6. QED
  BY <1>2, <1>3, <1>4, <1>5 DEF KeychainNext

\* A token can be verified until the time it was asked for, across rotations
\* and failures, where one provider alone is asked for keys.
THEOREM TokensCorrect == KeychainSpec => []TokensVerifyAlone
<1>1. KeychainInit => IssuedOK /\ AloneOK
  BY DEF KeychainInit, IssuedOK, AloneOK, HoldsOK
<1>2. KeychainInv /\ IssuedOK /\ [KeychainNext]_keychainVars => IssuedOK'
  BY IssuedStep
<1>3. KeychainInv /\ IssuedOK /\ AloneOK /\ [KeychainNext]_keychainVars => AloneOK'
  BY AloneStep
<1>4. KeychainInv /\ AloneOK => TokensVerifyAlone
  <2>1. SUFFICES ASSUME KeychainInv, AloneOK, Alone, NEW t \in tokens, now <= t.until PROVE secret[t.kid] > now
    BY DEF KeychainInv, TokensVerifyAlone, TokensVerify, Verifies, Alone
  <2>2. secret[t.kid] > t.until /\ t.kid \in Kid /\ t.until \in Nat
    BY <2>1 DEF AloneOK, Outlives, KeychainInv, KeychainTypeOK
  <2>3. secret[t.kid] \in Nat /\ now \in Nat
    BY <2>1, <2>2, KeychainAssumption DEF KeychainInv, KeychainTypeOK, Keys
  <2>4. QED
    BY <2>1, <2>2, <2>3
<1>5. QED
  BY <1>1, <1>2, <1>3, <1>4, Invariance, PTL DEF KeychainSpec

-----------------------------------------------------------------------------
(* Streams: the invariant *)

Pieces == [what : 0..Files + 2, damaged : BOOLEAN]
States == {"open", "ended", "broken"}
Conns == [pipe : Seq(Pieces), state : States, trailer : Seq(Pieces)]

StreamTypes ==
    /\ walk \in {"on", "over", "closed"} /\ est \in BOOLEAN
    /\ sent \in Seq(Pieces) /\ got \in Seq(Pieces)
    /\ conn \in [Hop -> Conns]
    /\ eof \in BOOLEAN /\ result \in {"none", "ok", "unmatched", "error"}
    /\ happened \subseteq Faults

\* No connection holds more than fits, but for what the end adds.
Bounded ==
    /\ Len(conn[1].pipe) <= Cap + 2 /\ (walk # "closed" => Len(conn[1].pipe) <= Cap)
    /\ \A h \in Hop \ {1} : Len(conn[h].pipe) <= Cap

\* The pieces of s are those of all from off on.
Follows(s, all, off) == \A i \in 1..Len(s) : off + i <= Len(all) /\ s[i].what = all[off + i].what

\* How many pieces have left a connection.
Past(h) ==
    IF h = 3 THEN Len(got)
    ELSE IF h = 2 THEN Len(got) + Len(conn[3].pipe)
    ELSE Len(got) + Len(conn[3].pipe) + Len(conn[2].pipe)

\* Nothing is lost, added or moved on the way.
InOrder ==
    /\ Follows(got, sent, 0)
    /\ \A h \in Hop : Follows(conn[h].pipe, sent, Past(h))
    /\ Past(1) + Len(conn[1].pipe) = Len(sent)

\* Nothing is damaged but by damage.
Sound ==
    "damage" \notin happened => Undamaged(got) /\ \A h \in Hop : Undamaged(conn[h].pipe)

\* What was sent is files in their order, then the end or a message; a trailer
\* is the sum of all of it.
Archived ==
    /\ walk # "closed" => Len(sent) <= Files /\ conn[1].state # "ended"
    /\ walk = "over" /\ err = "none" => Len(sent) = Files
    /\ Len(sent) <= Files + 2
    /\ \A i \in 1..Len(sent) :
          sent[i] = Piece(i) \/ (walk = "closed" /\ i = Len(sent) /\ sent[i] = Piece(0))
    /\ \A h \in Hop : conn[h].trailer = NoTrailer \/ (walk = "closed" /\ conn[h].trailer = sent)

\* What the receiver goes by.
Received ==
    /\ eof => conn[3].state = "ended"
    /\ Extracts /\ result \in {"ok", "unmatched"} => Ended
    /\ ~Extracts /\ result = "ok" =>
          eof /\ (conn[3].trailer = NoTrailer \/ conn[3].trailer = got)

\* As long as nothing goes wrong.
Clean ==
    happened = {} =>
        /\ result \in {"none", "ok"}
        /\ result = "none" =>
              /\ err = "none"
              /\ \A h \in Hop : conn[h].state # "broken"
              /\ \A h \in {1, 2} : conn[h + 1].state = "ended" =>
                    conn[h].state = "ended" /\ conn[h].pipe = <<>>
              /\ walk = "closed" => Len(sent) = Files + 2 /\ \A i \in 1..Len(sent) : sent[i] = Piece(i)
              /\ eof => conn[3].pipe = <<>>

StreamInv == StreamTypes /\ Bounded /\ InOrder /\ Sound /\ Archived /\ Received /\ Clean

-----------------------------------------------------------------------------
(* Sequences *)

LEMMA AppendFacts ==
    ASSUME NEW S, NEW s \in Seq(S), NEW x \in S
    PROVE  /\ Append(s, x) \in Seq(S) /\ Len(Append(s, x)) = Len(s) + 1
           /\ \A i \in 1..Len(s) : Append(s, x)[i] = s[i]
           /\ Append(s, x)[Len(s) + 1] = x
OBVIOUS

LEMMA RestFacts ==
    ASSUME NEW S, NEW s \in Seq(S), s # <<>>
    PROVE  /\ SubSeq(s, 2, Len(s)) \in Seq(S) /\ Len(SubSeq(s, 2, Len(s))) = Len(s) - 1
           /\ \A i \in 1..(Len(s) - 1) : SubSeq(s, 2, Len(s))[i] = s[i + 1]
           /\ s[1] \in S /\ Len(s) \in Nat /\ Len(s) >= 1
<1>1. Len(s) \in Nat /\ Len(s) # 0
  BY EmptySeq
<1>2. 1 \in 1..Len(s) /\ Len(s) >= 1
  BY <1>1
<1>3. s[1] \in S
  BY <1>2, ElementOfSeq
<1>4. \A i \in 2..Len(s) : s[i] \in S
  BY <1>1, ElementOfSeq
<1>5. /\ SubSeq(s, 2, Len(s)) \in Seq(S)
      /\ Len(SubSeq(s, 2, Len(s))) = IF 2 <= Len(s) THEN Len(s) - 2 + 1 ELSE 0
      /\ \A i \in 1..(Len(s) - 2 + 1) : SubSeq(s, 2, Len(s))[i] = s[2 + i - 1]
  BY <1>4, <1>1, SubSeqProperties
<1>6. Len(SubSeq(s, 2, Len(s))) = Len(s) - 1
  <2>1. ASSUME NEW n \in Nat, n # 0
        PROVE  (IF 2 <= n THEN n - 2 + 1 ELSE 0) = n - 1
    BY <2>1
  <2>2. QED
    BY <1>1, <1>5, <2>1
<1>7. ASSUME NEW i \in 1..(Len(s) - 1)
      PROVE  SubSeq(s, 2, Len(s))[i] = s[i + 1]
  <2>1. i \in 1..(Len(s) - 2 + 1) /\ 2 + i - 1 = i + 1
    BY <1>1
  <2>2. QED
    BY <2>1, <1>5
<1>8. QED
  BY <1>1, <1>2, <1>3, <1>5, <1>6, <1>7

LEMMA FollowsRest ==
    ASSUME NEW s \in Seq(Pieces), NEW all \in Seq(Pieces), NEW off \in Nat,
           Follows(s, all, off), s # <<>>
    PROVE  /\ Follows(SubSeq(s, 2, Len(s)), all, off + 1)
           /\ off + 1 <= Len(all) /\ s[1].what = all[off + 1].what
<1>1. /\ Len(SubSeq(s, 2, Len(s))) = Len(s) - 1 /\ Len(s) \in Nat /\ Len(s) >= 1
      /\ \A i \in 1..(Len(s) - 1) : SubSeq(s, 2, Len(s))[i] = s[i + 1]
  BY RestFacts
<1>2. ASSUME NEW i \in 1..(Len(s) - 1)
      PROVE  i + 1 \in 1..Len(s) /\ off + (i + 1) = (off + 1) + i
  BY <1>1
<1>3. 1 \in 1..Len(s)
  BY <1>1
<1>4. QED
  BY <1>1, <1>2, <1>3 DEF Follows

LEMMA FollowsAppend ==
    ASSUME NEW s \in Seq(Pieces), NEW x \in Pieces, NEW all \in Seq(Pieces), NEW off \in Nat,
           Follows(s, all, off),
           off + Len(s) + 1 <= Len(all), x.what = all[off + Len(s) + 1].what
    PROVE  Follows(Append(s, x), all, off)
<1>1. /\ Len(Append(s, x)) = Len(s) + 1 /\ Len(s) \in Nat
      /\ \A i \in 1..Len(s) : Append(s, x)[i] = s[i]
      /\ Append(s, x)[Len(s) + 1] = x
  BY AppendFacts
<1>2. \A i \in 1..(Len(s) + 1) : i \in 1..Len(s) \/ i = Len(s) + 1
  BY <1>1
<1>3. off + (Len(s) + 1) = off + Len(s) + 1
  BY <1>1
<1>4. QED
  BY <1>1, <1>2, <1>3 DEF Follows

LEMMA FollowsGrow ==
    ASSUME NEW s \in Seq(Pieces), NEW all \in Seq(Pieces), NEW more \in Seq(Pieces), NEW off \in Nat,
           Follows(s, all, off),
           Len(all) <= Len(more), \A i \in 1..Len(all) : more[i] = all[i]
    PROVE  Follows(s, more, off)
<1>1. /\ Len(s) \in Nat /\ Len(all) \in Nat /\ Len(more) \in Nat
  OBVIOUS
<1>2. ASSUME NEW i \in 1..Len(s)
      PROVE  off + i \in 1..Len(all) /\ off + i <= Len(more)
  BY <1>1 DEF Follows
<1>3. QED
  BY <1>2 DEF Follows

LEMMA PipeSet ==
    ASSUME NEW c \in [Hop -> Conns], NEW h \in Hop, NEW q \in Seq(Pieces)
    PROVE  LET d == [c EXCEPT ![h].pipe = q]
           IN  /\ d \in [Hop -> Conns] /\ d[h].pipe = q
               /\ d[h].state = c[h].state /\ d[h].trailer = c[h].trailer
               /\ \A g \in Hop \ {h} : d[g] = c[g]
BY DEF Conns

LEMMA StateSet ==
    ASSUME NEW c \in [Hop -> Conns], NEW h \in Hop, NEW q \in States
    PROVE  LET d == [c EXCEPT ![h].state = q]
           IN  /\ d \in [Hop -> Conns] /\ d[h].state = q
               /\ d[h].pipe = c[h].pipe /\ d[h].trailer = c[h].trailer
               /\ \A g \in Hop \ {h} : d[g] = c[g]
BY DEF Conns

LEMMA TrailerSet ==
    ASSUME NEW c \in [Hop -> Conns], NEW h \in Hop, NEW q \in Seq(Pieces)
    PROVE  LET d == [c EXCEPT ![h].trailer = q]
           IN  /\ d \in [Hop -> Conns] /\ d[h].trailer = q
               /\ d[h].pipe = c[h].pipe /\ d[h].state = c[h].state
               /\ \A g \in Hop \ {h} : d[g] = c[g]
BY DEF Conns

-----------------------------------------------------------------------------
(* What the invariant says of the end of the stream *)

LEMMA PastIs ==
    /\ Past(3) = Len(got)
    /\ Past(2) = Len(got) + Len(conn[3].pipe)
    /\ Past(1) = Len(got) + Len(conn[3].pipe) + Len(conn[2].pipe)
<1>1. 2 # 3 /\ 1 # 3 /\ 1 # 2
  OBVIOUS
<1>2. QED
  BY <1>1 DEF Past

LEMMA PastIsThen ==
    /\ Past(3)' = Len(got')
    /\ Past(2)' = Len(got') + Len(conn'[3].pipe)
    /\ Past(1)' = Len(got') + Len(conn'[3].pipe) + Len(conn'[2].pipe)
<1>1. 2 # 3 /\ 1 # 3 /\ 1 # 2
  OBVIOUS
<1>2. QED
  BY <1>1 DEF Past

LEMMA Lengths ==
    ASSUME StreamTypes
    PROVE  /\ Len(got) \in Nat /\ Len(sent) \in Nat
           /\ \A h \in Hop : /\ conn[h] \in Conns /\ conn[h].pipe \in Seq(Pieces)
                             /\ conn[h].trailer \in Seq(Pieces) /\ Len(conn[h].pipe) \in Nat
                             /\ Past(h) \in Nat
<1>1. \A h \in Hop : conn[h] \in Conns /\ conn[h].pipe \in Seq(Pieces) /\ conn[h].trailer \in Seq(Pieces)
  BY DEF StreamTypes, Conns
<1>2. Len(got) \in Nat /\ Len(sent) \in Nat /\ \A h \in Hop : Len(conn[h].pipe) \in Nat
  BY <1>1 DEF StreamTypes
<1>4. 1 \in Hop /\ 2 \in Hop /\ 3 \in Hop
  BY DEF Hop
<1>5. \A h \in Hop : Past(h) \in Nat
  <2>1. \A a, b, c \in Nat : a \in Nat /\ a + b \in Nat /\ a + b + c \in Nat
    OBVIOUS
  <2>2. QED
    BY <1>2, <1>4, <2>1 DEF Past
<1>7. QED
  BY <1>1, <1>2, <1>5

\* Nothing is under way, and all of the stream was read.
LEMMA AllRead ==
    ASSUME TransferAssumption, StreamInv, happened = {}, result = "none",
           conn[3].state = "ended", conn[3].pipe = <<>>
    PROVE  walk = "closed" /\ Len(sent) = Files + 2 /\ Len(got) = Len(sent)
<1>1. 1 \in Hop /\ 2 \in Hop /\ 3 \in Hop
  BY DEF Hop
<1>2. conn[2].state = "ended" /\ conn[2].pipe = <<>>
  BY DEF StreamInv, Clean
<1>3. conn[1].state = "ended" /\ conn[1].pipe = <<>>
  BY <1>2 DEF StreamInv, Clean
<1>4. walk = "closed"
  BY <1>3 DEF StreamInv, Archived
<1>5. Len(sent) = Files + 2
  BY <1>4 DEF StreamInv, Clean
<1>6. Len(conn[1].pipe) = 0 /\ Len(conn[2].pipe) = 0 /\ Len(conn[3].pipe) = 0
  BY <1>2, <1>3
<1>7. Past(1) = Len(got) + 0 + 0
  BY <1>6 DEF Past
<1>8. Len(got) = Len(sent)
  BY <1>6, <1>7, Lengths DEF StreamInv, InOrder
<1>9. QED
  BY <1>4, <1>5, <1>8

\* What was read is what was sent, as far as it goes.
LEMMA GotIs ==
    ASSUME TransferAssumption, StreamInv
    PROVE  /\ Len(got) <= Len(sent)
           /\ \A n \in 1..Len(got) :
                /\ n \in 1..Len(sent) /\ got[n].what = sent[n].what
                /\ sent[n] = Piece(n) \/ (walk = "closed" /\ n = Len(sent) /\ sent[n] = Piece(0))
<1>1. Len(got) \in Nat /\ Len(sent) \in Nat /\ \A h \in Hop : Len(conn[h].pipe) \in Nat
  BY Lengths DEF StreamInv
<1>2. 1 \in Hop /\ 2 \in Hop /\ 3 \in Hop
  BY DEF Hop
<1>3. Len(got) + Len(conn[3].pipe) + Len(conn[2].pipe) + Len(conn[1].pipe) = Len(sent)
  BY PastIs DEF StreamInv, InOrder
<1>4. Len(got) <= Len(sent)
  <2>1. ASSUME NEW a \in Nat, NEW b \in Nat, NEW c \in Nat, NEW d \in Nat, NEW e \in Nat, a + b + c + d = e
        PROVE  a <= e
    BY <2>1
  <2>2. QED
    BY <1>1, <1>2, <1>3, <2>1
<1>5. \A n \in 1..Len(got) : n \in 1..Len(sent)
  BY <1>1, <1>4
<1>6. \A n \in 1..Len(got) : 0 + n = n
  BY <1>1
<1>7. \A n \in 1..Len(got) : got[n].what = sent[n].what
  BY <1>6 DEF StreamInv, InOrder, Follows
<1>8. QED
  BY <1>4, <1>5, <1>7 DEF StreamInv, Archived

LEMMA PieceIs ==
    ASSUME NEW n
    PROVE  Piece(n).what = n /\ Piece(n).damaged = FALSE
BY DEF Piece

\* Once the end of the tar was read, all files were.
LEMMA EndedIsWhole ==
    ASSUME TransferAssumption, StreamInv, Ended
    PROVE  \A n \in 1..Files : n \in DOMAIN got /\ got[n].what = n
<1>1. DOMAIN got = 1..Len(got) /\ Len(got) \in Nat /\ Len(sent) \in Nat /\ Files \in Nat
  BY Lengths DEF StreamInv, StreamTypes, TransferAssumption
<1>2. PICK i \in 1..Len(got) : got[i].what = Files + 1
  BY <1>1 DEF Ended
<1>3. i = Files + 1
  <2>1. sent[i] = Piece(i) \/ sent[i] = Piece(0)
    BY GotIs
  <2>2. sent[i].what = Files + 1
    BY <1>2, GotIs
  <2>3. sent[i].what = i \/ sent[i].what = 0
    BY <2>1, PieceIs
  <2>4. Files + 1 # 0
    BY <1>1
  <2>5. QED
    BY <2>2, <2>3, <2>4
<1>4. ASSUME NEW n \in 1..Files
      PROVE  n \in 1..Len(got) /\ got[n].what = n
  <2>1. n \in 1..Len(got) /\ n # Len(sent)
    BY <1>1, <1>3, GotIs
  <2>2. sent[n] = Piece(n)
    BY <2>1, GotIs
  <2>3. QED
    BY <2>1, <2>2, GotIs, PieceIs
<1>5. QED
  BY <1>1, <1>4

\* As long as nothing goes wrong, no sum is found wrong, and nothing else is.
LEMMA NothingWrong ==
    ASSUME TransferAssumption, StreamInv, happened = {}, result = "none"
    PROVE  ~SumUnmatched /\ ~BadStream /\ conn[3].state # "broken"
<1>1. 1 \in Hop /\ 2 \in Hop /\ 3 \in Hop
  BY DEF Hop
<1>2. Undamaged(got)
  BY DEF StreamInv, Sound
<1>3. DOMAIN got = 1..Len(got) /\ Len(got) \in Nat /\ Len(sent) \in Nat /\ Files \in Nat
  BY Lengths DEF StreamInv, StreamTypes, TransferAssumption
<1>4. conn[3].state # "broken"
  BY <1>1 DEF StreamInv, Clean
<1>5. \A n \in 1..Len(got) : sent[n] = Piece(n) /\ got[n].what = n /\ got[n].damaged = FALSE
  <2>1. SUFFICES ASSUME NEW n \in 1..Len(got)
                 PROVE  sent[n] = Piece(n) /\ got[n].what = n /\ got[n].damaged = FALSE
    OBVIOUS
  <2>2. n \in 1..Len(sent) /\ got[n].what = sent[n].what /\ ~got[n].damaged
    BY <1>2, <1>3, GotIs DEF Undamaged
  <2>3. sent[n] = Piece(n)
    BY <2>2, GotIs DEF StreamInv, Clean
  <2>4. got[n] \in Pieces
    BY <1>3 DEF StreamInv, StreamTypes
  <2>5. got[n].damaged \in BOOLEAN
    BY <2>4 DEF Pieces
  <2>6. QED
    BY <2>2, <2>3, <2>5, PieceIs
<1>6. ASSUME conn[3].state = "ended", conn[3].pipe = <<>>
      PROVE  got = sent /\ Ended
  <2>1. Len(sent) = Files + 2 /\ Len(got) = Len(sent)
    BY <1>6, AllRead
  <2>2. \A n \in 1..Len(got) : got[n] = sent[n]
    <3>1. SUFFICES ASSUME NEW n \in 1..Len(got)
                   PROVE  got[n] = sent[n]
      OBVIOUS
    <3>2. got[n] \in Pieces
      BY <1>3 DEF StreamInv, StreamTypes
    <3>3. got[n] = Piece(n)
      BY <1>5, <3>2 DEF Pieces, Piece
    <3>4. QED
      BY <1>5, <3>3
  <2>3. got = sent
    BY <2>1, <2>2, SeqEqual DEF StreamInv, StreamTypes
  <2>4. Files + 1 \in 1..Len(got)
    BY <2>1, <1>3
  <2>5. QED
    BY <2>3, <2>4, <1>3, <1>5 DEF Ended
<1>7. ~SumUnmatched
  <2>1. CASE eof
    <3>1. conn[3].state = "ended" /\ conn[3].pipe = <<>>
      BY <2>1 DEF StreamInv, Received, Clean
    <3>2. conn[3].trailer = NoTrailer \/ conn[3].trailer = sent
      BY <1>1 DEF StreamInv, Archived
    <3>3. QED
      BY <3>1, <3>2, <1>6 DEF SumUnmatched, Trailer
  <2>2. CASE ~eof
    BY <2>2 DEF SumUnmatched, Trailer
  <2>3. QED
    BY <2>1, <2>2
<1>8. ~BadStream
  <2>2. ~\E i \in DOMAIN got : got[i].what = 0
    <3>1. \A n \in 1..Len(got) : n # 0
      BY <1>3
    <3>2. QED
      BY <3>1, <1>3, <1>5
  <2>3. conn[3].pipe = <<>> /\ conn[3].state # "open" => Ended
    <3>1. conn[3].state \in {"open", "ended", "broken"}
      BY <1>1 DEF StreamInv, StreamTypes, Conns, States
    <3>2. QED
      BY <3>1, <1>4, <1>6
  <2>4. QED
    BY <1>2, <2>2, <2>3, <1>4 DEF BadStream
<1>9. QED
  BY <1>4, <1>7, <1>8

-----------------------------------------------------------------------------
(* Steps that move no piece *)

LEMMA InOrderKept ==
    ASSUME StreamTypes, InOrder, Sound, got' = got, sent' = sent,
           \A h \in Hop : conn'[h].pipe = conn[h].pipe, happened \subseteq happened'
    PROVE  InOrder' /\ Sound'
<1>1. 1 \in Hop /\ 2 \in Hop /\ 3 \in Hop
  BY DEF Hop
<1>2. \A h \in Hop : Past(h)' = Past(h)
  BY <1>1 DEF Past
<1>3. \A h \in Hop : Follows(conn'[h].pipe, sent', Past(h)')
  BY <1>2 DEF InOrder
<1>4. Past(1)' + Len(conn'[1].pipe) = Len(sent')
  BY <1>1, <1>2 DEF InOrder
<1>5. Sound'
  BY DEF Sound
<1>6. QED
  BY <1>3, <1>4, <1>5 DEF InOrder

LEMMA QuietStep ==
    ASSUME TransferAssumption, StreamInv, UNCHANGED kind,
           EstimateOk \/ EstimateFails \/ WalkOver \/ FileFails \/ ReadEnd
    PROVE  StreamInv'
<1>. USE DEF StreamInv
<1>1. conn' = conn /\ got' = got /\ sent' = sent /\ result' = result /\ happened \subseteq happened'
  BY DEF EstimateOk, EstimateFails, WalkOver, FileFails, ReadEnd, Fault
<1>2. 1 \in Hop /\ 2 \in Hop /\ 3 \in Hop
  BY DEF Hop
<1>3. StreamTypes'
  BY <1>1 DEF StreamTypes, EstimateOk, EstimateFails, WalkOver, FileFails, ReadEnd, Fault
<1>4. Bounded'
  BY <1>1 DEF Bounded, EstimateOk, EstimateFails, WalkOver, FileFails, ReadEnd
<1>5. InOrder' /\ Sound'
  BY <1>1, InOrderKept
<1>6. Archived'
  <2>1. walk' = walk \/ (walk = "on" /\ walk' = "over")
    BY DEF EstimateOk, EstimateFails, WalkOver, FileFails, ReadEnd
  <2>2. (walk' = "closed") <=> (walk = "closed")
    BY <2>1
  <2>3. walk' = "over" /\ err' = "none" => Len(sent) = Files
    BY <2>1 DEF Archived, EstimateOk, EstimateFails, WalkOver, FileFails, ReadEnd
  <2>4. QED
    BY <1>1, <2>2, <2>3 DEF Archived
<1>7. Received'
  BY <1>1 DEF Received, Ended, Extracts, EstimateOk, EstimateFails, WalkOver, FileFails, ReadEnd
<1>8. Clean'
  <2>1. SUFFICES ASSUME happened' = {}
                 PROVE  Clean'
    BY DEF Clean
  <2>2. happened = {}
    BY <1>1, <2>1
  <2>3. ~EstimateFails
    BY <2>1 DEF EstimateFails, Fault
  <2>4. CASE result # "none"
    BY <1>1, <2>1, <2>2, <2>4 DEF Clean
  <2>5. CASE result = "none"
    <3>1. err = "none" /\ conn[1].state # "broken"
      BY <1>2, <2>2, <2>5 DEF Clean
    <3>2. ~FileFails
      BY <2>1, <3>1 DEF FileFails, Fault
    <3>3. err' = "none"
      BY <2>3, <3>2, <3>1 DEF EstimateOk, WalkOver, ReadEnd
    <3>4. walk' = "closed" => walk = "closed"
      BY <2>3, <3>2 DEF EstimateOk, WalkOver, ReadEnd
    <3>5. eof' => conn[3].pipe = <<>>
      BY <2>2, <2>3, <2>5, <3>2 DEF Clean, EstimateOk, WalkOver, ReadEnd
    <3>6. QED
      BY <1>1, <2>1, <2>2, <2>5, <3>3, <3>4, <3>5 DEF Clean
  <2>6. QED
    BY <2>4, <2>5
<1>9. QED
  BY <1>3, <1>4, <1>5, <1>6, <1>7, <1>8

LEMMA ResultStep ==
    ASSUME TransferAssumption, StreamInv, UNCHANGED kind, Extract \/ Save
    PROVE  StreamInv'
<1>. USE DEF StreamInv
<1>1. result = "none" /\ UNCHANGED <<walk, err, est, sent, conn, got, eof, happened, kind>>
  BY DEF Extract, Save
<1>2. 1 \in Hop /\ 2 \in Hop /\ 3 \in Hop
  BY DEF Hop
<1>3. result' \in {"ok", "unmatched", "error"}
  BY DEF Extract, Save
<1>4. StreamTypes' /\ Bounded' /\ Archived'
  BY <1>1, <1>3 DEF StreamTypes, Bounded, Archived
<1>5. InOrder' /\ Sound'
  BY <1>1, InOrderKept
<1>6. Received'
  <2>1. eof' => conn'[3].state = "ended"
    BY <1>1 DEF Received
  <2>2. ASSUME Extracts', result' \in {"ok", "unmatched"}
        PROVE  Ended'
    <3>1. Extracts
      BY <1>1, <2>2 DEF Extracts
    <3>2. Ended
      BY <2>2, <3>1 DEF Extract, Save, ExtractOk
    <3>3. QED
      BY <3>2, <1>1 DEF Ended
  <2>3. ASSUME ~Extracts', result' = "ok"
        PROVE  eof' /\ (conn'[3].trailer = NoTrailer \/ conn'[3].trailer = got')
    <3>1. ~Extracts
      BY <1>1, <2>3 DEF Extracts
    <3>2. eof /\ ~SumUnmatched
      BY <2>3, <3>1 DEF Extract, Save, SaveOk
    <3>3. conn[3].trailer = NoTrailer \/ conn[3].trailer = got
      BY <3>2 DEF SumUnmatched, Trailer
    <3>4. QED
      BY <3>2, <3>3, <1>1
  <2>4. QED
    BY <2>1, <2>2, <2>3 DEF Received
<1>7. Clean'
  <2>1. SUFFICES ASSUME happened = {}
                 PROVE  result' = "ok"
    BY <1>1 DEF Clean
  <2>2. ~SumUnmatched /\ ~BadStream /\ conn[3].state # "broken"
    BY <2>1, <1>1, NothingWrong
  <2>3. QED
    BY <2>2 DEF Extract, Save
<1>8. QED
  BY <1>4, <1>5, <1>6, <1>7

\* A connection breaks, is given up or is ended.
LEMMA ConnStep ==
    ASSUME TransferAssumption, StreamInv, UNCHANGED kind, NEW h \in Hop,
           Break(h) \/ GiveUp(h) \/ RelayEnds(h)
    PROVE  StreamInv'
<1>. USE DEF StreamInv
<1>1. UNCHANGED <<walk, err, est, sent, got, eof, result, kind>> /\ happened \subseteq happened' /\ happened' \subseteq Faults
  BY DEF Break, GiveUp, RelayEnds, Fault, StreamTypes
<1>2. /\ 1 \in Hop /\ 2 \in Hop /\ 3 \in Hop
      /\ \A g \in Hop : g = 1 \/ g = 2 \/ g = 3
      /\ conn \in [Hop -> Conns] /\ \A g \in Hop : conn[g].state \in {"open", "ended", "broken"}
  BY DEF Hop, StreamTypes, Conns, States
<1>. "broken" \in States /\ "ended" \in States
  BY DEF States
\* Which one, and how.
<1>3. PICK g \in Hop :
         /\ conn[g].state = "open" /\ conn' \in [Hop -> Conns]
         /\ \A f \in Hop : conn'[f].pipe = conn[f].pipe
         /\ \A f \in Hop \ {g} : conn'[f] = conn[f]
         /\ \/ /\ conn'[g].state = "broken" /\ conn'[g].trailer = conn[g].trailer
               /\ \/ happened' # {}
                  \/ g = 3 /\ result # "none"
                  \/ g \in {1, 2} /\ conn[g + 1].state # "open"
                  \/ g \in {2, 3} /\ conn[g - 1].state = "broken"
            \/ /\ conn'[g].state = "ended" /\ g \in {2, 3} /\ conn[g - 1].pipe = <<>>
               /\ conn[g - 1].state # "open"
               /\ conn'[g].trailer \in {conn[g].trailer, NoTrailer, conn[g - 1].trailer}
  <2>1. CASE Break(h)
    <3>1. conn' = [conn EXCEPT ![h].state = "broken"] /\ conn[h].state = "open" /\ happened' # {}
      BY <2>1 DEF Break, Fault
    <3>2. QED
      BY <3>1, <1>2, StateSet
  <2>2. CASE GiveUp(h)
    <3>1. conn' = [conn EXCEPT ![h].state = "broken"] /\ conn[h].state = "open"
      BY <2>2 DEF GiveUp
    <3>2. (h = 3 /\ result # "none") \/ (h \in {1, 2} /\ conn[h + 1].state # "open")
      BY <2>2, <1>2 DEF GiveUp
    <3>3. /\ conn' \in [Hop -> Conns] /\ conn'[h].state = "broken"
          /\ conn'[h].pipe = conn[h].pipe /\ conn'[h].trailer = conn[h].trailer
          /\ \A f \in Hop \ {h} : conn'[f] = conn[f]
      BY <3>1, <1>2, StateSet
    <3>4. \A f \in Hop : conn'[f].pipe = conn[f].pipe
      BY <3>3
    <3>5. QED
      BY <3>1, <3>2, <3>3, <3>4
  <2>3. CASE RelayEnds(h)
    <3>1. h \in {1, 2} /\ h + 1 \in {2, 3} /\ h + 1 \in Hop /\ (h + 1) - 1 = h
      BY <2>3, <1>2 DEF RelayEnds, Hop
    <3>2. conn[h + 1].state = "open" /\ conn[h].pipe = <<>>
      BY <2>3 DEF RelayEnds
    <3>3. CASE conn[h].state = "ended"
      <4>1. conn' = [conn EXCEPT ![h + 1].state = "ended", ![h + 1].trailer = Kept(h)]
        BY <2>3, <3>3 DEF RelayEnds
      <4>2. Kept(h) \in {NoTrailer, conn[h].trailer} /\ Kept(h) \in Seq(Pieces)
        BY <1>2 DEF Kept, NoTrailer, Conns
      <4> DEFINE c == [conn EXCEPT ![h + 1].state = "ended"]
                 d == [c EXCEPT ![h + 1].trailer = Kept(h)]
      <4>3. /\ c \in [Hop -> Conns] /\ c[h + 1].state = "ended"
            /\ c[h + 1].pipe = conn[h + 1].pipe /\ \A f \in Hop \ {h + 1} : c[f] = conn[f]
        BY <1>2, <3>1, StateSet
      <4>4. conn' = d
        BY <4>1
      <4>. HIDE DEF c
      <4>5. /\ d \in [Hop -> Conns] /\ d[h + 1].trailer = Kept(h)
            /\ d[h + 1].pipe = c[h + 1].pipe /\ d[h + 1].state = c[h + 1].state
            /\ \A f \in Hop \ {h + 1} : d[f] = c[f]
        BY <4>2, <4>3, <3>1, TrailerSet
      <4>. HIDE DEF d
      <4>6. \A f \in Hop : conn'[f].pipe = conn[f].pipe
        BY <4>3, <4>4, <4>5, <3>1
      <4>7. QED
        BY <4>2, <4>3, <4>4, <4>5, <4>6, <3>1, <3>2, <3>3
    <3>4. CASE conn[h].state = "broken"
      <4>1. conn' = [conn EXCEPT ![h + 1].state = AfterBreak]
        BY <2>3, <3>4 DEF RelayEnds
      <4>2. AfterBreak \in {"broken", "ended"} /\ AfterBreak \in States
        BY DEF AfterBreak
      <4>3. /\ conn' \in [Hop -> Conns] /\ conn'[h + 1].state = AfterBreak
            /\ conn'[h + 1].pipe = conn[h + 1].pipe /\ conn'[h + 1].trailer = conn[h + 1].trailer
            /\ \A f \in Hop \ {h + 1} : conn'[f] = conn[f]
        BY <4>1, <4>2, <3>1, <1>2, StateSet
      <4>4. \A f \in Hop : conn'[f].pipe = conn[f].pipe
        BY <4>3, <3>1
      <4>5. QED
        BY <4>2, <4>3, <4>4, <3>1, <3>2, <3>4
    <3>5. QED
      BY <2>3, <3>3, <3>4 DEF RelayEnds
  <2>4. QED
    BY <2>1, <2>2, <2>3
<1>4. StreamTypes'
  BY <1>1, <1>3 DEF StreamTypes
<1>5. Bounded'
  BY <1>1, <1>2, <1>3 DEF Bounded
<1>6. InOrder' /\ Sound'
  BY <1>1, <1>3, InOrderKept
<1>7. Archived'
  <2>1. conn'[1].state = "ended" => conn[1].state = "ended"
    BY <1>2, <1>3
  <2>2. \A f \in Hop : conn'[f].trailer = NoTrailer \/ \E e \in Hop : conn'[f].trailer = conn[e].trailer
    <3>1. g \in {2, 3} => g - 1 \in Hop
      BY <1>2
    <3>2. QED
      BY <1>3, <3>1
  <2>3. \A f \in Hop : conn'[f].trailer = NoTrailer \/ (walk = "closed" /\ conn'[f].trailer = sent)
    BY <2>2 DEF Archived
  <2>4. QED
    BY <1>1, <2>1, <2>3 DEF Archived
<1>8. Received'
  <2>1. eof => conn'[3] = conn[3]
    BY <1>2, <1>3 DEF Received
  <2>2. QED
    BY <1>1, <2>1 DEF Received, Ended, Extracts
<1>9. Clean'
  <2>1. SUFFICES ASSUME happened' = {}, result = "none"
                 PROVE  /\ \A f \in Hop : conn'[f].state # "broken"
                        /\ \A f \in {1, 2} : conn'[f + 1].state = "ended" =>
                              conn'[f].state = "ended" /\ conn'[f].pipe = <<>>
    <3>1. happened' = {} => happened = {}
      BY <1>1
    <3>2. QED
      BY <1>1, <1>2, <1>3, <2>1, <3>1 DEF Clean
  <2>2. happened = {}
    BY <1>1, <2>1
  <2>3. /\ \A f \in Hop : conn[f].state # "broken"
        /\ conn[2].state = "ended" => conn[1].state = "ended" /\ conn[1].pipe = <<>>
        /\ conn[3].state = "ended" => conn[2].state = "ended" /\ conn[2].pipe = <<>>
    BY <2>1, <2>2 DEF Clean
  <2>4. conn'[g].state = "ended" /\ g \in {2, 3} /\ conn[g - 1].pipe = <<>> /\ conn[g - 1].state = "ended"
    <3>1. g \in {1, 2} => conn[g + 1].state \in {"open", "ended"} /\ (conn[g + 1].state = "ended" => conn[g].state = "ended")
      BY <1>2, <2>3
    <3>2. g \in {2, 3} => conn[g - 1].state \in {"open", "ended"}
      BY <1>2, <2>3
    <3>3. QED
      BY <1>3, <2>1, <3>1, <3>2
  <2>5. \A f \in Hop : conn'[f].state = (IF f = g THEN "ended" ELSE conn[f].state)
    BY <1>3, <2>4
  <2>6. \A f \in Hop : conn'[f].state # "broken"
    BY <2>3, <2>5
  <2>7. /\ conn'[2].state = "ended" => conn'[1].state = "ended" /\ conn'[1].pipe = <<>>
        /\ conn'[3].state = "ended" => conn'[2].state = "ended" /\ conn'[2].pipe = <<>>
    BY <1>2, <1>3, <2>3, <2>4, <2>5
  <2>8. QED
    BY <2>6, <2>7
<1>10. QED
  BY <1>4, <1>5, <1>6, <1>7, <1>8, <1>9

-----------------------------------------------------------------------------
(* Steps that move pieces *)

LEMMA ConcatFacts ==
    ASSUME NEW S, NEW s \in Seq(S), NEW u \in Seq(S)
    PROVE  /\ s \o u \in Seq(S) /\ Len(s \o u) = Len(s) + Len(u)
           /\ \A i \in 1..Len(s) : (s \o u)[i] = s[i]
           /\ \A i \in 1..Len(u) : (s \o u)[Len(s) + i] = u[i]
<1>1. /\ s \o u \in Seq(S) /\ Len(s \o u) = Len(s) + Len(u)
      /\ \A i \in 1..Len(s) + Len(u) : (s \o u)[i] = IF i <= Len(s) THEN s[i] ELSE u[i - Len(s)]
  BY ConcatProperties
<1>2. Len(s) \in Nat /\ Len(u) \in Nat
  OBVIOUS
<1>3. \A i \in 1..Len(s) : i \in 1..Len(s) + Len(u) /\ i <= Len(s)
  BY <1>2
<1>4. \A i \in 1..Len(u) : Len(s) + i \in 1..Len(s) + Len(u) /\ ~(Len(s) + i <= Len(s)) /\ (Len(s) + i) - Len(s) = i
  BY <1>2
<1>5. QED
  BY <1>1, <1>3, <1>4

LEMMA FollowsConcat ==
    ASSUME NEW s \in Seq(Pieces), NEW all \in Seq(Pieces), NEW u \in Seq(Pieces), NEW off \in Nat,
           Follows(s, all, off), off + Len(s) = Len(all)
    PROVE  Follows(s \o u, all \o u, off)
<1>1. /\ Len(s \o u) = Len(s) + Len(u) /\ Len(all \o u) = Len(all) + Len(u)
      /\ Len(s) \in Nat /\ Len(u) \in Nat /\ Len(all) \in Nat
  BY ConcatFacts
<1>2. SUFFICES ASSUME NEW i \in 1..(Len(s) + Len(u))
               PROVE  /\ off + i <= Len(all) + Len(u)
                      /\ (s \o u)[i].what = (all \o u)[off + i].what
  BY <1>1 DEF Follows
<1>3. off + i <= Len(all) + Len(u)
  BY <1>1
<1>4. CASE i \in 1..Len(s)
  <2>1. off + i \in 1..Len(all)
    BY <1>1, <1>4
  <2>2. (s \o u)[i] = s[i] /\ (all \o u)[off + i] = all[off + i]
    BY <1>4, <2>1, ConcatFacts
  <2>3. QED
    BY <1>3, <1>4, <2>2 DEF Follows
<1>5. CASE i \notin 1..Len(s)
  <2>1. PICK j \in 1..Len(u) : i = Len(s) + j /\ off + i = Len(all) + j
    <3> DEFINE a == Len(s)
               b == Len(u)
               c == Len(all)
    <3>1. a \in Nat /\ b \in Nat /\ c \in Nat /\ i \in 1..(a + b) /\ i \notin 1..a /\ off + a = c
      BY <1>1, <1>5
    <3>. HIDE DEF a, b, c
    <3>2. i - a \in 1..b /\ i = a + (i - a) /\ off + i = c + (i - a)
      BY <3>1
    <3>3. QED
      BY <3>2 DEF a, b, c
  <2>2. (s \o u)[i] = u[j] /\ (all \o u)[off + i] = u[j]
    BY <2>1, ConcatFacts
  <2>3. QED
    BY <1>3, <2>2
<1>6. QED
  BY <1>4, <1>5

\* Pieces that are sent come last.
LEMMA SendKeepsOrder ==
    ASSUME StreamTypes, InOrder, Sound, NEW u \in Seq(Pieces), \A i \in 1..Len(u) : ~u[i].damaged,
           UNCHANGED <<got, happened>>, sent' = sent \o u, conn'[1].pipe = conn[1].pipe \o u,
           \A h \in {2, 3} : conn'[h].pipe = conn[h].pipe
    PROVE  InOrder' /\ Sound'
<1>1. 1 \in Hop /\ 2 \in Hop /\ 3 \in Hop /\ \A h \in Hop : h = 1 \/ h = 2 \/ h = 3
  BY DEF Hop
<1>2. /\ Len(got) \in Nat /\ Len(sent) \in Nat /\ Len(u) \in Nat
      /\ \A h \in Hop : /\ conn[h].pipe \in Seq(Pieces) /\ Len(conn[h].pipe) \in Nat /\ Past(h) \in Nat
  BY Lengths
<1>3. sent \in Seq(Pieces) /\ got \in Seq(Pieces) /\ 0 \in Nat
  BY DEF StreamTypes
<1>4. /\ sent' \in Seq(Pieces) /\ Len(sent') = Len(sent) + Len(u) /\ Len(sent) <= Len(sent')
      /\ \A i \in 1..Len(sent) : sent'[i] = sent[i]
  BY <1>2, <1>3, ConcatFacts
<1>5. Sound'
  <2>1. SUFFICES ASSUME Undamaged(conn[1].pipe)
                 PROVE  Undamaged(conn[1].pipe \o u)
    BY <1>1 DEF Sound
  <2>. DEFINE a == conn[1].pipe
  <2>2. a \in Seq(Pieces) /\ DOMAIN a = 1..Len(a) /\ DOMAIN (a \o u) = 1..Len(a \o u)
    BY <1>1, <1>2, ConcatFacts
  <2>2a. Undamaged(a)
    BY <2>1
  <2>. HIDE DEF a
  <2>3. SUFFICES ASSUME NEW i \in 1..(Len(a) + Len(u))
                 PROVE  ~(a \o u)[i].damaged
    BY <2>2, ConcatFacts DEF Undamaged, a
  <2>4. CASE i \in 1..Len(a)
    <3>1. (a \o u)[i] = a[i]
      BY <2>2, <2>4, ConcatFacts
    <3>2. ~a[i].damaged
      BY <2>2, <2>2a, <2>4 DEF Undamaged
    <3>3. QED
      BY <3>1, <3>2
  <2>5. CASE i \notin 1..Len(a)
    <3>1. i - Len(a) \in 1..Len(u) /\ i = Len(a) + (i - Len(a))
      BY <2>2, <2>5, <1>2
    <3>2. QED
      BY <3>1, <2>2, ConcatFacts
  <2>6. QED
    BY <2>4, <2>5
<1>6. \A h \in Hop : Past(h)' = Past(h)
  BY DEF Past
<1>7. ASSUME NEW s \in Seq(Pieces), NEW off \in Nat, Follows(s, sent, off)
      PROVE  Follows(s, sent', off)
  <2>1. sent \in Seq(Pieces) /\ sent' \in Seq(Pieces) /\ Len(sent) <= Len(sent')
    BY <1>3, <1>4
  <2>2. QED
    BY <2>1, <1>4, <1>7, FollowsGrow
<1>8. Follows(got, sent', 0)
  BY <1>3, <1>7 DEF InOrder
<1>9. \A h \in {2, 3} : Follows(conn[h].pipe, sent', Past(h))
  BY <1>1, <1>2, <1>7 DEF InOrder
<1>9a. Follows(conn[1].pipe \o u, sent \o u, Past(1))
  <2>1. Follows(conn[1].pipe, sent, Past(1)) /\ Past(1) + Len(conn[1].pipe) = Len(sent)
    BY <1>1 DEF InOrder
  <2>2. QED
    BY <1>1, <1>2, <1>3, <2>1, FollowsConcat
<1>10. Past(1)' + Len(conn'[1].pipe) = Len(sent')
  <2>1. Len(conn'[1].pipe) = Len(conn[1].pipe) + Len(u)
    BY <1>1, <1>2, ConcatFacts
  <2>. DEFINE a == Past(1)
              b == Len(conn[1].pipe)
              c == Len(sent)
              d == Len(u)
  <2>2. a \in Nat /\ b \in Nat /\ c \in Nat /\ d \in Nat /\ a + b = c
    BY <1>1, <1>2 DEF InOrder
  <2>. HIDE DEF a, b, c, d
  <2>3. a + (b + d) = c + d
    BY <2>2
  <2>4. Past(1) + (Len(conn[1].pipe) + Len(u)) = Len(sent) + Len(u)
    BY <2>3 DEF a, b, c, d
  <2>5. Past(1)' = Past(1)
    BY <1>1, <1>6
  <2>6. QED
    BY <1>4, <2>1, <2>4, <2>5
<1>11. QED
  <2>1. \A h \in Hop : Follows(conn'[h].pipe, sent', Past(h))
    BY <1>1, <1>9, <1>9a
  <2>2. \A h \in Hop : Follows(conn'[h].pipe, sent', Past(h)')
    BY <1>6, <2>1
  <2>3. QED
    BY <1>5, <1>8, <1>10, <2>2 DEF InOrder

LEMMA PieceType ==
    ASSUME TransferAssumption, NEW n \in 0..Files + 2
    PROVE  Piece(n) \in Pieces
BY DEF Piece, Pieces

LEMMA WriteStep ==
    ASSUME TransferAssumption, StreamInv, UNCHANGED kind, WriteFile
    PROVE  StreamInv'
<1>. USE DEF StreamInv
<1>. DEFINE x == Piece(Len(sent) + 1)
<1>1. /\ walk = "on" /\ err = "none" /\ Len(sent) < Files /\ conn[1].state = "open" /\ Len(conn[1].pipe) < Cap
      /\ UNCHANGED <<walk, err, est, got, eof, result, happened, kind>>
      /\ sent' = Append(sent, x) /\ conn' = [conn EXCEPT ![1].pipe = @ \o <<x>>]
  BY DEF WriteFile, Room, Put
<1>2. 1 \in Hop /\ 2 \in Hop /\ 3 \in Hop /\ \A h \in Hop : h = 1 \/ h = 2 \/ h = 3
  BY DEF Hop
<1>3. /\ Len(sent) \in Nat /\ Files \in Nat /\ Cap \in Nat /\ conn[1].pipe \in Seq(Pieces)
      /\ Len(conn[1].pipe) \in Nat /\ sent \in Seq(Pieces) /\ conn \in [Hop -> Conns]
  BY <1>2, Lengths DEF TransferAssumption, StreamTypes
<1>4. x \in Pieces /\ x.damaged = FALSE
  <2>1. Len(sent) + 1 \in 0..Files + 2
    BY <1>1, <1>3
  <2>2. QED
    BY <2>1, PieceType, PieceIs
<1>. HIDE DEF x
<1>5. /\ <<x>> \in Seq(Pieces) /\ Len(<<x>>) = 1 /\ <<x>>[1] = x
      /\ \A n \in 1..Len(<<x>>) : ~<<x>>[n].damaged
  BY <1>4
<1>6. Append(sent, x) = sent \o <<x>>
  BY <1>3, <1>4, AppendIsConcat
<1>7. /\ sent' \in Seq(Pieces) /\ Len(sent') = Len(sent) + 1
      /\ \A i \in 1..Len(sent) : sent'[i] = sent[i]
      /\ sent'[Len(sent) + 1] = x
  BY <1>1, <1>3, <1>4, AppendFacts
<1>8. conn[1].pipe \o <<x>> \in Seq(Pieces) /\ Len(conn[1].pipe \o <<x>>) = Len(conn[1].pipe) + 1
  BY <1>3, <1>5, ConcatFacts
<1>9. /\ conn' \in [Hop -> Conns] /\ conn'[1].pipe = conn[1].pipe \o <<x>>
      /\ conn'[1].state = conn[1].state /\ conn'[1].trailer = conn[1].trailer
      /\ \A g \in Hop \ {1} : conn'[g] = conn[g]
  <2>1. conn' = [conn EXCEPT ![1].pipe = conn[1].pipe \o <<x>>]
    BY <1>1
  <2>2. QED
    BY <2>1, <1>2, <1>3, <1>8 DEF Conns, Hop
<1>10. conn'[2] = conn[2] /\ conn'[3] = conn[3]
  BY <1>2, <1>9
<1>11. StreamTypes'
  BY <1>1, <1>7, <1>9 DEF StreamTypes
<1>12. Bounded'
  <2>1. Len(conn'[1].pipe) <= Cap /\ Len(conn'[1].pipe) <= Cap + 2
    BY <1>1, <1>3, <1>8, <1>9
  <2>2. QED
    BY <1>2, <1>10, <2>1 DEF Bounded
<1>13. InOrder' /\ Sound'
  BY <1>1, <1>5, <1>6, <1>9, <1>10, SendKeepsOrder
<1>14. Archived'
  <2>1. Len(sent') <= Files /\ Len(sent') <= Files + 2
    BY <1>1, <1>3, <1>7
  <2>2. \A i \in 1..Len(sent) : sent[i] = Piece(i)
    BY <1>1 DEF Archived
  <2>3. \A i \in 1..Len(sent') : i \in 1..Len(sent) \/ i = Len(sent) + 1
    BY <1>3, <1>7
  <2>4. \A i \in 1..Len(sent') : sent'[i] = Piece(i)
    BY <2>2, <2>3, <1>7 DEF x
  <2>5. \A h \in Hop : conn'[h].trailer = NoTrailer
    BY <1>1, <1>2, <1>9, <1>10 DEF Archived
  <2>6. walk' = "on" /\ conn'[1].state # "ended"
    BY <1>1, <1>9
  <2>7. QED
    BY <2>1, <2>4, <2>5, <2>6 DEF Archived
<1>15. Received'
  BY <1>1, <1>10 DEF Received, Ended, Extracts
<1>16. Clean'
  <2>1. \A h \in Hop : conn'[h].state = conn[h].state
    BY <1>2, <1>9, <1>10
  <2>2. SUFFICES ASSUME happened = {}, result = "none"
                 PROVE  \A h \in {1, 2} : conn'[h + 1].state = "ended" => conn'[h].state = "ended" /\ conn'[h].pipe = <<>>
    BY <1>1, <1>10, <2>1 DEF Clean
  <2>3. conn[2].state # "ended"
    BY <1>1, <2>2 DEF Clean
  <2>4. conn[3].state = "ended" => conn[2].state = "ended"
    BY <2>2 DEF Clean
  <2>5. QED
    BY <1>10, <2>3, <2>4
<1>17. QED
  BY <1>11, <1>12, <1>13, <1>14, <1>15, <1>16

LEMMA ClosingFacts ==
    ASSUME TransferAssumption, StreamInv, walk = "over"
    PROVE  /\ Closing \in Seq(Pieces) /\ Len(Closing) <= 2 /\ Len(sent) + Len(Closing) <= Files + 2
           /\ \A i \in 1..Len(Closing) : ~Closing[i].damaged
           /\ \A i \in 1..Len(Closing) :
                Closing[i] = Piece(Len(sent) + i) \/ (i = Len(Closing) /\ Closing[i] = Piece(0))
           /\ err = "none" =>
                /\ Len(sent) + Len(Closing) = Files + 2
                /\ \A i \in 1..Len(Closing) : Closing[i] = Piece(Len(sent) + i)
<1>1. Len(sent) \in Nat /\ Files \in Nat
  BY Lengths DEF StreamInv, TransferAssumption
<1>2. Len(sent) <= Files /\ (err = "none" => Len(sent) = Files)
  BY DEF StreamInv, Archived
<1>3. Piece(0) \in Pieces /\ Piece(Files + 1) \in Pieces /\ Piece(Files + 2) \in Pieces
  <2>1. 0 \in 0..Files + 2 /\ Files + 1 \in 0..Files + 2 /\ Files + 2 \in 0..Files + 2
    BY <1>1
  <2>2. QED
    BY <2>1, PieceType
<1>4. CASE err = "none"
  <2>. DEFINE a == Piece(Files + 1)
              b == Piece(Files + 2)
  <2>1. Closing = <<a, b>> /\ a \in Pieces /\ b \in Pieces /\ ~a.damaged /\ ~b.damaged
    BY <1>3, <1>4, PieceIs DEF Closing, EndOfTar, EndOfGzip
  <2>2. a = Piece(Len(sent) + 1) /\ b = Piece(Len(sent) + 2)
    BY <1>2, <1>4
  <2>. HIDE DEF a, b
  <2>3. Closing \in Seq(Pieces) /\ Len(Closing) = 2 /\ Closing[1] = a /\ Closing[2] = b
    BY <2>1
  <2>4. \A i \in 1..Len(Closing) : i = 1 \/ i = 2
    BY <2>3
  <2>5. Len(sent) + Len(Closing) = Files + 2
    BY <1>2, <1>4, <2>3
  <2>6. Len(Closing) <= 2 /\ Len(sent) + Len(Closing) <= Files + 2
    BY <1>1, <2>3, <2>5
  <2>7. QED
    BY <2>1, <2>2, <2>3, <2>4, <2>5, <2>6
<1>5. CASE err # "none" /\ Up
  <2>1. Closing = <<>> /\ Closing \in Seq(Pieces) /\ Len(Closing) = 0
    BY <1>5 DEF Closing
  <2>2. QED
    BY <2>1, <1>1, <1>2, <1>5
<1>6. CASE err # "none" /\ ~Up
  <2>. DEFINE a == Piece(0)
  <2>1. Closing = <<a>> /\ a \in Pieces /\ ~a.damaged
    BY <1>3, <1>6, PieceIs DEF Closing, Message
  <2>. HIDE DEF a
  <2>2. Closing \in Seq(Pieces) /\ Len(Closing) = 1 /\ Closing[1] = a
    BY <2>1
  <2>3. \A i \in 1..Len(Closing) : i = 1
    BY <2>2
  <2>4. Len(sent) + Len(Closing) <= Files + 2 /\ Len(Closing) <= 2
    BY <2>2, <1>1, <1>2
  <2>5. QED
    BY <2>1, <2>2, <2>3, <2>4, <1>6 DEF a
<1>7. QED
  BY <1>4, <1>5, <1>6

LEMMA CloseStep ==
    ASSUME TransferAssumption, StreamInv, UNCHANGED kind, CloseStream
    PROVE  StreamInv'
<1>. USE DEF StreamInv
<1>1. /\ walk = "over" /\ walk' = "closed" /\ conn[1].state = "open"
      /\ UNCHANGED <<err, est, got, eof, result, happened, kind>>
      /\ sent' = sent \o Closing
  BY DEF CloseStream
<1>2. 1 \in Hop /\ 2 \in Hop /\ 3 \in Hop /\ \A h \in Hop : h = 1 \/ h = 2 \/ h = 3
  BY DEF Hop
<1>3. /\ Len(sent) \in Nat /\ Files \in Nat /\ Cap \in Nat /\ conn[1].pipe \in Seq(Pieces)
      /\ Len(conn[1].pipe) \in Nat /\ sent \in Seq(Pieces) /\ conn \in [Hop -> Conns]
  BY <1>2, Lengths DEF TransferAssumption, StreamTypes
<1>. DEFINE u == Closing
            t == IF Up \/ err = "none" THEN sent' ELSE NoTrailer
            c == [pipe |-> conn[1].pipe \o u, state |-> "ended", trailer |-> t]
<1>4. /\ u \in Seq(Pieces) /\ Len(u) <= 2 /\ Len(sent) + Len(u) <= Files + 2 /\ Len(u) \in Nat
      /\ \A i \in 1..Len(u) : ~u[i].damaged
      /\ \A i \in 1..Len(u) : u[i] = Piece(Len(sent) + i) \/ (i = Len(u) /\ u[i] = Piece(0))
      /\ err = "none" => /\ Len(sent) + Len(u) = Files + 2
                          /\ \A i \in 1..Len(u) : u[i] = Piece(Len(sent) + i)
  <2>1. u \in Seq(Pieces)
    BY <1>1, ClosingFacts
  <2>2. Len(u) \in Nat
    BY <2>1
  <2>3. QED
    BY <2>1, <2>2, <1>1, ClosingFacts
<1>5. conn' = [conn EXCEPT ![1] = c]
  BY DEF CloseStream
<1>. HIDE DEF u
<1>6. /\ sent' \in Seq(Pieces) /\ Len(sent') = Len(sent) + Len(u)
      /\ \A i \in 1..Len(sent) : sent'[i] = sent[i]
      /\ \A i \in 1..Len(u) : sent'[Len(sent) + i] = u[i]
  BY <1>1, <1>3, <1>4, ConcatFacts DEF u
<1>7. conn[1].pipe \o u \in Seq(Pieces) /\ Len(conn[1].pipe \o u) = Len(conn[1].pipe) + Len(u)
  BY <1>3, <1>4, ConcatFacts
<1>8. t \in Seq(Pieces) /\ (t = NoTrailer \/ t = sent')
  BY <1>6 DEF NoTrailer
<1>. HIDE DEF t
<1>9. c \in Conns /\ c.pipe = conn[1].pipe \o u /\ c.state = "ended" /\ c.trailer = t
  BY <1>7, <1>8 DEF Conns, States
<1>. HIDE DEF c
<1>10. /\ conn' \in [Hop -> Conns] /\ conn'[1] = c /\ conn'[2] = conn[2] /\ conn'[3] = conn[3]
  BY <1>2, <1>3, <1>5, <1>9
<1>11. StreamTypes'
  BY <1>1, <1>6, <1>10 DEF StreamTypes
<1>12. Bounded'
  <2>1. Len(conn[1].pipe) <= Cap
    BY <1>1 DEF Bounded
  <2>2. Len(conn'[1].pipe) <= Cap + 2
    BY <1>3, <1>4, <1>7, <1>9, <1>10, <2>1
  <2>3. QED
    BY <1>1, <1>2, <1>10, <2>2 DEF Bounded
<1>13. InOrder' /\ Sound'
  <2>1. sent' = sent \o u /\ UNCHANGED <<got, happened>>
    BY <1>1 DEF u
  <2>2. conn'[1].pipe = conn[1].pipe \o u /\ \A h \in {2, 3} : conn'[h].pipe = conn[h].pipe
    BY <1>9, <1>10
  <2>3. u \in Seq(Pieces) /\ \A i \in 1..Len(u) : ~u[i].damaged
    BY <1>4
  <2>4. StreamTypes /\ InOrder /\ Sound
    OBVIOUS
  <2>5. QED
    BY <2>1, <2>2, <2>3, <2>4, SendKeepsOrder
<1>14. \A i \in 1..Len(sent') :
         \/ i \in 1..Len(sent) /\ sent'[i] = Piece(i)
         \/ \E j \in 1..Len(u) : i = Len(sent) + j /\ sent'[i] = u[j]
  <2>1. SUFFICES ASSUME NEW i \in 1..(Len(sent) + Len(u))
                 PROVE  \/ i \in 1..Len(sent) /\ sent'[i] = Piece(i)
                        \/ \E j \in 1..Len(u) : i = Len(sent) + j /\ sent'[i] = u[j]
    BY <1>6
  <2>2. CASE i \in 1..Len(sent)
    <3>1. sent[i] = Piece(i)
      BY <1>1, <2>2 DEF Archived
    <3>2. QED
      BY <3>1, <2>2, <1>6
  <2>3. CASE i \notin 1..Len(sent)
    <3>1. i - Len(sent) \in 1..Len(u) /\ i = Len(sent) + (i - Len(sent))
      BY <2>3, <1>3, <1>4
    <3>2. QED
      BY <3>1, <1>6
  <2>4. QED
    BY <2>2, <2>3
<1>15. Archived'
  <2>1. \A i \in 1..Len(sent') : sent'[i] = Piece(i) \/ (i = Len(sent') /\ sent'[i] = Piece(0))
    <3>1. SUFFICES ASSUME NEW i \in 1..Len(sent'), NEW j \in 1..Len(u), i = Len(sent) + j, sent'[i] = u[j]
                   PROVE  sent'[i] = Piece(i) \/ (i = Len(sent') /\ sent'[i] = Piece(0))
      BY <1>14
    <3>2. u[j] = Piece(i) \/ (j = Len(u) /\ u[j] = Piece(0))
      BY <1>4, <3>1
    <3>3. QED
      BY <3>1, <3>2, <1>6
  <2>2. \A h \in Hop : conn'[h].trailer = NoTrailer \/ conn'[h].trailer = sent'
    BY <1>1, <1>2, <1>8, <1>9, <1>10 DEF Archived
  <2>3. Len(sent') <= Files + 2
    BY <1>4, <1>6
  <2>4. QED
    BY <1>1, <2>1, <2>2, <2>3 DEF Archived
<1>16. Received'
  BY <1>1, <1>10 DEF Received, Ended, Extracts
<1>17. Clean'
  <2>1. SUFFICES ASSUME happened = {}, result = "none"
                 PROVE  /\ err = "none" /\ \A h \in Hop : conn'[h].state # "broken"
                        /\ \A h \in {1, 2} : conn'[h + 1].state = "ended" => conn'[h].state = "ended" /\ conn'[h].pipe = <<>>
                        /\ Len(sent') = Files + 2 /\ \A i \in 1..Len(sent') : sent'[i] = Piece(i)
    BY <1>1, <1>10 DEF Clean
  <2>2. err = "none" /\ \A h \in Hop : conn[h].state # "broken"
    BY <2>1 DEF Clean
  <2>3. conn[2].state # "ended"
    BY <1>1, <2>1 DEF Clean
  <2>4. conn[3].state # "ended"
    BY <2>1, <2>3 DEF Clean
  <2>5. Len(sent') = Files + 2 /\ \A i \in 1..Len(sent') : sent'[i] = Piece(i)
    BY <1>4, <1>6, <1>14, <2>2
  <2>6. \A h \in Hop : conn'[h].state # "broken"
    BY <1>2, <1>9, <1>10, <2>2
  <2>7. QED
    BY <1>10, <2>2, <2>3, <2>4, <2>5, <2>6
<1>18. QED
  BY <1>11, <1>12, <1>13, <1>15, <1>16, <1>17

LEMMA DamageStep ==
    ASSUME TransferAssumption, StreamInv, UNCHANGED kind, NEW h \in Hop, Damage(h)
    PROVE  StreamInv'
<1>. USE DEF StreamInv
<1>1. /\ conn[h].pipe # <<>> /\ conn' = [conn EXCEPT ![h].pipe[1].damaged = TRUE]
      /\ happened' = happened \cup {"damage"} /\ happened' \subseteq Faults
      /\ UNCHANGED <<walk, err, est, sent, got, eof, result, kind>>
  BY DEF Damage, Fault, StreamTypes
<1>2. 1 \in Hop /\ 2 \in Hop /\ 3 \in Hop /\ \A g \in Hop : g = 1 \/ g = 2 \/ g = 3
  BY DEF Hop
<1>3. /\ conn \in [Hop -> Conns] /\ conn[h].pipe \in Seq(Pieces) /\ Len(conn[h].pipe) \in Nat
      /\ conn[h].pipe[1] \in Pieces
  BY <1>1, Lengths, RestFacts DEF StreamTypes
<1>. DEFINE x == [conn[h].pipe[1] EXCEPT !.damaged = TRUE]
            q == [conn[h].pipe EXCEPT ![1] = x]
<1>4. x \in Pieces /\ x.what = conn[h].pipe[1].what
  BY <1>3 DEF Pieces
<1>5. conn' = [conn EXCEPT ![h].pipe = q]
  BY <1>1
<1>. HIDE DEF x
<1>6. q \in Seq(Pieces) /\ Len(q) = Len(conn[h].pipe) /\ \A i \in 1..Len(q) : q[i].what = conn[h].pipe[i].what
  <2>. DEFINE s == conn[h].pipe
  <2>1. s \in Seq(Pieces) /\ Len(s) \in Nat /\ Len(s) >= 1 /\ 1 \in 1..Len(s)
    BY <1>1, <1>3, RestFacts
  <2>. HIDE DEF s
  <2>2. [s EXCEPT ![1] = x] \in Seq(Pieces) /\ Len([s EXCEPT ![1] = x]) = Len(s)
    BY <2>1, <1>4, ExceptSeq
  <2>3. \A i \in 1..Len(s) : [s EXCEPT ![1] = x][i] = IF i = 1 THEN x ELSE s[i]
    BY <2>1, <1>4, ExceptSeq
  <2>4. x.what = s[1].what
    BY <1>4 DEF s
  <2>5. \A i \in 1..Len(s) : [s EXCEPT ![1] = x][i].what = s[i].what
    BY <2>3, <2>4
  <2>6. QED
    BY <2>2, <2>5 DEF s
<1>. HIDE DEF q
<1>7. /\ conn' \in [Hop -> Conns] /\ conn'[h].pipe = q
      /\ conn'[h].state = conn[h].state /\ conn'[h].trailer = conn[h].trailer
      /\ \A g \in Hop \ {h} : conn'[g] = conn[g]
  BY <1>3, <1>5, <1>6, PipeSet
<1>8. /\ \A g \in Hop : conn'[g].state = conn[g].state /\ conn'[g].trailer = conn[g].trailer
      /\ \A g \in Hop : Len(conn'[g].pipe) = Len(conn[g].pipe)
      /\ \A g \in Hop : \A i \in 1..Len(conn[g].pipe) : conn'[g].pipe[i].what = conn[g].pipe[i].what
  BY <1>6, <1>7
<1>9. StreamTypes'
  BY <1>1, <1>7 DEF StreamTypes
<1>10. Bounded'
  BY <1>1, <1>2, <1>8 DEF Bounded
<1>11. InOrder'
  <2>0. Len(conn'[2].pipe) = Len(conn[2].pipe) /\ Len(conn'[3].pipe) = Len(conn[3].pipe) /\ got' = got
    BY <1>1, <1>2, <1>8
  <2>1. \A g \in Hop : Past(g)' = Past(g)
    BY <2>0 DEF Past
  <2>2. \A g \in Hop : Follows(conn'[g].pipe, sent, Past(g))
    BY <1>8 DEF InOrder, Follows
  <2>3. \A g \in Hop : Follows(conn'[g].pipe, sent', Past(g)')
    BY <1>1, <2>1, <2>2
  <2>4. Past(1)' + Len(conn'[1].pipe) = Len(sent')
    BY <1>1, <1>2, <1>8, <2>1 DEF InOrder
  <2>5. QED
    BY <1>1, <2>3, <2>4 DEF InOrder
<1>12. Archived'
  BY <1>1, <1>2, <1>8 DEF Archived
<1>13. Received'
  BY <1>1, <1>2, <1>8 DEF Received, Ended, Extracts
<1>14. Sound' /\ Clean'
  BY <1>1 DEF Sound, Clean
<1>15. QED
  BY <1>9, <1>10, <1>11, <1>12, <1>13, <1>14

\* The first piece of a connection leaves it; x is where it goes.
LEMMA FirstLeaves ==
    ASSUME StreamTypes, InOrder, NEW h \in Hop, conn[h].pipe # <<>>
    PROVE  LET s == conn[h].pipe
               q == SubSeq(s, 2, Len(s))
           IN  /\ q \in Seq(Pieces) /\ Len(q) + 1 = Len(s) /\ s[1] \in Pieces
               /\ Follows(q, sent, Past(h) + 1)
               /\ Past(h) + 1 <= Len(sent) /\ s[1].what = sent[Past(h) + 1].what
               /\ Undamaged(s) => Undamaged(q) /\ ~s[1].damaged
<1>. DEFINE s == conn[h].pipe
            q == SubSeq(s, 2, Len(s))
<1>1. s \in Seq(Pieces) /\ s # <<>> /\ Past(h) \in Nat /\ sent \in Seq(Pieces) /\ Follows(s, sent, Past(h))
  BY Lengths DEF StreamTypes, InOrder
<1>. HIDE DEF s
<1>2. /\ q \in Seq(Pieces) /\ Len(q) = Len(s) - 1 /\ \A i \in 1..(Len(s) - 1) : q[i] = s[i + 1]
      /\ s[1] \in Pieces /\ Len(s) \in Nat /\ Len(s) >= 1
  BY <1>1, RestFacts
<1>3. /\ Follows(q, sent, Past(h) + 1)
      /\ Past(h) + 1 <= Len(sent) /\ s[1].what = sent[Past(h) + 1].what
  BY <1>1, FollowsRest
<1>4. ASSUME Undamaged(s)
      PROVE  Undamaged(q) /\ ~s[1].damaged
  <2>1. \A i \in 1..Len(s) : ~s[i].damaged
    BY <1>1, <1>4 DEF Undamaged
  <2>2. 1 \in 1..Len(s) /\ \A i \in 1..(Len(s) - 1) : i + 1 \in 1..Len(s)
    BY <1>2
  <2>3. DOMAIN q = 1..(Len(s) - 1)
    BY <1>2
  <2>4. QED
    BY <1>2, <2>1, <2>2, <2>3 DEF Undamaged
<1>5. Len(q) + 1 = Len(s)
  BY <1>2
<1>6. QED
  BY <1>2, <1>3, <1>4, <1>5 DEF s

LEMMA UndamagedAppend ==
    ASSUME NEW s \in Seq(Pieces), NEW x \in Pieces, Undamaged(s), ~x.damaged
    PROVE  Undamaged(Append(s, x))
<1>1. /\ DOMAIN s = 1..Len(s) /\ DOMAIN Append(s, x) = 1..(Len(s) + 1) /\ Len(s) \in Nat
      /\ \A i \in 1..Len(s) : Append(s, x)[i] = s[i]
      /\ Append(s, x)[Len(s) + 1] = x
  BY AppendFacts
<1>2. \A i \in 1..(Len(s) + 1) : i \in 1..Len(s) \/ i = Len(s) + 1
  BY <1>1
<1>3. QED
  BY <1>1, <1>2 DEF Undamaged

LEMMA ReadStep ==
    ASSUME TransferAssumption, StreamInv, UNCHANGED kind, Read
    PROVE  StreamInv'
<1>. USE DEF StreamInv
<1>. DEFINE s == conn[3].pipe
            q == SubSeq(s, 2, Len(s))
            x == s[1]
<1>1. /\ result = "none" /\ s # <<>> /\ got' = Append(got, x) /\ conn' = [conn EXCEPT ![3].pipe = q]
      /\ UNCHANGED <<walk, err, est, sent, eof, result, happened, kind>>
  BY DEF Read
<1>2. 1 \in Hop /\ 2 \in Hop /\ 3 \in Hop /\ \A g \in Hop : g = 1 \/ g = 2 \/ g = 3
  BY DEF Hop
<1>3. /\ q \in Seq(Pieces) /\ Len(q) + 1 = Len(s) /\ x \in Pieces
      /\ Follows(q, sent, Past(3) + 1)
      /\ Past(3) + 1 <= Len(sent) /\ x.what = sent[Past(3) + 1].what
      /\ Undamaged(s) => Undamaged(q) /\ ~x.damaged
  BY <1>1, <1>2, FirstLeaves
<1>4. /\ conn \in [Hop -> Conns] /\ got \in Seq(Pieces) /\ sent \in Seq(Pieces)
      /\ Len(got) \in Nat /\ Len(s) \in Nat /\ Len(conn[2].pipe) \in Nat /\ Len(conn[1].pipe) \in Nat
      /\ Past(3) = Len(got) /\ Past(2) = Len(got) + Len(s) /\ Past(1) = Len(got) + Len(s) + Len(conn[2].pipe)
  BY <1>2, Lengths, PastIs DEF StreamTypes
<1>. HIDE DEF q, x
<1>5. /\ conn' \in [Hop -> Conns] /\ conn'[3].pipe = q
      /\ conn'[3].state = conn[3].state /\ conn'[3].trailer = conn[3].trailer
      /\ conn'[1] = conn[1] /\ conn'[2] = conn[2]
  <2>1. conn' = [conn EXCEPT ![3].pipe = q]
    BY <1>1
  <2>2. q \in Seq(Pieces) /\ conn \in [Hop -> Conns]
    BY <1>3, <1>4
  <2>3. /\ conn' \in [Hop -> Conns] /\ conn'[3].pipe = q
        /\ conn'[3].state = conn[3].state /\ conn'[3].trailer = conn[3].trailer
        /\ \A g \in Hop \ {3} : conn'[g] = conn[g]
    <3>1. PICK h \in Hop : h = 3
      BY <1>2
    <3>2. conn' = [conn EXCEPT ![h].pipe = q]
      BY <2>1, <3>1
    <3>3. /\ conn' \in [Hop -> Conns] /\ conn'[h].pipe = q
          /\ conn'[h].state = conn[h].state /\ conn'[h].trailer = conn[h].trailer
          /\ \A g \in Hop \ {h} : conn'[g] = conn[g]
      BY <3>2, <2>2, PipeSet
    <3>4. QED
      BY <3>1, <3>3
  <2>4. QED
    BY <1>2, <2>3
<1>6. got' \in Seq(Pieces) /\ Len(got') = Len(got) + 1
  BY <1>1, <1>3, <1>4, AppendFacts
<1>. HIDE DEF s
<1>7. /\ Past(3)' = Past(3) + 1 /\ Past(2)' = Past(2) /\ Past(1)' = Past(1) /\ Len(q) \in Nat
  <2>1. Past(3)' = Len(got') /\ Past(2)' = Len(got') + Len(q) /\ Past(1)' = Len(got') + Len(q) + Len(conn[2].pipe)
    BY <1>5, PastIsThen
  <2>2. Len(q) \in Nat
    BY <1>3
  <2> DEFINE a == Len(got)
             b == Len(s)
             c == Len(conn[2].pipe)
             e == Len(q)
             f == Len(got')
  <2>3. a \in Nat /\ b \in Nat /\ c \in Nat /\ e \in Nat /\ e + 1 = b /\ f = a + 1
    BY <1>3, <1>4, <1>6, <2>2
  <2>. HIDE DEF a, b, c, e, f
  <2>4. f + e = a + b /\ f + e + c = a + b + c
    BY <2>3
  <2>5. Past(2)' = Past(2) /\ Past(1)' = Past(1)
    BY <1>4, <2>1, <2>4 DEF a, b, c, e, f
  <2>6. QED
    BY <1>4, <1>6, <2>1, <2>2, <2>5
<1>8. StreamTypes'
  BY <1>1, <1>5, <1>6 DEF StreamTypes
<1>9. Bounded'
  <2>1. Len(s) <= Cap /\ Cap \in Nat
    BY <1>2 DEF Bounded, TransferAssumption, s
  <2>2. Len(q) <= Cap
    BY <2>1, <1>3, <1>4, <1>7
  <2>3. QED
    BY <1>1, <1>2, <1>5, <2>2 DEF Bounded
<1>10. InOrder'
  <2>1. Follows(got', sent, 0)
    <3>1. Follows(got, sent, 0) /\ 0 \in Nat /\ 0 + Len(got) + 1 = Past(3) + 1
      BY <1>4 DEF InOrder
    <3>2. QED
      BY <1>1, <1>3, <1>4, <3>1, FollowsAppend
  <2>2. \A g \in Hop : Follows(conn'[g].pipe, sent, Past(g)')
    BY <1>2, <1>3, <1>5, <1>7 DEF InOrder
  <2>3. Past(1)' + Len(conn'[1].pipe) = Len(sent)
    BY <1>5, <1>7 DEF InOrder
  <2>4. QED
    BY <1>1, <2>1, <2>2, <2>3 DEF InOrder
<1>11. Sound'
  <2>1. SUFFICES ASSUME Undamaged(got), Undamaged(s), \A g \in Hop : Undamaged(conn[g].pipe)
                 PROVE  Undamaged(got') /\ \A g \in Hop : Undamaged(conn'[g].pipe)
    BY <1>1, <1>2 DEF Sound, s
  <2>2. Undamaged(q) /\ ~x.damaged
    BY <1>3, <2>1
  <2>3. Undamaged(got')
    BY <1>1, <1>3, <1>4, <2>1, <2>2, UndamagedAppend
  <2>4. QED
    BY <1>2, <1>5, <2>1, <2>2, <2>3
<1>12. Archived'
  BY <1>1, <1>2, <1>5 DEF Archived
<1>13. Received'
  BY <1>1, <1>5 DEF Received
<1>14. Clean'
  <2>1. \A g \in Hop : conn'[g].state = conn[g].state
    BY <1>2, <1>5
  <2>2. happened = {} => ~eof
    BY <1>1 DEF Clean, s
  <2>3. happened = {} => \A h \in {1, 2} : conn[h + 1].state = "ended" => conn[h].state = "ended" /\ conn[h].pipe = <<>>
    BY <1>1 DEF Clean
  <2>4. happened = {} => \A h \in {1, 2} : conn'[h + 1].state = "ended" => conn'[h].state = "ended" /\ conn'[h].pipe = <<>>
    BY <1>5, <2>3
  <2>5. QED
    BY <1>1, <2>1, <2>2, <2>4 DEF Clean
<1>15. QED
  BY <1>8, <1>9, <1>10, <1>11, <1>12, <1>13, <1>14

LEMMA RelayStep ==
    ASSUME TransferAssumption, StreamInv, UNCHANGED kind, NEW h \in Hop, Relay(h)
    PROVE  StreamInv'
<1>. USE DEF StreamInv
<1>0. /\ 1 \in Hop /\ 2 \in Hop /\ 3 \in Hop /\ \A g \in Hop : g = 1 \/ g = 2 \/ g = 3
      /\ (h = 1 /\ h + 1 = 2) \/ (h = 2 /\ h + 1 = 3)
  BY DEF Hop, Relay
<1>. DEFINE s == conn[h].pipe
            q == SubSeq(s, 2, Len(s))
            x == s[1]
            r == Append(conn[h + 1].pipe, x)
<1>1. /\ h + 1 \in Hop /\ s # <<>> /\ conn[h + 1].state = "open" /\ Len(conn[h + 1].pipe) < Cap
      /\ conn' = [conn EXCEPT ![h].pipe = q, ![h + 1].pipe = r]
      /\ UNCHANGED <<walk, err, est, sent, got, eof, result, happened, kind>>
  BY <1>0 DEF Relay, Room
<1>2. /\ q \in Seq(Pieces) /\ Len(q) + 1 = Len(s) /\ x \in Pieces
      /\ Follows(q, sent, Past(h) + 1)
      /\ Past(h) + 1 <= Len(sent) /\ x.what = sent[Past(h) + 1].what
      /\ Undamaged(s) => Undamaged(q) /\ ~x.damaged
  BY <1>1, FirstLeaves
<1>3. /\ conn \in [Hop -> Conns] /\ got \in Seq(Pieces) /\ sent \in Seq(Pieces)
      /\ Len(got) \in Nat /\ Len(s) \in Nat /\ conn[h + 1].pipe \in Seq(Pieces) /\ Len(conn[h + 1].pipe) \in Nat
      /\ Past(h) \in Nat /\ Past(h + 1) \in Nat
      /\ \A g \in Hop : Len(conn[g].pipe) \in Nat
  BY <1>0, <1>1, Lengths DEF StreamTypes
<1>4. Past(h) = Past(h + 1) + Len(conn[h + 1].pipe)
  BY <1>0, PastIs
<1>5. r \in Seq(Pieces) /\ Len(r) = Len(conn[h + 1].pipe) + 1
  BY <1>2, <1>3, AppendFacts
<1>6. Follows(r, sent, Past(h + 1))
  <2>1. Follows(conn[h + 1].pipe, sent, Past(h + 1))
    BY <1>1 DEF InOrder
  <2>2. Past(h + 1) + Len(conn[h + 1].pipe) + 1 = Past(h) + 1
    BY <1>4
  <2>3. QED
    BY <2>1, <2>2, <1>2, <1>3, FollowsAppend
<1>7. Undamaged(s) /\ Undamaged(conn[h + 1].pipe) => Undamaged(q) /\ Undamaged(r)
  BY <1>2, <1>3, UndamagedAppend
<1>. HIDE DEF q, x, r
<1>8. /\ conn' \in [Hop -> Conns] /\ conn'[h].pipe = q /\ conn'[h + 1].pipe = r
      /\ \A g \in Hop : conn'[g].state = conn[g].state /\ conn'[g].trailer = conn[g].trailer
      /\ \A g \in Hop \ {h, h + 1} : conn'[g] = conn[g]
  <2>. DEFINE c == [conn EXCEPT ![h].pipe = q]
              d == [c EXCEPT ![h + 1].pipe = r]
  <2>1. /\ c \in [Hop -> Conns] /\ c[h].pipe = q /\ c[h].state = conn[h].state /\ c[h].trailer = conn[h].trailer
        /\ \A g \in Hop \ {h} : c[g] = conn[g]
    <3>1. q \in Seq(Pieces) /\ conn \in [Hop -> Conns]
      BY <1>2, <1>3
    <3>2. QED
      BY <3>1, PipeSet
  <2>2. conn' = d
    BY <1>1
  <2>. HIDE DEF c
  <2>3. /\ d \in [Hop -> Conns] /\ d[h + 1].pipe = r /\ d[h + 1].state = c[h + 1].state
        /\ d[h + 1].trailer = c[h + 1].trailer /\ \A g \in Hop \ {h + 1} : d[g] = c[g]
    BY <1>1, <1>5, <2>1, PipeSet
  <2>. HIDE DEF d
  <2>4. h # h + 1
    BY <1>0
  <2>5. conn'[h] = c[h] /\ c[h + 1] = conn[h + 1]
    BY <1>1, <2>1, <2>2, <2>3, <2>4
  <2>6. QED
    BY <1>1, <2>1, <2>2, <2>3, <2>5
<1>. HIDE DEF s
<1>9. Len(q) \in Nat /\ Len(r) \in Nat
  BY <1>2, <1>5
<1>10. /\ Past(h)' = Past(h) + 1 /\ \A g \in Hop \ {h} : Past(g)' = Past(g)
       /\ Past(1)' + Len(conn'[1].pipe) = Past(1) + Len(conn[1].pipe)
  <2>1. got' = got
    BY <1>1
  <2>2. CASE h = 1 /\ h + 1 = 2
    <3>1. conn'[1].pipe = q /\ conn'[2].pipe = r /\ conn'[3] = conn[3]
      BY <1>0, <1>8, <2>2
    <3>2. Past(3)' = Past(3) /\ Past(2)' = Past(2)
      BY <2>1, <3>1, PastIs, PastIsThen
    <3>3. Past(1)' = Len(got) + Len(conn[3].pipe) + Len(r)
      BY <2>1, <3>1, PastIsThen
    <3>4. Past(1) = Len(got) + Len(conn[3].pipe) + Len(conn[2].pipe)
      BY PastIs
    <3>5. Len(q) + 1 = Len(conn[1].pipe) /\ Len(r) = Len(conn[2].pipe) + 1
      BY <1>2, <1>5, <2>2 DEF s
    <3> DEFINE a == Len(got)
               b == Len(conn[3].pipe)
               c == Len(conn[2].pipe)
               d == Len(conn[1].pipe)
               e == Len(q)
               f == Len(r)
    <3>5a. a \in Nat /\ b \in Nat /\ c \in Nat /\ d \in Nat /\ e \in Nat /\ e + 1 = d /\ f = c + 1
      BY <1>0, <1>3, <1>9, <3>5
    <3>. HIDE DEF a, b, c, d, e, f
    <3>5b. a + b + f = (a + b + c) + 1 /\ (a + b + f) + e = (a + b + c) + d
      BY <3>5a
    <3>6. Past(1)' = Past(1) + 1
      BY <3>3, <3>4, <3>5b DEF a, b, c, f
    <3>7. Past(1)' + Len(q) = Past(1) + Len(conn[1].pipe)
      BY <3>3, <3>4, <3>5b DEF a, b, c, d, e, f
    <3>8. QED
      BY <1>0, <2>2, <3>1, <3>2, <3>6, <3>7
  <2>3. CASE h = 2 /\ h + 1 = 3
    <3>1. conn'[2].pipe = q /\ conn'[3].pipe = r /\ conn'[1] = conn[1]
      BY <1>0, <1>8, <2>3
    <3>2. Past(3)' = Past(3) /\ Past(2)' = Len(got) + Len(r) /\ Past(1)' = Len(got) + Len(r) + Len(q)
      BY <2>1, <3>1, PastIs, PastIsThen
    <3>3. Past(2) = Len(got) + Len(conn[3].pipe) /\ Past(1) = Len(got) + Len(conn[3].pipe) + Len(conn[2].pipe)
      BY PastIs
    <3>4. Len(q) + 1 = Len(conn[2].pipe) /\ Len(r) = Len(conn[3].pipe) + 1
      BY <1>2, <1>5, <2>3 DEF s
    <3> DEFINE a == Len(got)
               b == Len(conn[3].pipe)
               c == Len(conn[2].pipe)
               e == Len(q)
               f == Len(r)
    <3>4a. a \in Nat /\ b \in Nat /\ c \in Nat /\ e \in Nat /\ e + 1 = c /\ f = b + 1
      BY <1>0, <1>3, <1>9, <3>4
    <3>. HIDE DEF a, b, c, e, f
    <3>4b. a + f = (a + b) + 1 /\ a + f + e = a + b + c
      BY <3>4a
    <3>5. Past(2)' = Past(2) + 1
      BY <3>2, <3>3, <3>4b DEF a, b, f
    <3>6. Past(1)' = Past(1)
      BY <3>2, <3>3, <3>4b DEF a, b, c, e, f
    <3>7. QED
      BY <1>0, <2>3, <3>1, <3>2, <3>5, <3>6
  <2>4. QED
    BY <1>0, <2>2, <2>3
<1>11. StreamTypes'
  BY <1>1, <1>8 DEF StreamTypes
<1>12. Bounded'
  <2>1. Cap \in Nat
    BY DEF TransferAssumption
  <2>2. Len(r) <= Cap /\ h + 1 # 1
    BY <1>0, <1>1, <1>3, <1>5, <2>1
  <2>3. \A g \in Hop \ {h + 1} : Len(conn'[g].pipe) <= Len(conn[g].pipe)
    <3>1. Len(q) <= Len(conn[h].pipe)
      BY <1>2, <1>3, <1>9 DEF s
    <3>2. \A n \in Nat : n <= n
      OBVIOUS
    <3>3. QED
      BY <1>3, <1>8, <3>1, <3>2
  <2>4. \A g \in Hop : Len(conn'[g].pipe) \in Nat
    BY <1>3, <1>8, <1>9
  <2>5. \A g \in Hop \ {1} : Len(conn'[g].pipe) <= Cap
    <3>1. SUFFICES ASSUME NEW g \in Hop \ {1, h + 1}
                   PROVE  Len(conn'[g].pipe) <= Cap
      BY <1>8, <2>2
    <3>2. Len(conn'[g].pipe) <= Len(conn[g].pipe) /\ Len(conn[g].pipe) <= Cap
      BY <2>3 DEF Bounded
    <3>3. QED
      BY <3>2, <2>1, <2>4, <1>3
  <2>6. Len(conn'[1].pipe) <= Len(conn[1].pipe)
    BY <1>0, <2>2, <2>3
  <2>7. /\ Len(conn'[1].pipe) <= Cap + 2 /\ (walk # "closed" => Len(conn'[1].pipe) <= Cap)
    BY <1>0, <1>3, <2>1, <2>4, <2>6 DEF Bounded
  <2>8. QED
    BY <1>1, <2>5, <2>7 DEF Bounded
<1>13. InOrder'
  <2>1. \A g \in Hop : Follows(conn'[g].pipe, sent, Past(g)')
    <3>1. SUFFICES ASSUME NEW g \in Hop
                   PROVE  Follows(conn'[g].pipe, sent, Past(g)')
      OBVIOUS
    <3>2. CASE g = h
      BY <1>2, <1>8, <1>10, <3>2
    <3>3. CASE g = h + 1
      <4>1. g # h
        BY <1>0, <3>3
      <4>2. Past(g)' = Past(g)
        BY <1>10, <4>1
      <4>3. QED
        BY <1>6, <1>8, <3>3, <4>2
    <3>4. CASE g \notin {h, h + 1}
      BY <1>8, <1>10, <3>4 DEF InOrder
    <3>5. QED
      BY <3>2, <3>3, <3>4
  <2>2. QED
    BY <1>1, <1>10, <2>1 DEF InOrder
<1>14. Sound'
  <2>1. SUFFICES ASSUME \A g \in Hop : Undamaged(conn[g].pipe), Undamaged(got)
                 PROVE  \A g \in Hop : Undamaged(conn'[g].pipe)
    BY <1>1 DEF Sound
  <2>2. Undamaged(q) /\ Undamaged(r)
    BY <1>1, <1>7, <2>1 DEF s
  <2>3. QED
    BY <1>8, <2>1, <2>2
<1>15. Archived'
  BY <1>0, <1>1, <1>8 DEF Archived
<1>16. Received'
  BY <1>0, <1>1, <1>8 DEF Received, Ended, Extracts
<1>17. Clean'
  <2>1. SUFFICES ASSUME happened = {}, result = "none"
                 PROVE  /\ \A g \in {1, 2} : conn'[g + 1].state = "ended" => conn'[g].state = "ended" /\ conn'[g].pipe = <<>>
                        /\ eof => conn'[3].pipe = <<>>
    BY <1>1, <1>8 DEF Clean
  <2>2. /\ conn[2].state = "ended" => conn[1].state = "ended" /\ conn[1].pipe = <<>>
        /\ conn[3].state = "ended" => conn[2].state = "ended" /\ conn[2].pipe = <<>>
        /\ eof => conn[3].state = "ended" /\ conn[3].pipe = <<>>
    BY <2>1 DEF Clean, Received
  <2>3. CASE h = 1 /\ h + 1 = 2
    BY <1>0, <1>1, <1>8, <2>2, <2>3
  <2>4. CASE h = 2 /\ h + 1 = 3
    BY <1>0, <1>1, <1>8, <2>2, <2>4
  <2>5. QED
    BY <1>0, <2>3, <2>4
<1>18. QED
  BY <1>11, <1>12, <1>13, <1>14, <1>15, <1>16, <1>17

-----------------------------------------------------------------------------
(* The theorem *)

LEMMA StreamInit == ASSUME TransferAssumption, TransferInit PROVE StreamInv
<1>. USE DEF StreamInv
<1>1. 1 \in Hop /\ 2 \in Hop /\ 3 \in Hop
  BY DEF Hop
<1>2. /\ walk = "on" /\ est = TRUE /\ sent = <<>> /\ got = <<>> /\ eof = FALSE /\ result = "none"
      /\ happened = {} /\ err = "none" /\ conn = [h \in Hop |-> Conn]
      /\ Conn.pipe = <<>> /\ Conn.state = "open" /\ Conn.trailer = NoTrailer
  BY DEF TransferInit, Conn
<1>3. <<>> \in Seq(Pieces) /\ Len(<<>>) = 0 /\ \A i \in 1..Len(<<>>) : FALSE
  OBVIOUS
<1>4. Conn \in Conns
  BY <1>3 DEF Conn, Conns, States, NoTrailer
<1>5. StreamTypes
  BY <1>2, <1>3, <1>4 DEF StreamTypes
<1>6. Bounded
  <2>1. Cap \in Nat
    BY DEF TransferAssumption
  <2>2. 0 <= Cap + 2 /\ 0 <= Cap
    BY <2>1
  <2>3. \A h \in Hop : Len(conn[h].pipe) = 0
    BY <1>2, <1>3
  <2>4. QED
    BY <1>1, <2>2, <2>3 DEF Bounded
<1>7. InOrder
  <2>1. \A off : Follows(<<>>, sent, off)
    BY <1>3 DEF Follows
  <2>2. \A h \in Hop : conn[h].pipe = <<>>
    BY <1>2
  <2>3. Past(1) = 0
    BY <1>1, <1>2, <1>3, <2>2, PastIs
  <2>4. QED
    BY <1>1, <1>2, <1>3, <2>1, <2>2, <2>3 DEF InOrder
<1>8. Sound
  BY <1>2, <1>3 DEF Sound, Undamaged
<1>9. Archived
  <2>1. Files \in Nat
    BY DEF TransferAssumption
  <2>2. 0 <= Files /\ 0 <= Files + 2
    BY <2>1
  <2>3. QED
    BY <1>1, <1>2, <1>3, <2>2 DEF Archived
<1>10. Received
  BY <1>2 DEF Received
<1>11. Clean
  <2>1. \A h \in {1, 2} : h + 1 \in Hop
    BY DEF Hop
  <2>2. \A h \in Hop : conn[h].state = "open"
    BY <1>2
  <2>3. QED
    BY <1>2, <2>1, <2>2 DEF Clean
<1>12. QED
  BY <1>5, <1>6, <1>7, <1>8, <1>9, <1>10, <1>11

LEMMA StreamStutters == ASSUME StreamInv, UNCHANGED transferVars PROVE StreamInv'
BY InOrderKept DEF StreamInv, transferVars, StreamTypes, Bounded, Archived, Received, Ended, Extracts, Clean

LEMMA StreamStep == ASSUME TransferAssumption, StreamInv, [TransferNext]_transferVars PROVE StreamInv'
<1>1. CASE UNCHANGED transferVars
  BY <1>1, StreamStutters
<1>2. CASE TransferNext
  <2>1. UNCHANGED kind
    BY <1>2 DEF TransferNext
  <2>2. CASE EstimateOk \/ EstimateFails \/ WalkOver \/ FileFails \/ ReadEnd
    BY <2>1, <2>2, QuietStep
  <2>3. CASE WriteFile
    BY <2>1, <2>3, WriteStep
  <2>4. CASE CloseStream
    BY <2>1, <2>4, CloseStep
  <2>5. CASE \E h \in Hop : Relay(h)
    BY <2>1, <2>5, RelayStep
  <2>6. CASE \E h \in Hop : RelayEnds(h) \/ GiveUp(h) \/ Break(h)
    BY <2>1, <2>6, ConnStep
  <2>7. CASE \E h \in Hop : Damage(h)
    BY <2>1, <2>7, DamageStep
  <2>8. CASE Read
    BY <2>1, <2>8, ReadStep
  <2>9. CASE Extract \/ Save
    BY <2>1, <2>9, ResultStep
  <2>10. QED
    BY <1>2, <2>2, <2>3, <2>4, <2>5, <2>6, <2>7, <2>8, <2>9 DEF TransferNext, Progress
<1>3. QED
  BY <1>1, <1>2

\* What the invariant is for.
LEMMA StreamDelivers == ASSUME TransferAssumption, StreamInv PROVE ArrivesAsSent
<1>1. TransferTypeOK
  BY GotIs DEF StreamInv, StreamTypes, Bounded, Archived, TransferTypeOK
<1>2. ExtractIsWhole
  BY EndedIsWhole DEF ExtractIsWhole, StreamInv, Received
<1>3. SavedAsSent
  <2>1. 3 \in Hop
    BY DEF Hop
  <2>2. QED
    BY <2>1 DEF SavedAsSent, StreamInv, Received, Archived
<1>4. NoFalseAlarm
  BY DEF NoFalseAlarm, StreamInv, Clean
<1>5. QED
  BY <1>1, <1>2, <1>3, <1>4 DEF ArrivesAsSent

\* Whatever of the faults happens, and however many files and however little room
\* there is: what is extracted without an error is all the files in their order, what
\* is saved with a matching sum is what was sent, and nobody is told of an error when
\* there was none (GoTar, GoUntar, PostData, GetData, CopyRequest, CopyResponse, Proxy).
THEOREM TransferCorrect == ASSUME TransferAssumption PROVE TransferSpec => []ArrivesAsSent
<1>1. TransferInit => StreamInv
  BY StreamInit
<1>2. StreamInv /\ [TransferNext]_transferVars => StreamInv'
  BY StreamStep
<1>3. StreamInv => ArrivesAsSent
  BY StreamDelivers
<1>4. QED
  BY <1>1, <1>2, <1>3, PTL DEF TransferSpec

-----------------------------------------------------------------------------
(* Uploads: data is done only when it is whole, and stays while it is read *)

\* The records of the loops, and the agent that housekeeping has locked.
LoopTypes ==
    /\ mgr \in [at : {"idle", "lock", "commit"}, seen : SUBSET Data, run : Data \cup {Nobody},
                to : KnitRunStatus \cup {"none"}]
    /\ hk \in [at : {"idle", "act", "drop", "keep", "panic"}, agent : Handler \cup {Nobody}]
    /\ hk.at \in {"act", "drop", "keep"} => hk.agent \in row

\* The run that the manager has locked is as it was looked at, and at worst aborted.
LockHolds ==
    mgr.at = "commit" =>
        /\ mgr.run \in Data /\ status[mgr.run] \in KnitRunStatus
        /\ mgr.to \in {status[mgr.run], "aborting"}

Stopping == {"finish", "close", "remove", "abort", "fail", "end"}
Intact(h) == content[h] = "whole" /\ h \notin doomed

\* An upload is completed by its handler only, when all of it has been
\* written; a volume is given up only when that cannot happen any more.
Written ==
    /\ \A h \in Upload : status[h] \in {"completing", "done"} => pc[h] \in Stopping /\ Intact(h)
    /\ \A h \in Upload : pc[h] = "stored" => status[h] = "gone" \/ Intact(h)
    /\ \A h \in Upload \cap doomed : status[h] = "gone" \/ pc[h] \in {"abort", "fail", "end"}

\* How far a handler is when it has an agent, a pod or its promise kept.
Places ==
    /\ \A h \in row : pc[h] \notin {"idle", "run"}
    /\ row \ rest \subseteq late
    /\ \A h \in Handler : pod[h] # "absent" => pc[h] \notin {"idle", "run", "agent", "remove"}
    /\ \A h \in met : pc[h] \notin {"idle", "run", "agent"}

\* The agent will not serve any more: its handler has left, its pod has
\* stopped, or its handler is too late to use the pod.
Harmless(h) ==
    \/ pc[h] \in {"close", "remove", "abort", "fail", "end"} /\ pod[h] # "serving"
    \/ pc[h] \notin {"idle", "run", "agent"} /\ pod[h] \in {"absent", "ended"}
    \/ h \in late \ met /\ pc[h] \in {"agent", "volume", "pod"} /\ pod[h] # "serving"

\* Data that was done when it was opened is protected by the row, and
\* housekeeping takes a row away only when that does no harm.
Protected ==
    /\ \A h \in opened : Harmless(h) \/ (h \in row /\ status[DataOf(h)] = "done")
    /\ hk.at = "drop" /\ hk.agent \in opened => Harmless(hk.agent)

IInv ==
    /\ TypeOK /\ LoopTypes /\ LockHolds /\ Written /\ Places /\ Protected
    /\ AcceptedImportStays

\* The data of a handler, and what can become of a run.
LEMMA DataOfType ==
    ASSUME UploadsAssumption, NEW h \in Handler
    PROVE  DataOf(h) \in Upload
BY DEF UploadsAssumption, DataOf, Handler

LEMMA StatusFacts ==
    /\ {"running", "completing", "aborting", "done", "failed"} \subseteq KnitRunStatus
    /\ "none" \notin KnitRunStatus /\ "gone" \notin KnitRunStatus
    /\ NextStatuses["completing"] = {"done"} /\ NextStatuses["done"] = {} /\ NextStatuses["failed"] = {}
BY DEF NextStatuses, KnitRunStatus

LEMMA InitIInv == UploadsAssumption /\ Init => IInv
<1> SUFFICES ASSUME UploadsAssumption, Init PROVE IInv
  OBVIOUS
<1>1. TypeOK /\ LoopTypes /\ LockHolds
  BY DEF UploadsAssumption, Init, TypeOK, LoopTypes, LockHolds, Idle, Rests, KnitRunStatus
<1>2. Written /\ Places /\ Protected /\ AcceptedImportStays
  BY DEF Init, Written, Places, Protected, AcceptedImportStays, Rests, Data, Handler
<1> QED
  BY <1>1, <1>2 DEF IInv

\* Types: what housekeeping has locked keeps its row, as removing it waits for the lock.
LEMMA UploadsTypeStep == ASSUME UploadsAssumption, IInv, [Next]_vars PROVE TypeOK' /\ LoopTypes'
<1> USE DEF UploadsAssumption, IInv, TypeOK, LoopTypes, handlerVars, agentVars,
   loopVars, Handler, Data
<1>1. ASSUME NEW h \in Handler, HandlerStep(h) \/ Pick(h) \/ Late(h) \/ AgentRested(h) \/ PodStep(h)
      PROVE  TypeOK' /\ LoopTypes'
  <2>1. CASE Begin(h)
    BY <2>1, StatusFacts DEF Begin, NewPseudo, Goto
  <2>2. CASE NewAgent(h)
    BY <2>2 DEF NewAgent, Suspend, Goto
  <2>3. CASE CreatePod(h)
    BY <2>3 DEF CreatePod, Goto
  <2>4. CASE CannotCreate(h)
    BY <2>4 DEF CannotCreate, Fail, Goto
  <2>5. CASE WaitVolume(h)
    BY <2>5 DEF WaitVolume, Goto
  <2>6. CASE Checkpoint(h)
    BY <2>6 DEF Checkpoint, Goto
  <2>7. CASE WaitPod(h)
    BY <2>7 DEF WaitPod, Goto
  <2>8. CASE CannotSpawn(h)
    BY <2>8, DataOfType DEF CannotSpawn, Fail, GivesUpVolume, Goto
  <2>9. CASE Serve(h)
    BY <2>9 DEF Serve, Goto
  <2>10. CASE Sent(h)
    BY <2>10 DEF Sent, Goto
  <2>11. CASE Refused(h)
    BY <2>11 DEF Refused, Goto
  <2>12. CASE SendFails(h)
    BY <2>12 DEF SendFails, Goto
  <2>13. CASE Report(h)
    BY <2>13, StatusFacts DEF Report, Accepts, Verdict, Locked, Goto
  <2>14. CASE FinishUpload(h)
    BY <2>14, StatusFacts DEF FinishUpload, FinishOrError, FinishRun, FinishedStatus,
       Locked, Goto
  <2>15. CASE ClosePod(h)
    BY <2>15 DEF ClosePod, Fail, Goto
  <2>16. CASE RemoveAgent(h)
    BY <2>16 DEF RemoveAgent, Fail, AgentLocked, Goto
  <2>17. CASE Abort(h)
    BY <2>17, StatusFacts DEF Abort, Locked, Goto
  <2>18. CASE AbortFinish(h)
    BY <2>18, StatusFacts DEF AbortFinish, FinishOrError, FinishRun, FinishedStatus,
       Locked, Goto
  <2>19. CASE Pick(h)
    BY <2>19 DEF Pick, Look, PodPhase
  <2>20. CASE Late(h)
    BY <2>20 DEF Late
  <2>21. CASE AgentRested(h)
    BY <2>21 DEF AgentRested, AgentLocked
  <2>22. CASE PodStep(h)
    BY <2>22 DEF PodStep
  <2> QED
    BY <1>1, <2>1, <2>2, <2>3, <2>4, <2>5, <2>6, <2>7, <2>8, <2>9, <2>10, <2>11, <2>12,
       <2>13, <2>14, <2>15, <2>16, <2>17, <2>18, <2>19, <2>20, <2>21,
       <2>22 DEF HandlerStep
<1>2. ASSUME NEW d \in Data,
             \/ BeginImport(d) \/ FillVolume(d) \/ EndImport(d) \/ Lock(d) \/ Finishing(d)
             \/ Delete(d) \/ RunRested(d) \/ VolumeGone(d)
      PROVE  TypeOK' /\ LoopTypes'
  <2>1. CASE BeginImport(d)
    BY <2>1, StatusFacts DEF BeginImport, NewPseudo
  <2>2. CASE FillVolume(d)
    BY <2>2 DEF FillVolume
  <2>3. CASE EndImport(d)
    BY <2>3, StatusFacts DEF EndImport, Accepts, Locked
  <2>4. CASE Lock(d)
    BY <2>4, StatusFacts DEF Lock, Manage, Idle
  <2>5. CASE Finishing(d)
    BY <2>5, StatusFacts DEF Finishing, FinishRun, FinishedStatus, Locked
  <2>6. CASE Delete(d)
    BY <2>6 DEF Delete, Locked, Finished
  <2>7. CASE RunRested(d)
    BY <2>7 DEF RunRested
  <2>8. CASE VolumeGone(d)
    BY <2>8 DEF VolumeGone
  <2> QED
    BY <1>2, <2>1, <2>2, <2>3, <2>4, <2>5, <2>6, <2>7, <2>8
<1>3. CASE Select
  BY <1>3 DEF Select
<1>4. CASE Commit
  BY <1>4, StatusFacts DEF Commit, Accepts, Idle, LockHolds
<1>5. CASE Close
  BY <1>5 DEF Close
<1>6. CASE Keep
  BY <1>6 DEF Keep, Rests
<1>7. CASE Restart
  BY <1>7 DEF Restart, Rests
<1>8. CASE Crash
  BY <1>8 DEF Crash, Idle, Rests, Goto
<1>9. CASE UNCHANGED vars
  BY <1>9 DEF vars, handlerVars, agentVars, loopVars
<1> QED
  BY <1>1, <1>2, <1>3, <1>4, <1>5, <1>6, <1>7, <1>8, <1>9 DEF Next

\* Whoever changes the status of a run that exists waits for the manager's lock.
LEMMA UploadsLockStep == ASSUME UploadsAssumption, IInv, [Next]_vars PROVE LockHolds'
<1> USE DEF UploadsAssumption, IInv, TypeOK, LoopTypes, LockHolds, handlerVars,
   agentVars, loopVars, Data
<1>1. ASSUME NEW h \in Handler, HandlerStep(h) \/ Pick(h) \/ Late(h) \/ AgentRested(h) \/ PodStep(h)
      PROVE  LockHolds'
  <2>1. CASE Begin(h)
    BY <2>1, StatusFacts DEF Begin, NewPseudo, Goto
  <2>2. CASE Report(h)
    BY <2>2, StatusFacts DEF Report, Accepts, Verdict, Locked, Goto
  <2>3. CASE FinishUpload(h)
    BY <2>3, StatusFacts DEF FinishUpload, FinishOrError, FinishRun, FinishedStatus,
       Locked, Goto
  <2>4. CASE Abort(h)
    BY <2>4, StatusFacts DEF Abort, Locked, Goto
  <2>5. CASE AbortFinish(h)
    BY <2>5, StatusFacts DEF AbortFinish, FinishOrError, FinishRun, FinishedStatus,
       Locked, Goto
  <2>6. CASE \/ NewAgent(h) \/ CreatePod(h) \/ CannotCreate(h) \/ WaitVolume(h) \/ Checkpoint(h) \/ WaitPod(h)
            \/ CannotSpawn(h) \/ Serve(h) \/ Sent(h) \/ Refused(h) \/ SendFails(h) \/ ClosePod(h)
            \/ RemoveAgent(h) \/ Pick(h) \/ Late(h) \/ AgentRested(h) \/ PodStep(h)
    BY <2>6 DEF NewAgent, CreatePod, CannotCreate, WaitVolume, Checkpoint, WaitPod,
              CannotSpawn, Serve, Sent, Refused, SendFails, ClosePod,
              RemoveAgent, Pick, Late, AgentRested, PodStep
  <2> QED
    BY <1>1, <2>1, <2>2, <2>3, <2>4, <2>5, <2>6 DEF HandlerStep
<1>2. ASSUME NEW d \in Data,
             \/ BeginImport(d) \/ FillVolume(d) \/ EndImport(d) \/ Lock(d) \/ Finishing(d)
             \/ Delete(d) \/ RunRested(d) \/ VolumeGone(d)
      PROVE  LockHolds'
  <2>1. CASE BeginImport(d)
    BY <2>1, StatusFacts DEF BeginImport, NewPseudo
  <2>2. CASE EndImport(d)
    BY <2>2, StatusFacts DEF EndImport, Accepts, Locked
  <2>3. CASE Lock(d)
    BY <2>3, StatusFacts DEF Lock, Manage, Idle
  <2>4. CASE Finishing(d)
    BY <2>4, StatusFacts DEF Finishing, FinishRun, FinishedStatus, Locked
  <2>5. CASE Delete(d)
    BY <2>5, StatusFacts DEF Delete, Locked, Finished
  <2>6. CASE \/ FillVolume(d) \/ RunRested(d) \/ VolumeGone(d)
    BY <2>6 DEF FillVolume, RunRested, VolumeGone
  <2> QED
    BY <1>2, <2>1, <2>2, <2>3, <2>4, <2>5, <2>6
<1>3. CASE Select
  BY <1>3 DEF Select
<1>4. CASE Commit
  BY <1>4 DEF Commit, Accepts, Idle
<1>5. CASE Crash
  BY <1>5 DEF Crash, Idle, Rests, Goto
<1>6. CASE \/ Close \/ Keep \/ Restart
  BY <1>6 DEF Close, Keep, Restart
<1>7. CASE UNCHANGED vars
  BY <1>7 DEF vars, handlerVars, agentVars, loopVars
<1> QED
  BY <1>1, <1>2, <1>3, <1>4, <1>5, <1>6, <1>7 DEF Next

\* The manager that meant to abort an import is refused once it is completing.
LEMMA ImportStep == ASSUME UploadsAssumption, IInv, [Next]_vars PROVE AcceptedImportStays'
<1> USE DEF UploadsAssumption, IInv, TypeOK, AcceptedImportStays, handlerVars,
   agentVars, loopVars, Data
<1>1. ASSUME NEW h \in Handler, HandlerStep(h) \/ Pick(h) \/ Late(h) \/ AgentRested(h) \/ PodStep(h)
      PROVE  AcceptedImportStays'
  <2>1. CASE Begin(h)
    BY <2>1, StatusFacts DEF Begin, NewPseudo, Goto
  <2>2. CASE Report(h)
    BY <2>2, StatusFacts DEF Report, Accepts, Verdict, Locked, Goto
  <2>3. CASE FinishUpload(h)
    BY <2>3, StatusFacts DEF FinishUpload, FinishOrError, FinishRun, FinishedStatus,
       Locked, Goto
  <2>4. CASE Abort(h)
    BY <2>4, StatusFacts DEF Abort, Locked, Goto
  <2>5. CASE AbortFinish(h)
    BY <2>5, StatusFacts DEF AbortFinish, FinishOrError, FinishRun, FinishedStatus,
       Locked, Goto
  <2>6. CASE \/ NewAgent(h) \/ CreatePod(h) \/ CannotCreate(h) \/ WaitVolume(h) \/ Checkpoint(h) \/ WaitPod(h)
            \/ CannotSpawn(h) \/ Serve(h) \/ Sent(h) \/ Refused(h) \/ SendFails(h) \/ ClosePod(h)
            \/ RemoveAgent(h) \/ Pick(h) \/ Late(h) \/ AgentRested(h) \/ PodStep(h)
    BY <2>6 DEF NewAgent, CreatePod, CannotCreate, WaitVolume, Checkpoint, WaitPod,
              CannotSpawn, Serve, Sent, Refused, SendFails, ClosePod,
              RemoveAgent, Pick, Late, AgentRested, PodStep
  <2> QED
    BY <1>1, <2>1, <2>2, <2>3, <2>4, <2>5, <2>6 DEF HandlerStep
<1>2. ASSUME NEW d \in Data,
             \/ BeginImport(d) \/ FillVolume(d) \/ EndImport(d) \/ Lock(d) \/ Finishing(d)
             \/ Delete(d) \/ RunRested(d) \/ VolumeGone(d)
      PROVE  AcceptedImportStays'
  <2>1. CASE BeginImport(d)
    BY <2>1, StatusFacts DEF BeginImport, NewPseudo
  <2>2. CASE EndImport(d)
    BY <2>2, StatusFacts DEF EndImport, Accepts, Locked
  <2>3. CASE Finishing(d)
    BY <2>3, StatusFacts DEF Finishing, FinishRun, FinishedStatus, Locked
  <2>4. CASE Delete(d)
    BY <2>4, StatusFacts DEF Delete, Locked, Finished
  <2>5. CASE \/ FillVolume(d) \/ Lock(d) \/ RunRested(d) \/ VolumeGone(d)
    BY <2>5 DEF FillVolume, Lock, RunRested, VolumeGone
  <2> QED
    BY <1>2, <2>1, <2>2, <2>3, <2>4, <2>5
<1>3. CASE Commit
  BY <1>3, StatusFacts DEF Commit, Accepts, Idle, LockHolds, LoopTypes, Finished
<1>4. CASE Crash
  BY <1>4 DEF Crash, Idle, Rests, Goto
<1>5. CASE \/ Select \/ Close \/ Keep \/ Restart
  BY <1>5 DEF Select, Close, Keep, Restart
<1>6. CASE UNCHANGED vars
  BY <1>6 DEF vars, handlerVars, agentVars, loopVars
<1> QED
  BY <1>1, <1>2, <1>3, <1>4, <1>5, <1>6 DEF Next

\* Only Report completes an upload; only Delete and a handler that fails give its volume up.
LEMMA WrittenStep == ASSUME UploadsAssumption, IInv, [Next]_vars PROVE Written'
<1> USE DEF UploadsAssumption, IInv, TypeOK, Written, Intact, Stopping, handlerVars,
   agentVars, loopVars, Data, Handler
<1>1. ASSUME NEW h \in Handler, HandlerStep(h) \/ Pick(h) \/ Late(h) \/ AgentRested(h) \/ PodStep(h)
      PROVE  Written'
  <2>1. CASE Begin(h)
    BY <2>1, StatusFacts DEF Begin, NewPseudo, Goto
  <2>2. CASE NewAgent(h)
    BY <2>2 DEF NewAgent, Suspend, Goto
  <2>3. CASE CreatePod(h)
    BY <2>3 DEF CreatePod, Goto
  <2>4. CASE CannotCreate(h)
    BY <2>4 DEF CannotCreate, Fail, Goto
  <2>5. CASE WaitVolume(h)
    BY <2>5 DEF WaitVolume, Goto
  <2>6. CASE WaitPod(h)
    BY <2>6 DEF WaitPod, Goto
  <2>7. CASE CannotSpawn(h)
    BY <2>7 DEF CannotSpawn, Fail, GivesUpVolume, Goto, DataOf
  <2>8. CASE Serve(h)
    BY <2>8 DEF Serve, Goto
  <2>9. CASE Sent(h)
    BY <2>9 DEF Sent, Goto
  <2>10. CASE Refused(h)
    BY <2>10 DEF Refused, Goto
  <2>11. CASE SendFails(h)
    BY <2>11 DEF SendFails, Goto
  <2>12. CASE Report(h)
    BY <2>12, StatusFacts DEF Report, Accepts, Verdict, Locked, Goto
  <2>13. CASE FinishUpload(h)
    BY <2>13, StatusFacts DEF FinishUpload, FinishOrError, FinishRun, FinishedStatus,
       Locked, Goto
  <2>14. CASE ClosePod(h)
    BY <2>14 DEF ClosePod, Fail, Goto
  <2>15. CASE RemoveAgent(h)
    BY <2>15 DEF RemoveAgent, Fail, AgentLocked, Goto
  <2>16. CASE Abort(h)
    BY <2>16, StatusFacts DEF Abort, Locked, Goto
  <2>17. CASE AbortFinish(h)
    BY <2>17, StatusFacts DEF AbortFinish, FinishOrError, FinishRun, FinishedStatus,
       Locked, Goto
  <2>18. CASE \/ Checkpoint(h) \/ Pick(h) \/ Late(h) \/ AgentRested(h) \/ PodStep(h)
    BY <2>18 DEF Checkpoint, Pick, Late, AgentRested, PodStep
  <2> QED
    BY <1>1, <2>1, <2>2, <2>3, <2>4, <2>5, <2>6, <2>7, <2>8, <2>9, <2>10, <2>11, <2>12,
       <2>13, <2>14, <2>15, <2>16, <2>17, <2>18 DEF HandlerStep
<1>2. ASSUME NEW d \in Data,
             \/ BeginImport(d) \/ FillVolume(d) \/ EndImport(d) \/ Lock(d) \/ Finishing(d)
             \/ Delete(d) \/ RunRested(d) \/ VolumeGone(d)
      PROVE  Written'
  <2>1. CASE BeginImport(d)
    BY <2>1, StatusFacts DEF BeginImport, NewPseudo
  <2>2. CASE FillVolume(d)
    BY <2>2 DEF FillVolume
  <2>3. CASE EndImport(d)
    BY <2>3, StatusFacts DEF EndImport, Accepts, Locked
  <2>4. CASE Finishing(d)
    BY <2>4, StatusFacts DEF Finishing, FinishRun, FinishedStatus, Locked
  <2>5. CASE Delete(d)
    BY <2>5, StatusFacts DEF Delete, Locked, Finished
  <2>6. CASE VolumeGone(d)
    BY <2>6 DEF VolumeGone
  <2>7. CASE \/ Lock(d) \/ RunRested(d)
    BY <2>7 DEF Lock, RunRested
  <2> QED
    BY <1>2, <2>1, <2>2, <2>3, <2>4, <2>5, <2>6, <2>7
<1>3. CASE Commit
  BY <1>3, StatusFacts DEF Commit, Accepts, Idle, LockHolds, LoopTypes, Finished
<1>4. CASE Crash
  BY <1>4 DEF Crash, Idle, Rests, Goto
<1>5. CASE \/ Select \/ Close \/ Keep \/ Restart
  BY <1>5 DEF Select, Close, Keep, Restart
<1>6. CASE UNCHANGED vars
  BY <1>6 DEF vars, handlerVars, agentVars, loopVars
<1> QED
  BY <1>1, <1>2, <1>3, <1>4, <1>5, <1>6 DEF Next

\* A pod is made after the row, and housekeeping sees the row after the deadline.
LEMMA PlacesStep == ASSUME UploadsAssumption, IInv, [Next]_vars PROVE Places'
<1> USE DEF UploadsAssumption, IInv, TypeOK, LoopTypes, Places, handlerVars, agentVars,
   loopVars, Handler
<1>1. ASSUME NEW h \in Handler, HandlerStep(h) \/ Pick(h) \/ Late(h) \/ AgentRested(h) \/ PodStep(h)
      PROVE  Places'
  <2>1. CASE Begin(h)
    BY <2>1 DEF Begin, NewPseudo, Goto
  <2>2. CASE NewAgent(h)
    BY <2>2 DEF NewAgent, Suspend, Goto
  <2>3. CASE CreatePod(h)
    BY <2>3 DEF CreatePod, Goto
  <2>4. CASE CannotCreate(h)
    BY <2>4 DEF CannotCreate, Fail, Goto
  <2>5. CASE WaitVolume(h)
    BY <2>5 DEF WaitVolume, Goto
  <2>6. CASE Checkpoint(h)
    BY <2>6 DEF Checkpoint, Goto
  <2>7. CASE WaitPod(h)
    BY <2>7 DEF WaitPod, Goto
  <2>8. CASE CannotSpawn(h)
    BY <2>8 DEF CannotSpawn, Fail, GivesUpVolume, Goto
  <2>9. CASE Serve(h)
    BY <2>9 DEF Serve, Goto
  <2>10. CASE Sent(h)
    BY <2>10 DEF Sent, Goto
  <2>11. CASE Refused(h)
    BY <2>11 DEF Refused, Goto
  <2>12. CASE SendFails(h)
    BY <2>12 DEF SendFails, Goto
  <2>13. CASE Report(h)
    BY <2>13 DEF Report, Accepts, Verdict, Locked, Goto
  <2>14. CASE FinishUpload(h)
    BY <2>14 DEF FinishUpload, FinishOrError, FinishRun, FinishedStatus, Locked, Goto
  <2>15. CASE ClosePod(h)
    BY <2>15 DEF ClosePod, Fail, Goto
  <2>16. CASE RemoveAgent(h)
    BY <2>16 DEF RemoveAgent, Fail, AgentLocked, Goto
  <2>17. CASE Abort(h)
    BY <2>17 DEF Abort, Locked, Goto
  <2>18. CASE AbortFinish(h)
    BY <2>18 DEF AbortFinish, FinishOrError, FinishRun, FinishedStatus, Locked, Goto
  <2>19. CASE Late(h)
    BY <2>19 DEF Late
  <2>20. CASE AgentRested(h)
    BY <2>20 DEF AgentRested, AgentLocked
  <2>21. CASE PodStep(h)
    BY <2>21 DEF PodStep
  <2>22. CASE Pick(h)
    BY <2>22 DEF Pick, Look, PodPhase
  <2> QED
    BY <1>1, <2>1, <2>2, <2>3, <2>4, <2>5, <2>6, <2>7, <2>8, <2>9, <2>10, <2>11, <2>12,
       <2>13, <2>14, <2>15, <2>16, <2>17, <2>18, <2>19, <2>20, <2>21,
       <2>22 DEF HandlerStep
<1>2. ASSUME NEW d \in Data,
             \/ BeginImport(d) \/ FillVolume(d) \/ EndImport(d) \/ Lock(d) \/ Finishing(d)
             \/ Delete(d) \/ RunRested(d) \/ VolumeGone(d)
      PROVE  Places'
  <2>1. CASE \/ BeginImport(d) \/ FillVolume(d) \/ EndImport(d) \/ Lock(d) \/ Finishing(d) \/ Delete(d)
            \/ RunRested(d) \/ VolumeGone(d)
    BY <2>1 DEF BeginImport, FillVolume, EndImport, Lock, Finishing, Delete,
              RunRested, VolumeGone
  <2> QED
    BY <1>2, <2>1
<1>3. CASE Close
  BY <1>3 DEF Close
<1>4. CASE Keep
  BY <1>4 DEF Keep, Rests
<1>5. CASE Crash
  BY <1>5 DEF Crash, Idle, Rests, Goto
<1>6. CASE \/ Select \/ Commit \/ Restart
  BY <1>6 DEF Select, Commit, Restart
<1>7. CASE UNCHANGED vars
  BY <1>7 DEF vars, handlerVars, agentVars, loopVars
<1> QED
  BY <1>1, <1>2, <1>3, <1>4, <1>5, <1>6, <1>7 DEF Next

\* What is harmless stays so; what is not keeps its row, and Delete waits for the row.
LEMMA ProtectedStep == ASSUME UploadsAssumption, IInv, [Next]_vars PROVE Protected'
<1> USE DEF UploadsAssumption, IInv, TypeOK, LoopTypes, Places, Protected, Harmless,
   handlerVars, agentVars, loopVars, Handler
<1>1. ASSUME NEW h \in Handler, HandlerStep(h) \/ Pick(h) \/ Late(h) \/ AgentRested(h) \/ PodStep(h)
      PROVE  Protected'
  <2> USE DataOfType
  <2>1. CASE Begin(h)
    BY <2>1, StatusFacts DEF Begin, NewPseudo, Goto, Data
  <2>2. CASE NewAgent(h)
    BY <2>2 DEF NewAgent, Suspend, Goto
  <2>3. CASE CreatePod(h)
    BY <2>3 DEF CreatePod, Goto
  <2>4. CASE CannotCreate(h)
    BY <2>4 DEF CannotCreate, Fail, Goto
  <2>5. CASE WaitVolume(h)
    BY <2>5 DEF WaitVolume, Goto
  <2>6. CASE Checkpoint(h)
    BY <2>6 DEF Checkpoint, Goto
  <2>7. CASE WaitPod(h)
    BY <2>7 DEF WaitPod, Goto
  <2>8. CASE CannotSpawn(h)
    BY <2>8 DEF CannotSpawn, Fail, GivesUpVolume, Goto
  <2>9. CASE Serve(h)
    BY <2>9 DEF Serve, Goto
  <2>10. CASE Sent(h)
    BY <2>10 DEF Sent, Goto
  <2>11. CASE Refused(h)
    BY <2>11 DEF Refused, Goto
  <2>12. CASE SendFails(h)
    BY <2>12 DEF SendFails, Goto
  <2>13. CASE Report(h)
    BY <2>13, StatusFacts DEF Report, Accepts, Verdict, Locked, Goto, Data
  <2>14. CASE FinishUpload(h)
    BY <2>14, StatusFacts DEF FinishUpload, FinishOrError, FinishRun, FinishedStatus,
       Locked, Goto, Data
  <2>15. CASE ClosePod(h)
    BY <2>15 DEF ClosePod, Fail, Goto
  <2>16. CASE RemoveAgent(h)
    BY <2>16 DEF RemoveAgent, Fail, AgentLocked, Goto
  <2>17. CASE Abort(h)
    BY <2>17, StatusFacts DEF Abort, Locked, Goto, Data
  <2>18. CASE AbortFinish(h)
    BY <2>18, StatusFacts DEF AbortFinish, FinishOrError, FinishRun, FinishedStatus,
       Locked, Goto, Data
  <2>19. CASE Pick(h)
    BY <2>19 DEF Pick, Look, PodPhase, Written, Intact
  <2>20. CASE Late(h)
    BY <2>20 DEF Late
  <2>21. CASE AgentRested(h)
    BY <2>21 DEF AgentRested, AgentLocked
  <2>22. CASE PodStep(h)
    BY <2>22 DEF PodStep
  <2> QED
    BY <1>1, <2>1, <2>2, <2>3, <2>4, <2>5, <2>6, <2>7, <2>8, <2>9, <2>10, <2>11, <2>12,
       <2>13, <2>14, <2>15, <2>16, <2>17, <2>18, <2>19, <2>20, <2>21,
       <2>22 DEF HandlerStep
<1>2. ASSUME NEW d \in Data,
             \/ BeginImport(d) \/ FillVolume(d) \/ EndImport(d) \/ Lock(d) \/ Finishing(d)
             \/ Delete(d) \/ RunRested(d) \/ VolumeGone(d)
      PROVE  Protected'
  <2>1. CASE BeginImport(d)
    BY <2>1, StatusFacts DEF BeginImport, NewPseudo, Data
  <2>2. CASE EndImport(d)
    BY <2>2, StatusFacts DEF EndImport, Accepts, Locked
  <2>3. CASE Finishing(d)
    BY <2>3, StatusFacts DEF Finishing, FinishRun, FinishedStatus, Locked
  <2>4. CASE Delete(d)
    BY <2>4, StatusFacts DEF Delete, Locked, Finished
  <2>5. CASE \/ FillVolume(d) \/ Lock(d) \/ RunRested(d) \/ VolumeGone(d)
    BY <2>5 DEF FillVolume, Lock, RunRested, VolumeGone
  <2> QED
    BY <1>2, <2>1, <2>2, <2>3, <2>4, <2>5
<1>3. CASE Commit
  <2>1. \A d \in Data : status[d] = "done" => status'[d] = "done"
    BY <1>3, StatusFacts DEF Commit, Accepts, LockHolds, Data
  <2>2. UNCHANGED <<handlerVars, agentVars, hk>>
    BY <1>3 DEF Commit
  <2> QED
    BY <2>1, <2>2, DataOfType DEF Data
<1>4. CASE Close
  BY <1>4 DEF Close
<1>5. CASE Keep
  BY <1>5 DEF Keep, Rests
<1>6. CASE Restart
  BY <1>6 DEF Restart, Rests
<1>7. CASE Crash
  BY <1>7 DEF Crash, Idle, Rests, Goto
<1>8. CASE Select
  BY <1>8 DEF Select
<1>9. CASE UNCHANGED vars
  BY <1>9 DEF vars, handlerVars, agentVars, loopVars
<1> QED
  BY <1>1, <1>2, <1>3, <1>4, <1>5, <1>6, <1>7, <1>8, <1>9 DEF Next

\* The invariant is inductive, whatever the numbers of handlers and crashes.
THEOREM UploadsInvariance == ASSUME UploadsAssumption PROVE Spec => []IInv
<1>1. Init => IInv
  BY InitIInv
<1>2. IInv /\ [Next]_vars => IInv'
  <2> SUFFICES ASSUME IInv, [Next]_vars PROVE IInv'
    OBVIOUS
  <2> QED
    BY UploadsTypeStep, UploadsLockStep, ImportStep, WrittenStep, PlacesStep, ProtectedStep DEF IInv
<1> QED
  BY <1>1, <1>2, PTL DEF Spec

\* Nothing of the state leaves its type, however handlers, imports, loops,
\* users and crashes interleave.
THEOREM UploadsTypeCorrect == ASSUME UploadsAssumption PROVE Spec => []TypeOK
<1>1. IInv => TypeOK
  BY DEF IInv
<1> QED
  BY <1>1, UploadsInvariance, PTL

LEMMA Safe == ASSUME UploadsAssumption, IInv PROVE DataIsSafe
<1> USE DEF IInv
<1>1. DoneIsWhole
  BY DEF Written, Intact, DoneIsWhole
<1>2. DataInUseStays
  BY DEF TypeOK, Protected, Harmless, DataInUseStays
<1> QED
  BY <1>1, <1>2 DEF DataIsSafe

\* Uploaded data is done only when it is whole, is not deleted while it is read,
\* and no import that was answered with success is aborted: for any uploads,
\* imports, readers and crashes, whichever deadline passes (the handlers of
\* knitd_backend, run_management, finishing and housekeeping).
THEOREM DataCorrect == ASSUME UploadsAssumption PROVE Spec => []DataIsSafe
<1>1. IInv => DataIsSafe
  BY Safe
<1> QED
  BY <1>1, UploadsInvariance, PTL

-----------------------------------------------------------------------------
(* Uploads and imports implement the life of a run *)

LEMMA LifecycleStatuses ==
    /\ Lifecycle!KnitRunStatus = KnitRunStatus
    /\ Lifecycle!Finished = Finished
    /\ Lifecycle!NextStatuses = NextStatuses
    /\ \A st : Lifecycle!FinishedStatus(st) = FinishedStatus(st)
<1>1. Lifecycle!KnitRunStatus = KnitRunStatus
  BY DEF Lifecycle!KnitRunStatus, KnitRunStatus
<1>2. Lifecycle!Finished = Finished
  BY DEF Lifecycle!Finished, Finished
<1>3. Lifecycle!NextStatuses = NextStatuses
  BY <1>1 DEF Lifecycle!NextStatuses, NextStatuses
<1>4. \A st : Lifecycle!FinishedStatus(st) = FinishedStatus(st)
  BY DEF Lifecycle!FinishedStatus, FinishedStatus
<1>5. QED
  BY <1>1, <1>2, <1>3, <1>4

\* Who reads has no run to report to, to finish or to abort.
OnlyUploads == \A h \in Reader : pc[h] \notin {"run", "stored", "refused", "finish", "abort", "fail"}

LEMMA OnlyUploadsStep == ASSUME UploadsAssumption, IInv, OnlyUploads, [Next]_vars PROVE OnlyUploads'
<1>0. pc \in [Handler -> {"idle", "run", "agent", "volume", "pod", "send", "stored", "refused",
                         "finish", "close", "remove", "abort", "fail", "end"}]
      /\ Reader \subseteq Handler /\ \A h \in Reader : h \notin Upload
  BY DEF IInv, TypeOK, Handler, UploadsAssumption, Data
<1>1. ASSUME pc' = pc
      PROVE  OnlyUploads'
  BY <1>1 DEF OnlyUploads
<1>2. ASSUME NEW h \in Handler, NEW l, Goto(h, l), h \in Upload \/ l \in {"agent", "volume", "pod", "send", "close", "remove", "end"}
      PROVE  OnlyUploads'
  BY <1>0, <1>2 DEF OnlyUploads, Goto
<1>3. ASSUME NEW h \in Handler
      PROVE  h \notin Upload => h \in Reader /\ Fail(h) = "end"
  BY DEF Handler, Fail
<1>4. ASSUME NEW h \in Handler, HandlerStep(h)
      PROVE  OnlyUploads'
  <2>1. CASE Begin(h) \/ CreatePod(h) \/ WaitVolume(h) \/ WaitPod(h) \/ SendFails(h) \/ FinishUpload(h) \/ AbortFinish(h)
    BY <2>1, <1>2 DEF Begin, CreatePod, WaitVolume, WaitPod, SendFails, FinishUpload, AbortFinish
  <2>1a. CASE NewAgent(h)
    <3>1. Goto(h, "agent") \/ Goto(h, "end")
      BY <2>1a DEF NewAgent
    <3>2. QED
      BY <3>1, <1>2
  <2>1b. CASE Report(h)
    <3>1. h \in Upload
      BY <2>1b, <1>3 DEF Report, OnlyUploads
    <3>2. Goto(h, "finish") \/ Goto(h, "close")
      BY <2>1b DEF Report
    <3>3. QED
      BY <3>1, <3>2, <1>2
  <2>2. CASE CannotCreate(h) \/ CannotSpawn(h) \/ ClosePod(h) \/ RemoveAgent(h)
    BY <2>2, <1>2, <1>3 DEF CannotCreate, CannotSpawn, ClosePod, RemoveAgent
  <2>3. CASE Sent(h) \/ Refused(h)
    BY <2>3, <1>2 DEF Sent, Refused
  <2>4. CASE Abort(h)
    <3>1. h \in Upload
      BY <2>4, <1>3 DEF Abort, OnlyUploads
    <3>2. QED
      BY <2>4, <3>1, <1>2 DEF Abort
  <2>5. CASE Checkpoint(h) \/ Serve(h)
    BY <2>5, <1>1 DEF Checkpoint, Serve, handlerVars
  <2>6. QED
    BY <1>4, <2>1, <2>1a, <2>1b, <2>2, <2>3, <2>4, <2>5 DEF HandlerStep
<1>5. CASE Crash
  BY <1>1, <1>2, <1>5 DEF Crash, handlerVars
<1>6. CASE \/ \E h \in Handler : Pick(h) \/ Late(h) \/ AgentRested(h) \/ PodStep(h)
           \/ \E d \in Data : \/ BeginImport(d) \/ FillVolume(d) \/ EndImport(d) \/ Lock(d) \/ Finishing(d)
                             \/ Delete(d) \/ RunRested(d) \/ VolumeGone(d)
           \/ Select \/ Commit \/ Close \/ Keep \/ Restart \/ UNCHANGED vars
  <2>1. pc' = pc
    BY <1>6 DEF Pick, Late, AgentRested, PodStep, BeginImport, FillVolume, EndImport, Lock, Finishing, Delete,
                RunRested, VolumeGone, Select, Commit, Close, Keep, Restart, vars, handlerVars
  <2>2. QED
    BY <1>1, <2>1
<1>7. QED
  BY <1>4, <1>5, <1>6 DEF Next

\* The moves of one run that a step of this module makes.
Moves(d, st, new) ==
    \/ new = st
    \/ st = "none" /\ new = "running"
    \/ st \in KnitRunStatus /\ new \in NextStatuses[st] \ Finished
    \/ st \in {"completing", "aborting"} /\ new = FinishedStatus(st)
    \/ st \in Finished /\ new = "gone"

LEMMA MovesLive ==
    ASSUME TypeOK, TypeOK', NEW d \in Data, Moves(d, status[d], status'[d])
    PROVE  \/ Lifecycle!Begin(d) \/ Lifecycle!Advance(d) \/ Lifecycle!Finish(d)
           \/ Lifecycle!Discard(d) \/ Lifecycle!Stay(d)
BY LifecycleStatuses
   DEF Moves, Lifecycle!Begin, Lifecycle!Advance, Lifecycle!Finish, Lifecycle!Discard, Lifecycle!Stay

\* One run moves, the others do not.
LEMMA OneMoves ==
    ASSUME TypeOK, NEW d \in Data, NEW new, Moves(d, status[d], new), status' = [status EXCEPT ![d] = new]
    PROVE  \A e \in Data : Moves(e, status[e], status'[e])
BY DEF TypeOK, Moves

LEMMA LifeStep ==
    ASSUME UploadsAssumption, IInv, OnlyUploads, [Next]_vars
    PROVE  \A d \in Data : Moves(d, status[d], status'[d])
<1>. USE DEF UploadsAssumption, IInv, LoopTypes, LockHolds, Data
<1>0. ASSUME status' = status
      PROVE  \A d \in Data : Moves(d, status[d], status'[d])
  BY <1>0 DEF Moves
<1>1. ASSUME NEW h \in Handler, HandlerStep(h) \/ Pick(h) \/ Late(h) \/ AgentRested(h) \/ PodStep(h)
      PROVE  \A d \in Data : Moves(d, status[d], status'[d])
  <2>1. CASE Begin(h)
    <3>1. Moves(h, status[h], "running") /\ h \in Data /\ status' = [status EXCEPT ![h] = "running"]
      BY <2>1 DEF Begin, NewPseudo, Moves
    <3>2. QED
      BY <3>1, OneMoves
  <2>2. CASE Report(h)
    <3>1. CASE status' = status
      BY <1>0, <3>1
    <3>2. CASE /\ status[h] \in KnitRunStatus /\ Accepts(status[h], Verdict(h))
               /\ status' = [status EXCEPT ![h] = Verdict(h)] /\ h \in Data
      <4>1. Moves(h, status[h], Verdict(h))
        BY <3>2 DEF Accepts, Moves
      <4>2. QED
        BY <3>2, <4>1, OneMoves
    <3>3. h \in Data
      BY <2>2 DEF Report, OnlyUploads, Handler
    <3>4. QED
      BY <2>2, <3>1, <3>2, <3>3 DEF Report
  <2>3. CASE FinishUpload(h) \/ AbortFinish(h)
    <3>1. CASE status' = status
      BY <1>0, <3>1
    <3>2. CASE FinishRun(h) /\ h \in Data
      <4>1. Moves(h, status[h], FinishedStatus(status[h])) /\ status' = [status EXCEPT ![h] = FinishedStatus(status[h])]
        BY <3>2 DEF FinishRun, Moves
      <4>2. QED
        BY <3>2, <4>1, OneMoves
    <3>3. h \in Data
      BY <2>3 DEF FinishUpload, AbortFinish, OnlyUploads, Handler
    <3>4. QED
      BY <2>3, <3>1, <3>2, <3>3 DEF FinishUpload, AbortFinish, FinishOrError
  <2>4. CASE Abort(h)
    <3>1. CASE status' = status
      BY <1>0, <3>1
    <3>2. CASE status[h] = "running" /\ status' = [status EXCEPT ![h] = "aborting"] /\ h \in Data
      <4>1. Moves(h, status[h], "aborting")
        BY <3>2 DEF Moves, NextStatuses, KnitRunStatus, Finished
      <4>2. QED
        BY <3>2, <4>1, OneMoves
    <3>3. h \in Data
      BY <2>4 DEF Abort, OnlyUploads, Handler
    <3>4. QED
      BY <2>4, <3>1, <3>2, <3>3 DEF Abort
  <2>5. CASE \/ NewAgent(h) \/ CreatePod(h) \/ CannotCreate(h) \/ WaitVolume(h) \/ Checkpoint(h) \/ WaitPod(h)
             \/ CannotSpawn(h) \/ Serve(h) \/ Sent(h) \/ Refused(h) \/ SendFails(h) \/ ClosePod(h)
             \/ RemoveAgent(h) \/ Pick(h) \/ Late(h) \/ AgentRested(h) \/ PodStep(h)
    BY <2>5, <1>0 DEF NewAgent, CreatePod, CannotCreate, WaitVolume, Checkpoint, WaitPod,
              CannotSpawn, Serve, Sent, Refused, SendFails, ClosePod,
              RemoveAgent, Pick, Late, AgentRested, PodStep, handlerVars, agentVars, loopVars
  <2>6. QED
    BY <1>1, <2>1, <2>2, <2>3, <2>4, <2>5 DEF HandlerStep
<1>2. ASSUME NEW d \in Data,
             \/ BeginImport(d) \/ FillVolume(d) \/ EndImport(d) \/ Lock(d) \/ Finishing(d)
             \/ Delete(d) \/ RunRested(d) \/ VolumeGone(d)
      PROVE  \A e \in Data : Moves(e, status[e], status'[e])
  <2>1. CASE BeginImport(d)
    <3>1. Moves(d, status[d], "running") /\ status' = [status EXCEPT ![d] = "running"]
      BY <2>1 DEF BeginImport, NewPseudo, Moves
    <3>2. QED
      BY <3>1, OneMoves
  <2>2. CASE EndImport(d)
    <3>1. Moves(d, status[d], "completing") /\ status' = [status EXCEPT ![d] = "completing"]
      BY <2>2 DEF EndImport, Accepts, Moves
    <3>2. QED
      BY <3>1, OneMoves
  <2>3. CASE Finishing(d)
    <3>1. Moves(d, status[d], FinishedStatus(status[d])) /\ status' = [status EXCEPT ![d] = FinishedStatus(status[d])]
      BY <2>3 DEF Finishing, FinishRun, Moves
    <3>2. QED
      BY <3>1, OneMoves
  <2>4. CASE Delete(d)
    <3>1. Moves(d, status[d], "gone") /\ status' = [status EXCEPT ![d] = "gone"]
      BY <2>4 DEF Delete, Moves
    <3>2. QED
      BY <3>1, OneMoves
  <2>5. CASE FillVolume(d) \/ Lock(d) \/ RunRested(d) \/ VolumeGone(d)
    BY <2>5, <1>0 DEF FillVolume, Lock, RunRested, VolumeGone
  <2>6. QED
    BY <1>2, <2>1, <2>2, <2>3, <2>4, <2>5
<1>3. CASE Commit
  <2>1. CASE status' = status
    BY <1>0, <2>1
  <2>2. CASE mgr.to # status[mgr.run] /\ mgr.to \in NextStatuses[status[mgr.run]] /\ status' = [status EXCEPT ![mgr.run] = mgr.to]
    <3>1. mgr.run \in Data /\ status[mgr.run] \in KnitRunStatus /\ mgr.to = "aborting"
      BY <1>3, <2>2 DEF Commit
    <3>2. Moves(mgr.run, status[mgr.run], mgr.to)
      BY <2>2, <3>1 DEF Moves, Finished
    <3>3. QED
      BY <2>2, <3>1, <3>2, OneMoves
  <2>3. QED
    BY <1>3, <2>1, <2>2 DEF Commit
<1>4. CASE Select \/ Close \/ Keep \/ Restart \/ Crash \/ UNCHANGED vars
  BY <1>4, <1>0 DEF Select, Close, Keep, Restart, Crash, vars
<1>5. QED
  BY <1>1, <1>2, <1>3, <1>4 DEF Next

\* The runs of uploads and imports, which handlers, managers, finishing and users
\* move at the same time, make no move that the life of a run does not promise.
THEOREM LifecycleCorrect == ASSUME UploadsAssumption PROVE Spec => ImplementsLifecycle
<1>1. Init => Lifecycle!Init
  BY DEF Init, Lifecycle!Init
<1>2. Init => OnlyUploads
  BY DEF Init, OnlyUploads, Handler
<1>3. IInv /\ OnlyUploads /\ [Next]_vars => OnlyUploads'
  BY OnlyUploadsStep
<1>4. IInv /\ IInv' /\ OnlyUploads /\ [Next]_vars => [Lifecycle!Next]_<<status, {}>>
  <2>1. SUFFICES ASSUME IInv, IInv', OnlyUploads, [Next]_vars
                 PROVE  Lifecycle!Next
    OBVIOUS
  <2>2. \A d \in Data : Moves(d, status[d], status'[d])
    BY <2>1, LifeStep
  <2>3. QED
    BY <2>1, <2>2, MovesLive DEF IInv, Lifecycle!Next
<1>5. QED
  BY <1>1, <1>2, <1>3, <1>4, UploadsInvariance, PTL DEF Spec, ImplementsLifecycle, Lifecycle!Spec
-----------------------------------------------------------------------------
(* The walk of a tree: it fails if there is no end of it, or nothing at the *)
(* end of a link, and else comes by each file once for each way to it.     *)
(* The tree first: where links lead, what one gets to                      *)

TreeOK ==
    /\ tree.kind \in KindsOfNodes /\ tree.parent \in Parents(tree.kind) /\ follow \in BOOLEAN
    /\ \A n \in Node : IsLink(n) => tree.to[n] \in Node \cup {Nowhere}

LEMMA TreeIs ==
    ASSUME TreeWalkAssumption, TreeOK
    PROVE  /\ Node \subseteq Nat /\ 0 \in Node /\ Nowhere \notin Node /\ tree.kind[0] = "dir"
           /\ \A n \in Node : tree.kind[n] = "dir" => ~IsLink(n)
           /\ \A d : Entries(d) \subseteq Node
           /\ \A d \in Node : \A n \in Entries(d) : tree.kind[d] = "dir"
           /\ Links \in [Node -> SUBSET Node] /\ Onward \in [Node -> SUBSET Node]
<1>1. Node \subseteq Nat /\ 0 \in Node /\ Nowhere \notin Node
  BY DEF TreeWalkAssumption, Node, Nowhere
<1>2. tree.kind[0] = "dir" /\ \A n \in Node : tree.kind[n] = "dir" => ~IsLink(n)
  BY DEF TreeOK, KindsOfNodes, IsLink
<1>3. \A d : Entries(d) \subseteq Node
  BY DEF Entries
<1>4. \A d \in Node : \A n \in Entries(d) : tree.kind[d] = "dir"
  BY DEF Entries, TreeOK, Parents
<1>5. Links \in [Node -> SUBSET Node]
  BY <1>1 DEF Links, TreeOK
<1>6. Onward \in [Node -> SUBSET Node]
  BY <1>1, <1>3 DEF Onward, TreeOK, Followed
<1> QED
  BY <1>1, <1>2, <1>3, <1>4, <1>5, <1>6

\* Where links end, and what they are if they do not.
LEMMA EvalIs ==
    ASSUME TreeWalkAssumption, TreeOK, NEW n \in Node
    PROVE  /\ EvalSymlinks(n) = Nowhere => \A x \in Reached(Links, n) : IsLink(x)
           /\ EvalSymlinks(n) # Nowhere =>
                 EvalSymlinks(n) \in Reached(Links, n) /\ EvalSymlinks(n) \in Node /\ ~IsLink(EvalSymlinks(n))
<1>1. Reached(Links, n) \subseteq Node
  BY TreeIs, ReachedIs
<1>2. Ends(n) = {m \in Reached(Links, n) : ~IsLink(m)}
  BY DEF Ends
<1>3. CASE Ends(n) = {}
  BY <1>2, <1>3, TreeIs DEF EvalSymlinks
<1>4. CASE Ends(n) # {}
  <2>1. EvalSymlinks(n) \in Ends(n)
    BY <1>4 DEF EvalSymlinks
  <2>2. EvalSymlinks(n) \in Node
    BY <1>1, <1>2, <2>1
  <2>3. EvalSymlinks(n) # Nowhere
    BY <2>2, TreeIs
  <2> QED
    BY <1>2, <2>1, <2>2, <2>3
<1> QED
  BY <1>3, <1>4

LEMMA FollowedIs ==
    ASSUME TreeWalkAssumption, TreeOK, NEW n \in Node, Followed(n)
    PROVE  /\ Onward[n] = Links[n] /\ Links[n] = {tree.to[n]} \ {Nowhere}
           /\ Reached(Links, n) \subseteq From(n)
<1>1. follow /\ IsLink(n)
  BY DEF Followed
<1>2. \A x \in Node : IsLink(x) => Onward[x] = Links[x]
  BY <1>1 DEF Onward, Links, Followed, IsLink
<1>3. \A x \in Node : Links[x] \subseteq Onward[x]
  BY <1>2 DEF Links
<1>4. Encloses(From(n), Links, n)
  <2>1. Encloses(From(n), Onward, n) /\ From(n) \subseteq Node
    BY TreeIs, ReachedIs DEF From
  <2> QED
    BY <1>3, <2>1 DEF Encloses
<1>5. Reached(Links, n) \subseteq From(n)
  BY <1>4, TreeIs, ReachedIs DEF From
<1> QED
  BY <1>1, <1>2, <1>5 DEF Links

\* Where one gets from a node.
LEMMA FromIs ==
    ASSUME TreeWalkAssumption, TreeOK, NEW n \in Node
    PROVE  /\ n \in From(n) /\ From(n) \subseteq Node
           /\ \A x \in From(n) : Onward[x] \subseteq From(n) /\ From(x) \subseteq From(n)
           /\ \A x \in From(n) : x # n => \E z \in Onward[n] : z \in Node /\ x \in From(z)
<1>1. Onward \in [Node -> SUBSET Node]
  BY TreeIs
<1>2. Encloses(From(n), Onward, n) /\ From(n) \subseteq Node
  BY <1>1, ReachedIs DEF From
<1>3. ASSUME NEW x \in From(n) PROVE From(x) \subseteq From(n)
  BY <1>1, ReachedOn DEF From
<1>4. ASSUME NEW x \in From(n), x # n PROVE \E z \in Onward[n] : z \in Node /\ x \in From(z)
  BY <1>1, <1>4, ReachedFirst DEF From
<1> QED
  BY <1>2, <1>3, <1>4 DEF Encloses

-----------------------------------------------------------------------------
(* Where a walk must fail: a link to nowhere or a circle lies ahead *)

Bad(n) ==
    \/ \E x \in From(n) : Followed(x) /\ tree.to[x] = Nowhere
    \/ \E s \in SUBSET From(n) : s # {} /\ \A x \in s : Onward[x] \cap s # {}

LEMMA BadIs == Bad(0) <=> Endless \/ Dangling
BY DEF Bad, Endless, Dangling

\* From what is reached nothing is ahead that was not.
LEMMA BadFrom ==
    ASSUME TreeWalkAssumption, TreeOK, NEW n \in Node, NEW m \in From(n), Bad(m)
    PROVE  Bad(n)
<1>1. From(m) \subseteq From(n)
  BY FromIs
<1> QED
  BY <1>1 DEF Bad

\* Links that end nowhere are in a circle, or one of them dangles.
LEMMA CircleOfLinks ==
    ASSUME TreeWalkAssumption, TreeOK, NEW n \in Node, Followed(n), EvalSymlinks(n) = Nowhere
    PROVE  Bad(n)
<1> DEFINE C == Reached(Links, n)
<1>1. /\ \A x \in C : IsLink(x) /\ Followed(x) /\ x \in Node
      /\ Encloses(C, Links, n) /\ C \subseteq From(n)
  BY EvalIs, FollowedIs, TreeIs, ReachedIs DEF Followed
<1>2. \A x \in C : Onward[x] = {tree.to[x]} \ {Nowhere} /\ Links[x] = Onward[x]
  BY <1>1, FollowedIs
<1> HIDE DEF C
<1>3. CASE \E x \in C : tree.to[x] = Nowhere
  BY <1>1, <1>3 DEF Bad
<1>4. CASE \A x \in C : tree.to[x] # Nowhere
  <2>1. \A x \in C : tree.to[x] \in Onward[x] \cap C
    BY <1>1, <1>2, <1>4 DEF Encloses
  <2>2. n \in C
    BY <1>1 DEF Encloses
  <2> QED
    BY <1>1, <2>1, <2>2 DEF Bad
<1> QED
  BY <1>3, <1>4

\* A step from what is reached back to where one was closes a circle.
LEMMA CircleBack ==
    ASSUME TreeWalkAssumption, TreeOK, NEW v \in Node, NEW d \in From(v), NEW n \in Onward[d], v \in From(n)
    PROVE  Bad(v)
<1> DEFINE C == {x \in From(v) : v \in From(x)}
<1>1. d \in Node /\ n \in From(v) /\ n \in Node /\ v \in From(v)
  BY FromIs
<1>2. v \in From(d)
  <2>1. n \in From(d)
    BY <1>1, FromIs
  <2> QED
    BY <1>1, <2>1, FromIs
<1>3. ASSUME NEW x \in C PROVE Onward[x] \cap C # {}
  <2>1. x \in Node /\ Onward[x] \subseteq From(v) /\ v \in From(x)
    BY FromIs
  <2>2. CASE x # v
    <3>1. PICK z \in Onward[x] : z \in Node /\ v \in From(z)
      BY <2>1, <2>2, FromIs
    <3> QED
      BY <2>1, <3>1
  <2>3. CASE x = v /\ d = v
    BY <1>1, <2>3
  <2>4. CASE x = v /\ d # v
    <3>1. PICK z \in Onward[v] : z \in Node /\ d \in From(z)
      BY <2>4, FromIs
    <3>2. v \in From(z)
      BY <1>2, <3>1, FromIs
    <3> QED
      BY <2>1, <2>4, <3>1, <3>2
  <2> QED
    BY <2>2, <2>3, <2>4
<1>4. C \in SUBSET From(v) /\ v \in C
  BY <1>1
<1> HIDE DEF C
<1> QED
  BY <1>3, <1>4 DEF Bad

\* What lies ahead of a link lies ahead of its end.
LEMMA BadEnd ==
    ASSUME TreeWalkAssumption, TreeOK, NEW n \in Node, Followed(n), NEW m, m = EvalSymlinks(n), m # Nowhere, Bad(n)
    PROVE  Bad(m)
<1> DEFINE T == {x \in Node : m \in Reached(Links, x)}
<1>1. m \in Reached(Links, n) /\ m \in Node /\ ~IsLink(m) /\ n \in T /\ follow
  BY EvalIs DEF Followed
<1>2. Links \in [Node -> SUBSET Node]
  BY TreeIs
<1>3. ASSUME NEW x \in T, x # m
      PROVE  /\ Followed(x) /\ tree.to[x] # Nowhere /\ tree.to[x] \in T
             /\ Links[x] = {tree.to[x]} /\ Onward[x] = {tree.to[x]}
  <2>1. PICK z \in Links[x] : z \in Node /\ m \in Reached(Links, z)
    BY <1>2, <1>3, ReachedFirst
  <2>2. IsLink(x) /\ z = tree.to[x] /\ z # Nowhere
    BY <2>1 DEF Links
  <2>3. Followed(x)
    BY <1>1, <2>2 DEF Followed
  <2> QED
    BY <2>1, <2>2, <2>3, FollowedIs
<1> HIDE DEF T
<1>4. From(n) \subseteq T \cup From(m)
  <2> DEFINE s == T \cup From(m)
  <2>1. s \in SUBSET Node
    BY <1>1, FromIs DEF T
  <2>2. Encloses(s, Onward, n)
    BY <1>1, <1>3, FromIs DEF Encloses
  <2> HIDE DEF s
  <2>3. Reached(Onward, n) \subseteq s
    BY <2>1, <2>2, TreeIs, ReachedIs
  <2> QED
    BY <2>3 DEF From, s
<1>5. m \in From(m)
  BY <1>1, FromIs
<1>6. ASSUME NEW x \in From(n), Followed(x), tree.to[x] = Nowhere PROVE Bad(m)
  <2>1. x \in From(m)
    BY <1>1, <1>3, <1>4, <1>6 DEF Followed
  <2> QED
    BY <1>6, <2>1 DEF Bad
<1>7. ASSUME NEW s \in SUBSET From(n), s # {}, \A x \in s : Onward[x] \cap s # {} PROVE Bad(m)
  <2>1. s \cap From(m) # {}
    <3>1. SUFFICES ASSUME s \cap From(m) = {} PROVE FALSE
      OBVIOUS
    <3>2. PICK y \in s : TRUE
      BY <1>7
    <3>3. \A x \in s : x \in T /\ x # m /\ x \in Node
      BY <1>4, <1>5, <3>1 DEF T
    <3>4. \A x \in s : Links[x] \subseteq s
      BY <1>3, <1>7, <3>3
    <3>5. Reached(Links, y) \subseteq s
      <4>1. s \in SUBSET Node /\ Encloses(s, Links, y) /\ y \in Node
        BY <3>2, <3>3, <3>4 DEF Encloses
      <4> QED
        BY <1>2, <4>1, ReachedIs
    <3>6. m \in s
      BY <3>2, <3>3, <3>5 DEF T
    <3> QED
      BY <3>3, <3>6
  <2>2. \A x \in s \cap From(m) : Onward[x] \cap (s \cap From(m)) # {}
    BY <1>1, <1>7, FromIs
  <2> DEFINE u == s \cap From(m)
  <2>3. u \in SUBSET From(m) /\ u # {} /\ \A x \in u : Onward[x] \cap u # {}
    BY <2>1, <2>2
  <2> HIDE DEF u
  <2> QED
    BY <2>3 DEF Bad
<1> QED
  BY <1>6, <1>7 DEF Bad

\* What lies ahead of a directory lies ahead of an entry of it.
LEMMA BadEntry ==
    ASSUME TreeWalkAssumption, TreeOK, NEW d \in Node, tree.kind[d] = "dir", Bad(d)
    PROVE  \E n \in Entries(d) : Bad(n)
<1>1. Onward[d] = Entries(d) /\ ~Followed(d) /\ Entries(d) \subseteq Node
  BY TreeIs DEF Onward, Followed
<1>2. ASSUME NEW x \in From(d), Followed(x), tree.to[x] = Nowhere PROVE \E n \in Entries(d) : Bad(n)
  <2>1. PICK z \in Entries(d) : x \in From(z)
    BY <1>1, <1>2, FromIs
  <2> QED
    BY <1>2, <2>1 DEF Bad
<1>3. ASSUME NEW s \in SUBSET From(d), s # {}, \A x \in s : Onward[x] \cap s # {} PROVE \E n \in Entries(d) : Bad(n)
  <2>1. PICK z \in Entries(d) : s \cap From(z) # {}
    <3>1. PICK x \in s : TRUE
      BY <1>3
    <3>2. CASE x = d
      <4>1. PICK z \in Entries(d) : z \in s
        BY <1>1, <1>3, <3>1, <3>2
      <4>2. z \in From(z)
        BY <1>1, <4>1, FromIs
      <4> QED
        BY <4>1, <4>2
    <3>3. CASE x # d
      BY <1>1, <3>3, FromIs
    <3> QED
      BY <3>2, <3>3
  <2> DEFINE u == s \cap From(z)
  <2>2. u \in SUBSET From(z) /\ u # {} /\ \A x \in u : Onward[x] \cap u # {}
    <3>1. \A x \in From(z) : Onward[x] \subseteq From(z)
      BY <1>1, <2>1, FromIs
    <3> QED
      BY <1>3, <2>1, <3>1
  <2> HIDE DEF u
  <2> QED
    BY <2>1, <2>2 DEF Bad
<1> QED
  BY <1>2, <1>3 DEF Bad

\* Of a file nothing lies ahead.
LEMMA GoodFile ==
    ASSUME TreeWalkAssumption, TreeOK, NEW n \in Node, tree.kind[n] # "dir", ~Followed(n)
    PROVE  ~Bad(n)
<1>1. Onward[n] = {}
  BY DEF Onward
<1>2. From(n) \subseteq {n}
  <2>1. {n} \in SUBSET Node /\ Encloses({n}, Onward, n)
    BY <1>1 DEF Encloses
  <2> QED
    BY <2>1, TreeIs, ReachedIs DEF From
<1> QED
  BY <1>1, <1>2 DEF Bad

\* What is there under a name, and what lies ahead of it.
LEMMA StatIs ==
    ASSUME TreeWalkAssumption, TreeOK, NEW n \in Node
    PROVE  /\ Stat(n) = Nowhere => Bad(n)
           /\ Stat(n) # Nowhere =>
                 /\ Stat(n) \in Node /\ Stat(n) \in From(n) /\ ~Followed(Stat(n))
                 /\ Bad(n) => Bad(Stat(n))
           /\ ~Followed(n) => Stat(n) = n
           /\ Stat(n) # Nowhere /\ tree.kind[Stat(n)] # "dir" => ~Bad(n)
<1>1. CASE ~Followed(n)
  <2>1. Stat(n) = n /\ n # Nowhere /\ n \in From(n)
    BY <1>1, TreeIs, FromIs DEF Stat
  <2> QED
    BY <1>1, <2>1, GoodFile
<1>2. CASE Followed(n)
  <2>1. Stat(n) = EvalSymlinks(n)
    BY <1>2 DEF Stat
  <2>2. EvalSymlinks(n) # Nowhere =>
            EvalSymlinks(n) \in Node /\ EvalSymlinks(n) \in From(n) /\ ~Followed(EvalSymlinks(n))
    BY <1>2, EvalIs, FollowedIs DEF Followed
  <2>3. EvalSymlinks(n) # Nowhere /\ Bad(n) => Bad(EvalSymlinks(n))
    BY <1>2, BadEnd
  <2>4. EvalSymlinks(n) = Nowhere => Bad(n)
    BY <1>2, CircleOfLinks
  <2> QED
    BY <1>2, <2>1, <2>2, <2>3, <2>4, GoodFile
<1> QED
  BY <1>1, <1>2

-----------------------------------------------------------------------------
(* The calls *)

FrameType == [dir : Node, todo : SUBSET Node, path : Seq(Node), via : SUBSET Node]

\* Each call is a name longer than the one that made it, and what that has left
\* to do is not on the way here.
FramesOK(fs) ==
    /\ fs \in Seq(FrameType)
    /\ \A i \in 1..Len(fs) :
           /\ fs[i].todo \subseteq Entries(fs[i].dir) /\ fs[i].dir \in From(0) /\ tree.kind[fs[i].dir] = "dir"
           /\ \A v \in fs[i].via : v \in From(0) /\ fs[i].dir \in From(v)
           /\ Len(fs[i].path) = i - 1 /\ IsTrail(fs[i].path) /\ fs[i].dir = Before(fs[i].path, i)
    /\ \A i, j \in 1..Len(fs) :
           i < j => (\A k \in 1..i - 1 : fs[i].path[k] = fs[j].path[k]) /\ fs[j].path[i] \notin fs[i].todo

\* A way that some call is to go yet.
Ahead(fs, w) ==
    \E i \in 1..Len(fs) : i <= Len(w) /\ (\A k \in 1..i - 1 : w[k] = fs[i].path[k]) /\ w[i] \in fs[i].todo

FilesOK(fs, F) ==
    /\ F \in Seq(Seq(Node))
    /\ \A i, j \in 1..Len(F) : F[i] = F[j] => i = j
    /\ \A i \in 1..Len(F) : IsTrail(F[i]) /\ ToFile(F[i]) /\ ~Ahead(fs, F[i])
Complete(fs, F) ==
    \A w \in Seq(Node) : IsTrail(w) /\ ToFile(w) => Ahead(fs, w) \/ \E i \in 1..Len(F) : F[i] = w
BadAhead(fs) == Bad(0) => \E i \in 1..Len(fs) : \E n \in fs[i].todo : Bad(n)

WalkInv(fs, F, w) ==
    /\ w \in {"on", "done", "failed"} /\ (w = "on" => fs # <<>>) /\ (w = "done" => fs = <<>>)
    /\ w = "failed" => Bad(0)
    /\ w # "failed" => FramesOK(fs) /\ FilesOK(fs, F) /\ Complete(fs, F) /\ BadAhead(fs)

TreeWalkIInv == TreeOK /\ WalkInv(frames, files, walked)

LEMMA TopIs ==
    ASSUME TreeWalkAssumption, TreeOK, FramesOK(frames), walked = "on", frames # <<>>, NEW L, L = Len(frames)
    PROVE  /\ L \in Nat /\ L >= 1 /\ DOMAIN frames = 1..L /\ Top = frames[L] /\ Top \in FrameType
           /\ \A i \in 1..L : frames[i] \in FrameType
           /\ Front(frames) \in Seq(FrameType) /\ Len(Front(frames)) = L - 1
           /\ \A i \in 1..L - 1 : Front(frames)[i] = frames[i]
<1>1. frames \in Seq(FrameType)
  BY DEF FramesOK
<1> HIDE DEF FrameType
<1>2. L \in Nat /\ L >= 1 /\ DOMAIN frames = 1..L /\ \A i \in 1..L : frames[i] \in FrameType
  BY <1>1, EmptySeq
<1>3. Top = frames[L] /\ Top \in FrameType
  BY <1>1, <1>2 DEF Top, Last
<1>4. Front(frames) = SubSeq(frames, 1, L - 1)
  BY DEF Front
<1>5. /\ Front(frames) \in Seq(FrameType) /\ Len(Front(frames)) = L - 1
      /\ \A i \in 1..L - 1 : Front(frames)[i] = frames[i]
  BY <1>1, <1>2, <1>4
<1> QED
  BY <1>2, <1>3, <1>5

LEMMA EntryIs ==
    ASSUME TreeWalkAssumption, TreeOK, FramesOK(frames), frames # <<>>, AtEntry
    PROVE  Entry \in Top.todo /\ Entry \in Entries(Top.dir) /\ Entry \in Node
<1> DEFINE L == Len(frames)
<1>1. L \in 1..Len(frames) /\ Top = frames[L] /\ Top \in FrameType
  BY TopIs DEF AtEntry
<1>2. Top.todo \in SUBSET Nat /\ Top.todo # {}
  BY <1>1, TreeIs DEF AtEntry, FrameType
<1>3. \E n \in Top.todo : \A m \in Top.todo : n <= m
  BY <1>2, LeastNat
<1>4. Entry \in Top.todo
  BY <1>3 DEF Entry
<1>5. Top.todo \subseteq Entries(Top.dir)
  BY <1>1 DEF FramesOK
<1> QED
  BY <1>4, <1>5, TreeIs

\* The calls when the entry is dealt with.
LEMMA RestIs ==
    ASSUME TreeWalkAssumption, TreeOK, FramesOK(frames), frames # <<>>, AtEntry, NEW L, L = Len(frames)
    PROVE  /\ Rest \in Seq(FrameType) /\ Len(Rest) = L /\ \A i \in 1..L - 1 : Rest[i] = frames[i]
           /\ Rest[L] \in FrameType
           /\ Rest[L].dir = Top.dir /\ Rest[L].todo = Top.todo \ {Entry} /\ Rest[L].path = Top.path /\ Rest[L].via = Top.via
<1> DEFINE f == [Top EXCEPT !.todo = @ \ {Entry}]
<1>1. /\ L \in Nat /\ L >= 1 /\ Top \in FrameType
      /\ Front(frames) \in Seq(FrameType) /\ Len(Front(frames)) = L - 1
      /\ \A i \in 1..L - 1 : Front(frames)[i] = frames[i]
  BY TopIs DEF AtEntry
<1>2. f \in FrameType /\ f.dir = Top.dir /\ f.todo = Top.todo \ {Entry} /\ f.path = Top.path /\ f.via = Top.via
  BY <1>1 DEF FrameType
<1>3. Rest = Append(Front(frames), f)
  BY DEF Rest
<1> DEFINE fr == Front(frames)
           r == Rest
<1>4. /\ r = Append(fr, f) /\ fr \in Seq(FrameType) /\ Len(fr) = L - 1 /\ f \in FrameType
      /\ \A i \in 1..L - 1 : fr[i] = frames[i]
  BY <1>1, <1>2, <1>3
<1> HIDE DEF f, fr, r, FrameType
<1>5. r \in Seq(FrameType) /\ Len(r) = L /\ r[L] = f /\ \A i \in 1..L - 1 : r[i] = frames[i]
  BY <1>1, <1>4
<1> QED
  BY <1>2, <1>4, <1>5 DEF r

\* Of the call at work: where it is, and how it got there.
LEMMA CallIs ==
    ASSUME TreeWalkAssumption, TreeOK, FramesOK(frames), frames # <<>>, AtEntry, NEW L, L = Len(frames)
    PROVE  /\ L \in Nat /\ L >= 1 /\ Top = frames[L] /\ Entry \in Top.todo /\ Entry \in Entries(Top.dir) /\ Entry \in Node
           /\ Top.dir \in Node /\ Top.dir \in From(0) /\ Entry \in Onward[Top.dir] /\ Entry \in From(0)
           /\ Top.path \in Seq(Node) /\ Len(Top.path) = L - 1 /\ IsTrail(Top.path) /\ Top.dir = Before(Top.path, L)
           /\ Top.via \subseteq Node /\ \A v \in Top.via : v \in From(0) /\ Top.dir \in From(v)
<1>1. L \in Nat /\ L >= 1 /\ Top = frames[L] /\ Top \in FrameType
  BY TopIs DEF AtEntry
<1>2. /\ Top.dir \in From(0) /\ tree.kind[Top.dir] = "dir" /\ \A v \in Top.via : v \in From(0) /\ Top.dir \in From(v)
      /\ Len(Top.path) = L - 1 /\ IsTrail(Top.path) /\ Top.dir = Before(Top.path, L)
  <2>1. L \in 1..Len(frames)
    BY <1>1
  <2> QED
    BY <1>1, <2>1 DEF FramesOK
<1>3. Top.dir \in Node /\ Top.path \in Seq(Node) /\ Top.via \subseteq Node
  BY <1>1 DEF FrameType
<1>4. Entry \in Top.todo /\ Entry \in Entries(Top.dir) /\ Entry \in Node
  BY EntryIs
<1>5. Entry \in Onward[Top.dir]
  BY <1>2, <1>3, <1>4 DEF Onward
<1>6. Entry \in From(0)
  BY <1>2, <1>5, TreeIs, FromIs
<1> QED
  BY <1>1, <1>2, <1>3, <1>4, <1>5, <1>6

LEMMA HereIs ==
    ASSUME TreeWalkAssumption, TreeOK, FramesOK(frames), frames # <<>>, AtEntry, NEW L, L = Len(frames)
    PROVE  /\ Here \in Seq(Node) /\ Len(Here) = L /\ Here[L] = Entry /\ \A k \in 1..L - 1 : Here[k] = Top.path[k]
           /\ IsTrail(Here)
<1> DEFINE p == Top.path
           n == Entry
           h == Here
<1>1. /\ L \in Nat /\ L >= 1 /\ n \in Node /\ p \in Seq(Node) /\ Len(p) = L - 1 /\ IsTrail(p)
      /\ n \in Entries(Before(p, L))
  BY CallIs
<1>2. h = Append(p, n)
  BY DEF Here
<1> HIDE DEF p, n, h
<1>3. h \in Seq(Node) /\ Len(h) = L /\ h[L] = n /\ \A k \in 1..L - 1 : h[k] = p[k]
  BY <1>1, <1>2
<1>4. \A k \in 1..L : Before(h, k) = Before(p, k)
  <2>1. \A k \in 1..L : k # 1 => k - 1 \in 1..L - 1
    BY <1>1
  <2> QED
    BY <1>3, <2>1 DEF Before
<1>5. ASSUME NEW k \in 1..L PROVE h[k] \in Entries(Before(h, k))
  <2>1. CASE k = L
    BY <1>1, <1>3, <1>4, <2>1
  <2>2. CASE k # L
    <3>1. k \in 1..L - 1
      BY <1>1, <2>2
    <3>2. p[k] \in Entries(Before(p, k))
      BY <1>1, <3>1 DEF IsTrail
    <3> QED
      BY <1>3, <1>4, <3>1, <3>2
  <2> QED
    BY <2>1, <2>2
<1>6. IsTrail(h)
  BY <1>3, <1>5 DEF IsTrail
<1> QED
  BY <1>3, <1>6 DEF h, p, n

\* What is ahead when the entry is dealt with: all that was but what goes by it.
LEMMA RestAhead ==
    ASSUME TreeWalkAssumption, TreeOK, FramesOK(frames), frames # <<>>, AtEntry, NEW L, L = Len(frames),
           NEW w \in Seq(Node)
    PROVE  /\ Ahead(Rest, w) => Ahead(frames, w)
           /\ (L <= Len(w) /\ \A k \in 1..L : w[k] = Here[k]) => Ahead(frames, w) /\ ~Ahead(Rest, w)
           /\ Ahead(frames, w) /\ ~Ahead(Rest, w) => L <= Len(w) /\ \A k \in 1..L : w[k] = Here[k]
<1> DEFINE p == Top.path
           n == Entry
           h == Here
           r == Rest
           Here1 == L <= Len(w) /\ \A k \in 1..L : w[k] = h[k]
<1>1. /\ L \in Nat /\ L >= 1 /\ frames[L].path = p /\ frames[L].todo = Top.todo /\ n \in Top.todo
      /\ Len(w) \in Nat
  BY CallIs
<1>2. h[L] = n /\ \A k \in 1..L - 1 : h[k] = p[k]
  BY HereIs
<1>3. Len(r) = L /\ (\A i \in 1..L - 1 : r[i] = frames[i]) /\ r[L].todo = Top.todo \ {n} /\ r[L].path = p
  BY RestIs
<1>4. \A i \in 1..L - 1 : p[i] \notin frames[i].todo
  <2>1. \A i \in 1..L - 1 : i \in 1..Len(frames) /\ L \in 1..Len(frames) /\ i < L
    BY <1>1
  <2> QED
    BY <1>1, <2>1 DEF FramesOK
<1> HIDE DEF p, n, h, r
<1>5. \A i \in 1..L : i # L => i \in 1..L - 1
  BY <1>1
<1>6. \A i \in 1..L : r[i].path = frames[i].path /\ r[i].todo \subseteq frames[i].todo
  BY <1>1, <1>3, <1>5
<1>7. Ahead(r, w) => Ahead(frames, w)
  BY <1>3, <1>6 DEF Ahead
<1>8. ASSUME Here1 PROVE Ahead(frames, w)
  <2>1. L \in 1..Len(frames) /\ L <= Len(w) /\ w[L] \in frames[L].todo
    BY <1>1, <1>2, <1>8
  <2>2. \A k \in 1..L - 1 : w[k] = frames[L].path[k]
    BY <1>1, <1>2, <1>8
  <2> QED
    BY <2>1, <2>2 DEF Ahead
<1>9. ASSUME Here1, Ahead(r, w) PROVE FALSE
  <2>1. PICK i \in 1..L : w[i] \in r[i].todo
    BY <1>3, <1>9 DEF Ahead
  <2>2. CASE i = L
    BY <1>2, <1>3, <1>9, <2>1, <2>2
  <2>3. CASE i # L
    <3>1. i \in 1..L - 1 /\ w[i] = p[i]
      BY <1>2, <1>5, <1>9, <2>3
    <3> QED
      BY <1>3, <1>4, <2>1, <3>1
  <2> QED
    BY <2>2, <2>3
<1>10. ASSUME Ahead(frames, w), ~Ahead(r, w) PROVE Here1
  <2>1. PICK i \in 1..L : i <= Len(w) /\ (\A k \in 1..i - 1 : w[k] = frames[i].path[k]) /\ w[i] \in frames[i].todo
    BY <1>10 DEF Ahead
  <2>2. i = L
    <3>1. SUFFICES ASSUME i # L PROVE FALSE
      OBVIOUS
    <3>2. r[i] = frames[i] /\ i \in 1..Len(r)
      BY <1>3, <1>5, <3>1
    <3> QED
      BY <1>10, <2>1, <3>2 DEF Ahead
  <2>3. w[L] = n
    <3>1. SUFFICES ASSUME w[L] # n PROVE FALSE
      OBVIOUS
    <3>2. w[L] \in r[L].todo /\ L \in 1..Len(r) /\ r[L].path = frames[L].path
      BY <1>1, <1>3, <2>1, <2>2, <3>1
    <3> QED
      BY <1>10, <2>1, <2>2, <3>2 DEF Ahead
  <2>4. \A k \in 1..L : w[k] = h[k]
    BY <1>1, <1>2, <1>5, <2>1, <2>2, <2>3
  <2> QED
    BY <2>1, <2>2, <2>4
<1> QED
  BY <1>7, <1>8, <1>9, <1>10 DEF r, h

LEMMA RestOK ==
    ASSUME TreeWalkAssumption, TreeOK, FramesOK(frames), frames # <<>>, AtEntry PROVE FramesOK(Rest)
<1> DEFINE L == Len(frames)
           r == Rest
<1>1. /\ r \in Seq(FrameType) /\ Len(r) = L /\ \A i \in 1..L - 1 : r[i] = frames[i]
      /\ r[L].dir = Top.dir /\ r[L].todo \subseteq Top.todo /\ r[L].path = Top.path /\ r[L].via = Top.via
  BY RestIs
<1>2. L \in Nat /\ Top = frames[L]
  BY CallIs
<1> HIDE DEF r
<1>3. \A i \in 1..L : /\ r[i].dir = frames[i].dir /\ r[i].todo \subseteq frames[i].todo
                      /\ r[i].path = frames[i].path /\ r[i].via = frames[i].via
  <2>1. \A i \in 1..L : i # L => i \in 1..L - 1
    BY <1>2
  <2> QED
    BY <1>1, <1>2, <2>1
<1>4. ASSUME NEW i \in 1..L
      PROVE  /\ r[i].todo \subseteq Entries(r[i].dir) /\ r[i].dir \in From(0) /\ tree.kind[r[i].dir] = "dir"
             /\ \A v \in r[i].via : v \in From(0) /\ r[i].dir \in From(v)
             /\ Len(r[i].path) = i - 1 /\ IsTrail(r[i].path) /\ r[i].dir = Before(r[i].path, i)
  <2>1. /\ frames[i].todo \subseteq Entries(frames[i].dir) /\ frames[i].dir \in From(0) /\ tree.kind[frames[i].dir] = "dir"
        /\ \A v \in frames[i].via : v \in From(0) /\ frames[i].dir \in From(v)
        /\ Len(frames[i].path) = i - 1 /\ IsTrail(frames[i].path) /\ frames[i].dir = Before(frames[i].path, i)
    BY DEF FramesOK
  <2> QED
    BY <1>3, <2>1
<1>5. ASSUME NEW i \in 1..L, NEW j \in 1..L, i < j
      PROVE  (\A k \in 1..i - 1 : r[i].path[k] = r[j].path[k]) /\ r[j].path[i] \notin r[i].todo
  <2>1. (\A k \in 1..i - 1 : frames[i].path[k] = frames[j].path[k]) /\ frames[j].path[i] \notin frames[i].todo
    BY <1>5 DEF FramesOK
  <2> QED
    BY <1>3, <2>1
<1>6. FramesOK(r)
  BY <1>1, <1>4, <1>5 DEF FramesOK
<1> QED
  BY <1>6 DEF r

-----------------------------------------------------------------------------
(* The steps *)

LEMMA FailStep ==
    ASSUME TreeWalkAssumption, TreeWalkIInv, FailOnLink PROVE WalkInv(frames', files', walked')
<1>1. TreeOK /\ FramesOK(frames) /\ frames # <<>> /\ AtEntry /\ Loops /\ walked' = "failed"
  BY DEF TreeWalkIInv, WalkInv, FailOnLink, AtEntry, Fails
<1> DEFINE n == Entry
           d == Top.dir
           v == Stat(n)
<1>2. /\ n \in Node /\ d \in Node /\ d \in From(0) /\ n \in Onward[d] /\ n \in From(0)
      /\ Top.via \subseteq Node /\ \A x \in Top.via : x \in From(0) /\ d \in From(x)
  BY <1>1, CallIs
<1>3. v \in Top.via \/ v = Nowhere
  BY <1>1 DEF Loops
<1>3a. SUFFICES Bad(0)
  BY <1>1 DEF WalkInv
<1>4. CASE v = Nowhere
  BY <1>1, <1>2, <1>4, StatIs, TreeIs, BadFrom
<1>5. CASE v \in Top.via
  <2>1. v \in Node /\ v \in From(0) /\ d \in From(v)
    BY <1>2, <1>5
  <2>2. v # Nowhere
    BY <1>1, <2>1, TreeIs
  <2>3. v \in From(n)
    BY <1>1, <1>2, <2>2, StatIs
  <2>4. Bad(v)
    <3> HIDE DEF v, n, d
    <3> QED
      BY <1>1, <1>2, <2>1, <2>3, CircleBack
  <2> QED
    BY <1>1, <2>1, <2>4, TreeIs, BadFrom
<1> QED
  BY <1>3, <1>4, <1>5

LEMMA CallBackStep ==
    ASSUME TreeWalkAssumption, TreeWalkIInv, CallBack PROVE WalkInv(frames', files', walked')
<1> DEFINE L == Len(frames)
           n == Entry
           h == Here
           r == Rest
           F == Append(files, h)
<1>1. /\ TreeOK /\ FramesOK(frames) /\ frames # <<>> /\ AtEntry /\ ~Loops /\ tree.kind[Stat(n)] # "dir"
      /\ files' = F /\ frames' = r /\ walked' = "on"
      /\ FilesOK(frames, files) /\ Complete(frames, files) /\ BadAhead(frames)
  BY DEF TreeWalkIInv, WalkInv, CallBack, AtEntry, Archive
<1>2. L \in Nat /\ L >= 1 /\ n \in Node /\ h \in Seq(Node) /\ Len(h) = L /\ h[L] = n /\ IsTrail(h)
  BY <1>1, CallIs, HereIs
<1>3. Stat(n) # Nowhere
  <2>1. ~Followed(n) => Stat(n) = n /\ n # Nowhere
    BY <1>1, <1>2, StatIs, TreeIs
  <2> QED
    BY <1>1, <2>1 DEF Loops
<1>4. Stat(n) \in Node /\ ~Bad(n)
  BY <1>1, <1>2, <1>3, StatIs
<1>5. FramesOK(r) /\ Len(r) = L /\ r \in Seq(FrameType)
  BY <1>1, RestOK, RestIs
<1>6. ASSUME NEW w \in Seq(Node)
      PROVE  /\ Ahead(r, w) => Ahead(frames, w)
             /\ (L <= Len(w) /\ \A k \in 1..L : w[k] = h[k]) => Ahead(frames, w) /\ ~Ahead(r, w)
             /\ Ahead(frames, w) /\ ~Ahead(r, w) => L <= Len(w) /\ \A k \in 1..L : w[k] = h[k]
  BY <1>1, RestAhead
<1>6a. \A i \in 1..L : \A x \in frames[i].todo : x \in r[i].todo \/ (i = L /\ x = n)
  <2>1. (\A i \in 1..L - 1 : r[i] = frames[i]) /\ r[L].todo = Top.todo \ {n} /\ Top = frames[L]
    BY <1>1, RestIs, CallIs
  <2>2. \A i \in 1..L : i # L => i \in 1..L - 1
    BY <1>2
  <2> QED
    BY <2>1, <2>2
<1> HIDE DEF n, h, r, L
<1>7. Ahead(frames, h) /\ ~Ahead(r, h)
  BY <1>2, <1>6
<1>8. /\ files \in Seq(Seq(Node)) /\ Len(files) \in Nat /\ F \in Seq(Seq(Node)) /\ Len(F) = Len(files) + 1
      /\ F[Len(files) + 1] = h /\ \A i \in 1..Len(files) : F[i] = files[i] /\ files[i] \in Seq(Node)
  BY <1>1, <1>2 DEF FilesOK
<1> HIDE DEF F
<1>9. ToFile(h)
  BY <1>1, <1>2, <1>4, EmptySeq DEF ToFile
<1>10. FilesOK(r, F)
  <2>1. ASSUME NEW i \in 1..Len(F) PROVE IsTrail(F[i]) /\ ToFile(F[i]) /\ ~Ahead(r, F[i])
    <3>1. CASE i = Len(files) + 1
      BY <1>2, <1>7, <1>8, <1>9, <3>1
    <3>2. CASE i \in 1..Len(files)
      BY <1>1, <1>6, <1>8, <3>2 DEF FilesOK
    <3> QED
      BY <1>8, <3>1, <3>2
  <2>2. ASSUME NEW i \in 1..Len(F), NEW j \in 1..Len(F), F[i] = F[j] PROVE i = j
    <3>1. \A k \in 1..Len(files) : F[k] # h
      BY <1>1, <1>7, <1>8 DEF FilesOK
    <3>2. \A k \in 1..Len(F) : k = Len(files) + 1 \/ k \in 1..Len(files)
      BY <1>8
    <3>3. CASE i \in 1..Len(files) /\ j \in 1..Len(files)
      BY <1>1, <1>8, <2>2, <3>3 DEF FilesOK
    <3> QED
      BY <1>8, <2>2, <3>1, <3>2, <3>3
  <2> QED
    BY <1>8, <2>1, <2>2 DEF FilesOK
<1>11. ASSUME NEW w \in Seq(Node), IsTrail(w), ToFile(w) PROVE Ahead(r, w) \/ \E i \in 1..Len(F) : F[i] = w
  <2>1. CASE \E i \in 1..Len(files) : files[i] = w
    BY <1>8, <2>1
  <2>2. CASE Ahead(frames, w) /\ ~Ahead(r, w)
    <3>1. L <= Len(w) /\ \A k \in 1..L : w[k] = h[k]
      BY <1>6, <2>2
    <3>2. Len(w) \in Nat /\ \A k \in 1..Len(w) : w[k] \in Entries(Before(w, k))
      BY <1>11 DEF IsTrail
    <3>3. Len(w) = L
      <4>1. SUFFICES ASSUME L < Len(w) PROVE FALSE
        BY <1>2, <3>1, <3>2
      <4>2. L + 1 \in 1..Len(w) /\ L + 1 # 1 /\ (L + 1) - 1 = L
        BY <1>2, <3>2, <4>1
      <4>3. Before(w, L + 1) = Stat(w[L])
        BY <4>2 DEF Before
      <4>4. w[L] = n
        BY <1>2, <3>1
      <4>5. w[L + 1] \in Entries(Stat(n))
        BY <3>2, <4>2, <4>3, <4>4
      <4> QED
        BY <1>1, <1>4, <4>5, TreeIs
    <3>4. w = h
      BY <1>2, <3>1, <3>3, SeqEqual
    <3> QED
      BY <1>8, <3>4
  <2> QED
    BY <1>1, <1>11, <2>1, <2>2 DEF Complete
<1>12. BadAhead(r)
  <2>1. SUFFICES ASSUME Bad(0) PROVE \E i \in 1..Len(r) : \E x \in r[i].todo : Bad(x)
    BY DEF BadAhead
  <2>2. PICK i \in 1..L : \E x \in frames[i].todo : Bad(x)
    BY <1>1, <2>1 DEF BadAhead, L
  <2>2a. PICK x \in frames[i].todo : Bad(x)
    BY <2>2
  <2>3. x \in r[i].todo
    BY <1>4, <1>6a, <2>2a
  <2> QED
    BY <1>5, <2>2, <2>2a, <2>3
<1>13. r # <<>>
  BY <1>2, <1>5, EmptySeq
<1> QED
  BY <1>1, <1>5, <1>10, <1>11, <1>12, <1>13 DEF WalkInv, Complete

LEMMA Appended ==
    ASSUME NEW S, NEW s \in Seq(S), NEW e \in S, NEW n, n = Len(s)
    PROVE  /\ Append(s, e) \in Seq(S) /\ Len(Append(s, e)) = n + 1 /\ Append(s, e)[n + 1] = e
           /\ \A i \in 1..n : Append(s, e)[i] = s[i]
OBVIOUS

\* The calls when a directory is entered.
LEMMA CallsIn ==
    ASSUME TreeWalkAssumption, TreeOK, FramesOK(frames), frames # <<>>, AtEntry, NEW L, L = Len(frames),
           NEW fs, fs = Append(Rest, Callee), Stat(Entry) # Nowhere, tree.kind[Stat(Entry)] = "dir"
    PROVE  /\ FramesOK(fs) /\ Len(fs) = L + 1 /\ \A i \in 1..L : fs[i] = Rest[i]
           /\ fs[L + 1].todo = Entries(Stat(Entry)) /\ fs[L + 1].path = Here
<1> DEFINE n == Entry
           m == Stat(Entry)
           via == Top.via \cup (IF Followed(Entry) THEN {m} ELSE {})
           h == Here
           r == Rest
           p == Top.path
           c == Callee
<1>1. /\ L \in Nat /\ L >= 1 /\ n \in Node /\ n \in From(0) /\ n \in Onward[Top.dir] /\ Top.dir \in Node
      /\ Top.via \subseteq Node /\ \A v \in Top.via : v \in From(0) /\ Top.dir \in From(v)
  BY CallIs
<1>2. h \in Seq(Node) /\ Len(h) = L /\ h[L] = n /\ (\A k \in 1..L - 1 : h[k] = p[k]) /\ IsTrail(h)
  BY HereIs
<1>3. /\ r \in Seq(FrameType) /\ Len(r) = L /\ (\A i \in 1..L - 1 : r[i] = frames[i])
      /\ r[L].todo = Top.todo \ {n} /\ r[L].path = p /\ Top = frames[L]
  BY RestIs, CallIs
<1>4. FramesOK(r)
  BY RestOK
<1>5. m \in Node /\ m \in From(n) /\ m \in From(0) /\ Entries(m) \subseteq Node /\ m \in From(m) /\ tree.kind[m] = "dir"
  BY <1>1, StatIs, TreeIs, FromIs
<1>6. \A v \in via : v \in Node /\ v \in From(0) /\ m \in From(v)
  <2>1. ASSUME NEW v \in Top.via PROVE v \in Node /\ v \in From(0) /\ m \in From(v)
    <3>1. v \in Node /\ v \in From(0) /\ Top.dir \in From(v)
      BY <1>1
    <3>2. n \in From(v)
      BY <1>1, <3>1, FromIs
    <3>3. m \in From(v)
      BY <1>5, <3>1, <3>2, FromIs
    <3> QED
      BY <3>1, <3>3
  <2> QED
    BY <1>5, <2>1
<1>7. c.dir = m /\ c.todo = Entries(m) /\ c.path = h /\ c.via = via /\ c \in FrameType
  BY <1>2, <1>5, <1>6 DEF Callee, Frame, FrameType
<1>8. fs = Append(r, c)
  OBVIOUS
<1> HIDE DEF c, r, h, n, p, m, via, FrameType
<1>9. fs \in Seq(FrameType) /\ Len(fs) = L + 1 /\ fs[L + 1] = c /\ \A i \in 1..L : fs[i] = r[i]
  <2>1. r \in Seq(FrameType) /\ Len(r) = L /\ c \in FrameType
    BY <1>3, <1>7
  <2> QED
    BY <1>8, <2>1, Appended
<1>10. \A i \in 1..L + 1 : i # L + 1 => i \in 1..L
  BY <1>1
<1>11. ASSUME NEW i \in 1..L + 1
       PROVE  /\ fs[i].todo \subseteq Entries(fs[i].dir) /\ fs[i].dir \in From(0) /\ tree.kind[fs[i].dir] = "dir"
              /\ \A v \in fs[i].via : v \in From(0) /\ fs[i].dir \in From(v)
              /\ Len(fs[i].path) = i - 1 /\ IsTrail(fs[i].path) /\ fs[i].dir = Before(fs[i].path, i)
  <2>1. CASE i \in 1..L
    <3>1. fs[i] = r[i] /\ i \in 1..Len(r)
      BY <1>3, <1>9, <2>1
    <3> QED
      BY <1>4, <3>1 DEF FramesOK
  <2>2. CASE i = L + 1
    <3>1. m = Before(h, L + 1)
      BY <1>1, <1>2 DEF Before, n, m
    <3>2. L = (L + 1) - 1
      BY <1>1
    <3> QED
      BY <1>2, <1>5, <1>6, <1>7, <1>9, <2>2, <3>1, <3>2
  <2> QED
    BY <1>10, <2>1, <2>2
<1>12. ASSUME NEW i \in 1..L + 1, NEW j \in 1..L + 1, i < j
       PROVE  (\A k \in 1..i - 1 : fs[i].path[k] = fs[j].path[k]) /\ fs[j].path[i] \notin fs[i].todo
  <2>1. i \in 1..L
    BY <1>1, <1>12
  <2>2. CASE j \in 1..L
    <3>1. fs[i] = r[i] /\ fs[j] = r[j] /\ i \in 1..Len(r) /\ j \in 1..Len(r)
      BY <1>3, <1>9, <2>1, <2>2
    <3>2. (\A k \in 1..i - 1 : r[i].path[k] = r[j].path[k]) /\ r[j].path[i] \notin r[i].todo
      BY <1>4, <1>12, <3>1 DEF FramesOK
    <3> QED
      BY <3>1, <3>2
  <2>3. CASE j = L + 1 /\ i = L
    BY <1>2, <1>3, <1>7, <1>9, <2>1, <2>3
  <2>4. CASE j = L + 1 /\ i # L
    <3>1. i \in 1..L - 1 /\ i \in 1..Len(frames) /\ L \in 1..Len(frames) /\ i < L
      BY <1>1, <2>1, <2>4
    <3>2. (\A k \in 1..i - 1 : frames[i].path[k] = frames[L].path[k]) /\ frames[L].path[i] \notin frames[i].todo
      BY <3>1 DEF FramesOK
    <3>3. fs[i] = frames[i] /\ fs[j].path = h /\ p = frames[L].path /\ h[i] = p[i] /\ \A k \in 1..i - 1 : h[k] = p[k]
      <4>1. \A k \in 1..i - 1 : k \in 1..L - 1
        BY <1>1, <3>1
      <4>2. fs[i] = r[i] /\ r[i] = frames[i]
        BY <1>3, <1>9, <2>1, <3>1
      <4> QED
        BY <1>2, <1>3, <1>7, <1>9, <2>4, <3>1, <4>1, <4>2 DEF p
    <3> QED
      BY <3>2, <3>3
  <2> QED
    BY <1>10, <2>2, <2>3, <2>4
<1>13. FramesOK(fs)
  <2>1. 1..L + 1 = 1..Len(fs)
    BY <1>9
  <2>2. \A i \in 1..Len(fs) :
            /\ fs[i].todo \subseteq Entries(fs[i].dir) /\ fs[i].dir \in From(0) /\ tree.kind[fs[i].dir] = "dir"
            /\ \A v \in fs[i].via : v \in From(0) /\ fs[i].dir \in From(v)
            /\ Len(fs[i].path) = i - 1 /\ IsTrail(fs[i].path) /\ fs[i].dir = Before(fs[i].path, i)
    BY <1>11, <2>1
  <2>3. \A i, j \in 1..Len(fs) :
            i < j => (\A k \in 1..i - 1 : fs[i].path[k] = fs[j].path[k]) /\ fs[j].path[i] \notin fs[i].todo
    <3> TAKE i, j \in 1..Len(fs)
    <3> HAVE i < j
    <3> QED
      BY <1>12, <2>1
  <2> QED
    BY <1>9, <2>2, <2>3 DEF FramesOK
<1> QED
  BY <1>7, <1>9, <1>13 DEF r, h, m

LEMMA EnterStep ==
    ASSUME TreeWalkAssumption, TreeWalkIInv, EnterDirectory PROVE WalkInv(frames', files', walked')
<1> DEFINE L == Len(frames)
           n == Entry
           h == Here
           r == Rest
           m == Stat(Entry)
           fs == Append(Rest, Callee)
<1>1. /\ TreeOK /\ FramesOK(frames) /\ frames # <<>> /\ AtEntry /\ ~Loops /\ tree.kind[m] = "dir"
      /\ frames' = fs /\ files' = files /\ walked' = "on"
      /\ FilesOK(frames, files) /\ Complete(frames, files) /\ BadAhead(frames)
  BY DEF TreeWalkIInv, WalkInv, EnterDirectory, AtEntry
<1>2. L \in Nat /\ L >= 1 /\ n \in Node /\ h \in Seq(Node) /\ Len(h) = L /\ h[L] = n
  BY <1>1, CallIs, HereIs
<1>3. m # Nowhere
  <2>1. ~Followed(n) => m = n /\ n # Nowhere
    BY <1>1, <1>2, StatIs, TreeIs
  <2> QED
    BY <1>1, <2>1 DEF Loops
<1>4. m \in Node /\ (Bad(n) => Bad(m))
  BY <1>1, <1>2, <1>3, StatIs
<1>5. /\ FramesOK(fs) /\ Len(fs) = L + 1 /\ \A i \in 1..L : fs[i] = r[i]
      /\ fs[L + 1].todo = Entries(m) /\ fs[L + 1].path = h
  <2>1. m = Stat(Entry) /\ fs = Append(Rest, Callee) /\ L = Len(frames) /\ r = Rest /\ h = Here
    OBVIOUS
  <2>2. TreeOK /\ FramesOK(frames) /\ frames # <<>> /\ AtEntry /\ tree.kind[m] = "dir"
    BY <1>1
  <2> HIDE DEF m, fs, L, r, h
  <2> QED
    BY <1>3, <2>1, <2>2, CallsIn
<1>6. ASSUME NEW w \in Seq(Node)
      PROVE  /\ Ahead(r, w) => Ahead(frames, w)
             /\ (L <= Len(w) /\ \A k \in 1..L : w[k] = h[k]) => Ahead(frames, w) /\ ~Ahead(r, w)
             /\ Ahead(frames, w) /\ ~Ahead(r, w) => L <= Len(w) /\ \A k \in 1..L : w[k] = h[k]
  BY <1>1, RestAhead
<1>7. Len(r) = L /\ \A i \in 1..L : \A x \in frames[i].todo : x \in r[i].todo \/ (i = L /\ x = n)
  <2>1. Len(r) = L /\ (\A i \in 1..L - 1 : r[i] = frames[i]) /\ r[L].todo = Top.todo \ {n} /\ Top = frames[L]
    BY <1>1, RestIs, CallIs
  <2>2. \A i \in 1..L : i # L => i \in 1..L - 1
    BY <1>2
  <2> QED
    BY <2>1, <2>2
<1> HIDE DEF fs
<1>8. ASSUME NEW w \in Seq(Node)
      PROVE  Ahead(fs, w) <=>
                 Ahead(r, w) \/ (L + 1 <= Len(w) /\ (\A k \in 1..L : w[k] = h[k]) /\ w[L + 1] \in Entries(m))
  <2> HIDE DEF r, m, h, L
  <2>1. (L + 1) - 1 = L /\ Len(w) \in Nat /\ \A i \in 1..L + 1 : i = L + 1 \/ i \in 1..L
    BY <1>2
  <2>2. ASSUME Ahead(fs, w)
        PROVE  Ahead(r, w) \/ (L + 1 <= Len(w) /\ (\A k \in 1..L : w[k] = h[k]) /\ w[L + 1] \in Entries(m))
    <3>1. PICK i \in 1..L + 1 : i <= Len(w) /\ (\A k \in 1..i - 1 : w[k] = fs[i].path[k]) /\ w[i] \in fs[i].todo
      BY <1>5, <2>2 DEF Ahead
    <3>2. CASE i \in 1..L
      BY <1>5, <1>7, <3>1, <3>2 DEF Ahead
    <3>3. CASE i = L + 1
      BY <1>5, <2>1, <3>1, <3>3
    <3> QED
      BY <2>1, <3>2, <3>3
  <2>3. ASSUME Ahead(r, w) PROVE Ahead(fs, w)
    <3>1. PICK i \in 1..L : i <= Len(w) /\ (\A k \in 1..i - 1 : w[k] = r[i].path[k]) /\ w[i] \in r[i].todo
      BY <1>7, <2>3 DEF Ahead
    <3>2. i \in 1..Len(fs) /\ fs[i] = r[i]
      BY <1>2, <1>5
    <3> QED
      BY <3>1, <3>2 DEF Ahead
  <2>4. ASSUME L + 1 <= Len(w), \A k \in 1..L : w[k] = h[k], w[L + 1] \in Entries(m) PROVE Ahead(fs, w)
    <3>1. L + 1 \in 1..Len(fs) /\ \A k \in 1..(L + 1) - 1 : w[k] = fs[L + 1].path[k]
      BY <1>2, <1>5, <2>1, <2>4
    <3> QED
      BY <1>5, <2>4, <3>1 DEF Ahead
  <2> QED
    BY <2>2, <2>3, <2>4
<1>9. FilesOK(fs, files)
  <2>1. ASSUME NEW i \in 1..Len(files) PROVE ~Ahead(fs, files[i])
    <3>1. files[i] \in Seq(Node) /\ ~Ahead(frames, files[i])
      BY <1>1 DEF FilesOK
    <3>2. Len(files[i]) \in Nat /\ (L + 1 <= Len(files[i]) => L <= Len(files[i]))
      BY <1>2, <3>1
    <3> HIDE DEF L, r, h, m
    <3> QED
      BY <1>6, <1>8, <3>1, <3>2
  <2> QED
    BY <1>1, <2>1 DEF FilesOK
<1>10. ASSUME NEW w \in Seq(Node), IsTrail(w), ToFile(w) PROVE Ahead(fs, w) \/ \E i \in 1..Len(files) : files[i] = w
  <2>1. SUFFICES ASSUME Ahead(frames, w), ~Ahead(r, w) PROVE Ahead(fs, w)
    BY <1>1, <1>8, <1>10 DEF Complete
  <2>2. L <= Len(w) /\ \A k \in 1..L : w[k] = h[k]
    BY <1>6, <2>1
  <2>3. Len(w) \in Nat /\ (\A k \in 1..Len(w) : w[k] \in Entries(Before(w, k))) /\ w[L] = n
    BY <1>2, <1>10, <2>2 DEF IsTrail
  <2>4. Len(w) # L
    <3>1. Len(w) = L => tree.kind[m] # "dir"
      BY <1>10, <2>3 DEF ToFile
    <3> QED
      BY <1>1, <3>1
  <2>5. L + 1 \in 1..Len(w) /\ L + 1 # 1 /\ (L + 1) - 1 = L /\ L + 1 <= Len(w)
    BY <1>2, <2>2, <2>3, <2>4
  <2>6. Before(w, L + 1) = m
    BY <2>3, <2>5 DEF Before
  <2>7. w[L + 1] \in Entries(m)
    BY <2>3, <2>5, <2>6
  <2> QED
    BY <1>8, <2>2, <2>5, <2>7
<1>11. BadAhead(fs)
  <2>1. SUFFICES ASSUME Bad(0) PROVE \E i \in 1..Len(fs) : \E x \in fs[i].todo : Bad(x)
    BY DEF BadAhead
  <2>2. PICK i \in 1..L : \E x \in frames[i].todo : Bad(x)
    BY <1>1, <2>1 DEF BadAhead
  <2>3. PICK x \in frames[i].todo : Bad(x)
    BY <2>2
  <2>4. CASE x \in r[i].todo
    BY <1>2, <1>5, <2>3, <2>4
  <2>5. CASE x = n
    <3>1. Bad(m)
      BY <1>4, <2>3, <2>5
    <3>2. \E e \in Entries(m) : Bad(e)
      BY <1>1, <1>4, <3>1, BadEntry
    <3>3. L + 1 \in 1..Len(fs)
      BY <1>2, <1>5
    <3> QED
      BY <1>5, <3>2, <3>3
  <2> QED
    BY <1>7, <2>4, <2>5
<1>12. fs # <<>>
  BY <1>2, <1>5, EmptySeq
<1> QED
  BY <1>1, <1>5, <1>9, <1>10, <1>11, <1>12 DEF WalkInv, Complete

LEMMA ReturnStep ==
    ASSUME TreeWalkAssumption, TreeWalkIInv, Return PROVE WalkInv(frames', files', walked')
<1> DEFINE L == Len(frames)
           g == Front(frames)
<1>1. /\ TreeOK /\ FramesOK(frames) /\ frames # <<>> /\ walked = "on" /\ Top.todo = {}
      /\ frames' = g /\ files' = files /\ walked' = (IF L = 1 THEN "done" ELSE "on")
      /\ FilesOK(frames, files) /\ Complete(frames, files) /\ BadAhead(frames)
  BY DEF TreeWalkIInv, WalkInv, Return
<1>2. /\ L \in Nat /\ L >= 1 /\ frames[L].todo = {} /\ g \in Seq(FrameType) /\ Len(g) = L - 1
      /\ \A i \in 1..L - 1 : g[i] = frames[i]
  BY <1>1, TopIs
<1> HIDE DEF g
<1>3. \A i \in 1..L : i # L => i \in 1..L - 1
  BY <1>2
<1>4. \A i \in 1..L - 1 : i \in 1..L /\ g[i] = frames[i]
  BY <1>2
<1>5. FramesOK(g)
  <2>1. \A i \in 1..Len(g) : i \in 1..Len(frames) /\ g[i] = frames[i]
    BY <1>2, <1>4
  <2>2. \A i \in 1..Len(g) :
           /\ g[i].todo \subseteq Entries(g[i].dir) /\ g[i].dir \in From(0) /\ tree.kind[g[i].dir] = "dir"
           /\ \A v \in g[i].via : v \in From(0) /\ g[i].dir \in From(v)
           /\ Len(g[i].path) = i - 1 /\ IsTrail(g[i].path) /\ g[i].dir = Before(g[i].path, i)
    BY <1>1, <2>1 DEF FramesOK
  <2>3. \A i, j \in 1..Len(g) :
           i < j => (\A k \in 1..i - 1 : g[i].path[k] = g[j].path[k]) /\ g[j].path[i] \notin g[i].todo
    <3> TAKE i, j \in 1..Len(g)
    <3>1. i < j => /\ \A k \in 1..i - 1 : frames[i].path[k] = frames[j].path[k]
                   /\ frames[j].path[i] \notin frames[i].todo
      BY <1>1, <2>1 DEF FramesOK
    <3> QED
      BY <2>1, <3>1
  <2> QED
    BY <1>2, <2>2, <2>3 DEF FramesOK
<1>6. ASSUME NEW w \in Seq(Node) PROVE Ahead(g, w) <=> Ahead(frames, w)
  BY <1>2, <1>3, <1>4 DEF Ahead
<1>7. FilesOK(g, files)
  BY <1>1, <1>6 DEF FilesOK
<1>8. Complete(g, files)
  BY <1>1, <1>6 DEF Complete
<1>9. BadAhead(g)
  BY <1>1, <1>2, <1>3, <1>4 DEF BadAhead
<1>10. (L = 1 => g = <<>>) /\ (L # 1 => g # <<>>)
  BY <1>2, EmptySeq
<1> QED
  BY <1>1, <1>5, <1>7, <1>8, <1>9, <1>10 DEF WalkInv

LEMMA InitStep ==
    ASSUME TreeWalkAssumption, TreeWalkInit PROVE TreeWalkIInv
<1>1. PICK k \in KindsOfNodes : \E p \in Parents(k), to \in [{n \in Node : k[n] = "link"} -> Node \cup {Nowhere}] :
          tree = [kind |-> k, parent |-> p, to |-> to]
  BY DEF TreeWalkInit
<1>2. PICK p \in Parents(k), to \in [{n \in Node : k[n] = "link"} -> Node \cup {Nowhere}] :
          tree = [kind |-> k, parent |-> p, to |-> to]
  BY <1>1
<1>3. tree.kind = k /\ tree.parent = p /\ tree.to = to /\ follow \in BOOLEAN
  BY <1>2 DEF TreeWalkInit
<1>4. TreeOK
  BY <1>3 DEF TreeOK, IsLink
<1>5. PICK via \in {{}, {0}} : frames = <<Frame(0, <<>>, via)>>
  BY DEF TreeWalkInit
<1>6. files = <<>> /\ walked = "on"
  BY DEF TreeWalkInit
<1>7. 0 \in Node /\ tree.kind[0] = "dir" /\ Entries(0) \subseteq Node /\ 0 \in From(0)
  BY <1>4, TreeIs, FromIs
<1> DEFINE c == Frame(0, <<>>, via)
<1>8. c \in FrameType /\ c.dir = 0 /\ c.todo = Entries(0) /\ c.path = <<>> /\ c.via \subseteq {0}
  BY <1>5, <1>7 DEF Frame, FrameType
<1> HIDE DEF c
<1>9. frames = <<c>> /\ Len(frames) = 1 /\ frames[1] = c
  BY <1>5 DEF c
<1>10. FramesOK(frames)
  <2>1. frames \in Seq(FrameType)
    <3> HIDE DEF FrameType
    <3> QED
      BY <1>8, <1>9
  <2>2. IsTrail(<<>>) /\ Before(<<>>, 1) = 0 /\ Len(<<>>) = 0
    BY DEF IsTrail, Before
  <2>3. \A i \in 1..Len(frames) : i = 1
    BY <1>9
  <2>4. \A i \in 1..Len(frames) :
           /\ frames[i].todo \subseteq Entries(frames[i].dir) /\ frames[i].dir \in From(0) /\ tree.kind[frames[i].dir] = "dir"
           /\ \A v \in frames[i].via : v \in From(0) /\ frames[i].dir \in From(v)
           /\ Len(frames[i].path) = i - 1 /\ IsTrail(frames[i].path) /\ frames[i].dir = Before(frames[i].path, i)
    BY <1>7, <1>8, <1>9, <2>2, <2>3
  <2>5. \A i, j \in 1..Len(frames) :
           i < j => (\A l \in 1..i - 1 : frames[i].path[l] = frames[j].path[l]) /\ frames[j].path[i] \notin frames[i].todo
    <3> TAKE i, j \in 1..Len(frames)
    <3> QED
      BY <2>3
  <2> QED
    BY <2>1, <2>4, <2>5 DEF FramesOK
<1>11. FilesOK(frames, files)
  BY <1>6 DEF FilesOK
<1>12. ASSUME NEW w \in Seq(Node), IsTrail(w), ToFile(w) PROVE Ahead(frames, w)
  <2>1. Len(w) \in Nat /\ Len(w) >= 1 /\ 1 \in 1..Len(w)
    BY <1>12, EmptySeq DEF ToFile
  <2>2. w[1] \in Entries(0)
    BY <1>12, <2>1 DEF IsTrail, Before
  <2> QED
    BY <1>8, <1>9, <2>1, <2>2 DEF Ahead
<1>13. BadAhead(frames)
  BY <1>4, <1>7, <1>8, <1>9, BadEntry DEF BadAhead
<1>14. frames # <<>>
  BY <1>9
<1> QED
  BY <1>4, <1>6, <1>10, <1>11, <1>12, <1>13, <1>14 DEF TreeWalkIInv, WalkInv, Complete

\* The tree is the same throughout.
LEMMA SameTree ==
    ASSUME UNCHANGED <<tree, follow>>
    PROVE  /\ TreeOK' = TreeOK /\ Onward' = Onward
           /\ \A n : Entries(n)' = Entries(n) /\ From(n)' = From(n) /\ Stat(n)' = Stat(n) /\ Bad(n)' = Bad(n)
<1>1. \A n : Entries(n)' = Entries(n) /\ IsLink(n)' = IsLink(n) /\ Followed(n)' = Followed(n)
  BY DEF Entries, IsLink, Followed
<1>2. Onward' = Onward /\ Links' = Links
  BY <1>1 DEF Onward, Links
<1>3. \A n : Ends(n)' = Ends(n) /\ From(n)' = From(n)
  BY <1>1, <1>2 DEF Ends, From
<1>4. \A n : Stat(n)' = Stat(n)
  <2> TAKE n
  <2>1. Ends(n)' = Ends(n)
    BY <1>3
  <2>2. (CHOOSE m \in Ends(n) : TRUE)' = CHOOSE m \in Ends(n) : TRUE
    BY <2>1, Zenon
  <2>3. EvalSymlinks(n)' = EvalSymlinks(n)
    BY <2>1, <2>2 DEF EvalSymlinks
  <2> QED
    BY <1>1, <2>3 DEF Stat
<1>5. \A n : Bad(n)' = Bad(n)
  BY <1>1, <1>2, <1>3 DEF Bad
<1>6. TreeOK' = TreeOK
  BY <1>1 DEF TreeOK
<1> QED
  BY <1>1, <1>2, <1>3, <1>4, <1>5, <1>6

LEMMA Moved ==
    ASSUME UNCHANGED <<tree, follow>>, TreeOK, WalkInv(frames', files', walked') PROVE TreeWalkIInv'
<1>1. TreeOK'
  BY SameTree
<1>2. \A w : IsTrail(w)' = IsTrail(w) /\ ToFile(w)' = ToFile(w) /\ \A i : Before(w, i)' = Before(w, i)
  BY SameTree DEF IsTrail, ToFile, Before
<1>3. FramesOK(frames)' = FramesOK(frames')
  BY <1>2, SameTree DEF FramesOK
<1>4. FilesOK(frames, files)' = FilesOK(frames', files')
  BY <1>2 DEF FilesOK, Ahead
<1>5. Complete(frames, files)' = Complete(frames', files')
  BY <1>2 DEF Complete, Ahead
<1>6. BadAhead(frames)' = BadAhead(frames')
  BY SameTree DEF BadAhead
<1> QED
  BY <1>1, <1>3, <1>4, <1>5, <1>6, SameTree DEF TreeWalkIInv, WalkInv

\* What is always so of a walk: the calls that are made, and that each way to a file
\* is ahead of them or was handed over.
THEOREM TreeWalkInductive ==
    ASSUME TreeWalkAssumption PROVE TreeWalkBehavior => []TreeWalkIInv
<1>1. TreeWalkInit => TreeWalkIInv
  BY InitStep
<1>2. ASSUME TreeWalkIInv, [TreeWalkNext]_treeVars PROVE TreeWalkIInv'
  <2>1. SUFFICES UNCHANGED <<tree, follow>> /\ WalkInv(frames', files', walked')
    BY <1>2, Moved DEF TreeWalkIInv
  <2>2. CASE FailOnLink
    BY <1>2, <2>2, FailStep DEF FailOnLink
  <2>3. CASE EnterDirectory
    BY <1>2, <2>3, EnterStep DEF EnterDirectory
  <2>4. CASE CallBack
    BY <1>2, <2>4, CallBackStep DEF CallBack
  <2>5. CASE Return
    BY <1>2, <2>5, ReturnStep DEF Return
  <2>6. CASE UNCHANGED treeVars
    <3>1. frames' = frames /\ files' = files /\ walked' = walked /\ UNCHANGED <<tree, follow>>
      BY <2>6 DEF treeVars
    <3> QED
      BY <1>2, <3>1 DEF TreeWalkIInv
  <2> QED
    BY <1>2, <2>2, <2>3, <2>4, <2>5, <2>6 DEF TreeWalkNext
<1> QED
  BY <1>1, <1>2, PTL DEF TreeWalkBehavior

\* A number of entries after the root is a way.
LEMMA TrailsAre ==
    ASSUME TreeWalkAssumption, TreeOK, NEW w \in Trails PROVE IsTrail(w)
<1> DEFINE D == Seq(Node)
           steps == [v \in D |-> {Append(v, n) : n \in Entries(Before(v, Len(v) + 1))}]
           ways == {v \in D : IsTrail(v)}
<1>1. steps \in [D -> SUBSET D]
  <2>1. ASSUME NEW v \in D PROVE {Append(v, n) : n \in Entries(Before(v, Len(v) + 1))} \subseteq D
    <3>1. Entries(Before(v, Len(v) + 1)) \subseteq Node
      BY TreeIs
    <3>2. \A n \in Node : Append(v, n) \in D
      OBVIOUS
    <3> QED
      BY <3>1, <3>2
  <2> HIDE DEF D
  <2> QED
    BY <2>1
<1>2. <<>> \in ways
  BY DEF IsTrail
<1>3. ASSUME NEW v \in ways PROVE steps[v] \subseteq ways
  <2>1. v \in D /\ IsTrail(v) /\ steps[v] = {Append(v, n) : n \in Entries(Before(v, Len(v) + 1))}
    OBVIOUS
  <2>2. ASSUME NEW n \in Entries(Before(v, Len(v) + 1)) PROVE Append(v, n) \in ways
    <3> DEFINE u == Append(v, n)
               l == Len(v)
    <3>1. n \in Node
      BY TreeIs
    <3>2. u \in D /\ Len(u) = l + 1 /\ u[l + 1] = n /\ l \in Nat /\ \A i \in 1..l : u[i] = v[i]
      BY <2>1, <3>1, Appended
    <3> HIDE DEF u
    <3>3. \A i \in 1..l + 1 : Before(u, i) = Before(v, i)
      <4>1. \A i \in 1..l + 1 : i # 1 => i - 1 \in 1..l
        BY <3>2
      <4> QED
        BY <3>2, <4>1 DEF Before
    <3>4. \A i \in 1..l + 1 : u[i] \in Entries(Before(u, i))
      <4>1. \A i \in 1..l + 1 : i = l + 1 \/ i \in 1..l
        BY <3>2
      <4>2. \A i \in 1..l : v[i] \in Entries(Before(v, i))
        BY <2>1 DEF IsTrail
      <4>3. u[l + 1] \in Entries(Before(u, l + 1))
        BY <3>2, <3>3
      <4> QED
        BY <3>2, <3>3, <4>1, <4>2, <4>3
    <3>5. IsTrail(u)
      BY <3>2, <3>4 DEF IsTrail
    <3> QED
      BY <3>2, <3>5 DEF u
  <2> QED
    BY <2>1, <2>2
<1>4. Trails = Within(steps, <<>>)[MaxNode + 1]
  BY DEF Trails
<1>5. Encloses(ways, steps, <<>>) /\ <<>> \in D /\ MaxNode + 1 \in Nat
  BY <1>2, <1>3 DEF Encloses, TreeWalkAssumption
<1> HIDE DEF steps, ways, D
<1>6. Within(steps, <<>>)[MaxNode + 1] \subseteq ways
  BY <1>1, <1>5, WithinStays
<1> QED
  BY <1>4, <1>6 DEF ways

\* A walk of a tree fails exactly if it would never end or find nothing; else it comes
\* by each file once for each way to it (GoTar, findFiles).
THEOREM WalksCorrect ==
    ASSUME TreeWalkAssumption PROVE TreeWalkBehavior => []WalksAreRight
<1>1. TreeWalkIInv => WalksAreRight
  <2> SUFFICES ASSUME TreeWalkIInv PROVE WalksAreRight
    OBVIOUS
  <2>1. TreeOK /\ walked \in {"on", "done", "failed"} /\ (walked = "failed" => Bad(0))
    BY DEF TreeWalkIInv, WalkInv
  <2>2. walked = "done" => frames = <<>> /\ FilesOK(frames, files) /\ Complete(frames, files) /\ BadAhead(frames)
    BY DEF TreeWalkIInv, WalkInv
  <2>3. FailsIfEndless
    <3>1. walked = "done" => ~Bad(0)
      BY <2>2 DEF BadAhead
    <3> QED
      BY <2>1, <3>1, BadIs DEF FailsIfEndless
  <2>4. FindsEachWay
    <3>1. SUFFICES ASSUME walked = "done"
                   PROVE  /\ \A i, j \in 1..Len(files) : files[i] = files[j] => i = j
                          /\ \A i \in 1..Len(files) : IsTrail(files[i]) /\ ToFile(files[i])
                          /\ \A w \in Trails : ToFile(w) => w \in ToSet(files)
      BY DEF FindsEachWay
    <3>2. ASSUME NEW w \in Trails, ToFile(w) PROVE w \in ToSet(files)
      <4>1. IsTrail(w) /\ w \in Seq(Node)
        BY <2>1, TrailsAre DEF IsTrail
      <4>2. \E i \in 1..Len(files) : files[i] = w
        BY <2>2, <3>1, <3>2, <4>1 DEF Complete, Ahead
      <4> QED
        BY <2>2, <3>1, <4>2 DEF ToSet, FilesOK
    <3> QED
      BY <2>2, <3>1, <3>2 DEF FilesOK
  <2> QED
    BY <2>3, <2>4 DEF WalksAreRight
<1> QED
  BY <1>1, TreeWalkInductive, PTL
=============================================================================
