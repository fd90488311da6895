------------------------------ MODULE ApiKeys -------------------------------
(***************************************************************************)
(* ApiKeyService over PrismaApiKeyStorage (src/src/core/auth/api-keys):     *)
(* verifyKey() looks a key up, compares its hash and stamps the row, each   *)
(* across an await, while rotateKey() and revoke() change or delete the row *)
(* and its expiry passes.  A key is shown as a lookup id and a secret part; *)
(* lookup ids are unique, so one is the number of its issue, and the secret *)
(* part is the one issued with it or a forged one.                          *)
(***************************************************************************)
EXTENDS Integers

CONSTANTS
  Keys,        \* API key rows
  Verifiers,   \* requests that present a key
  KeyOf,       \* the key a request presents
  MaxSecret    \* bound: secrets issued per key

ASSUME KeyAssumption ==
  /\ KeyOf \in [Verifiers -> Keys]
  /\ MaxSecret \in Nat

VARIABLES
  secret,     \* the secret a row holds
  live,       \* keys whose row exists
  expired,    \* keys past their expiresAt
  issued,     \* secrets generated so far per key
  rotating,   \* rotateKey() calls that are hashing their new secret
  verify,     \* how far a verification is
  shown,      \* the lookup id a request presents, as its issue
  forged,     \* requests whose secret part is not the one issued with it
  overtaken   \* history: the key was rotated or expired under a verification

keyVars ==
  <<secret, live, expired, issued, rotating, verify, shown, forged, overtaken>>

\* Type invariant of the keys and the requests that present them.
KeyTypeOK ==
  /\ secret \in [Keys -> 0..MaxSecret]
  /\ live \subseteq Keys
  /\ expired \subseteq Keys
  /\ issued \in [Keys -> 0..MaxSecret]
  /\ rotating \subseteq [key: Keys, new: 0..MaxSecret]
  /\ verify \in [Verifiers -> {"out", "hash", "stamp", "in", "refused"}]
  /\ shown \in [Verifiers -> 0..MaxSecret]
  /\ forged \subseteq Verifiers
  /\ overtaken \in [Verifiers -> BOOLEAN]

KeyInit ==
  /\ secret = [k \in Keys |-> 0]
  /\ live = Keys
  /\ expired = {}
  /\ issued = [k \in Keys |-> 0]
  /\ rotating = {}
  /\ verify = [v \in Verifiers |-> "out"]
  /\ shown = [v \in Verifiers |-> 0]
  /\ forged = {}
  /\ overtaken = [v \in Verifiers |-> FALSE]

-----------------------------------------------------------------------------
Goto(v, phase) == verify' = [verify EXCEPT ![v] = phase]

\* findByLookupId() and the expiry check of verifyKey().
Usable(k, n) == k \in live /\ secret[k] = n /\ k \notin expired

Find(v) ==
  /\ verify[v] = "out"
  /\ \E n \in 0..issued[KeyOf[v]] :
       /\ shown' = [shown EXCEPT ![v] = n]
       /\ Goto(v, IF Usable(KeyOf[v], n) THEN "hash" ELSE "refused")
  /\ forged' \in {forged \ {v}, forged \cup {v}}
  /\ overtaken' = [overtaken EXCEPT ![v] = FALSE]
  /\ UNCHANGED <<secret, live, expired, issued, rotating>>

\* argon2Verify() against the copy of the row: the lookup id matched, so the
\* secret part issued with it passes and any other one is refused.
Hash(v) ==
  /\ verify[v] = "hash"
  /\ Goto(v, IF v \in forged THEN "refused" ELSE "stamp")
  /\ UNCHANGED <<secret, live, expired, issued, rotating, shown, forged, overtaken>>

\* Variant of Stamp: a row that is gone is no error.
StampLoose(v) ==
  /\ verify[v] = "stamp"
  /\ Goto(v, "in")
  /\ UNCHANGED <<secret, live, expired, issued, rotating, shown, forged, overtaken>>

\* updateLastUsed() goes by the row's id and fails if the row is gone.
Stamp(v) ==
  /\ verify[v] = "stamp"
  /\ Goto(v, IF KeyOf[v] \in live THEN "in" ELSE "refused")
  /\ UNCHANGED <<secret, live, expired, issued, rotating, shown, forged, overtaken>>

\* The request is over; the next one may present another secret.
Leave(v) ==
  /\ verify[v] \in {"in", "refused"}
  /\ Goto(v, "out")
  /\ shown' = [shown EXCEPT ![v] = 0]
  /\ forged' = forged \ {v}
  /\ overtaken' = [overtaken EXCEPT ![v] = FALSE]
  /\ UNCHANGED <<secret, live, expired, issued, rotating>>

Overtake(k) ==
  overtaken' = [v \in Verifiers |->
                  \/ overtaken[v]
                  \/ KeyOf[v] = k /\ verify[v] \in {"hash", "stamp"}]

\* rotateKey() found the row and generates a secret.
StartRotation(k) ==
  /\ k \in live
  /\ issued[k] < MaxSecret
  /\ issued' = [issued EXCEPT ![k] = @ + 1]
  /\ rotating' = rotating \cup {[key |-> k, new |-> issued[k] + 1]}
  /\ UNCHANGED <<secret, live, expired, verify, shown, forged, overtaken>>

\* ... and replaces lookupId and hash in place, if the row is still there.
Rotate(x) ==
  /\ x \in rotating
  /\ rotating' = rotating \ {x}
  /\ IF x.key \in live
     THEN /\ secret' = [secret EXCEPT ![x.key] = x.new]
          /\ Overtake(x.key)
     ELSE UNCHANGED <<secret, overtaken>>
  /\ UNCHANGED <<live, expired, issued, verify, shown, forged>>

Revoke(k) ==
  /\ k \in live
  /\ live' = live \ {k}
  /\ UNCHANGED <<secret, expired, issued, rotating, verify, shown, forged, overtaken>>

KeyExpires(k) ==
  /\ k \in live \ expired
  /\ expired' = expired \cup {k}
  /\ Overtake(k)
  /\ UNCHANGED <<secret, live, issued, rotating, verify, shown, forged>>

ManageKeys ==
  \/ \E k \in Keys : StartRotation(k) \/ Revoke(k) \/ KeyExpires(k)
  \/ \E x \in rotating : Rotate(x)

\* A request with an API key, from the middleware to its end.
VerifyKey(v) == Find(v) \/ Hash(v) \/ Stamp(v) \/ Leave(v)

KeyNext == ManageKeys \/ \E v \in Verifiers : VerifyKey(v)

KeySpec == KeyInit /\ [][KeyNext]_keyVars

-----------------------------------------------------------------------------
(***************************************************************************)
(* verifyKey() answers with a user only while the row exists, so a revoked  *)
(* key is refused even by a verification that had found it; never for a     *)
(* secret part other than the one issued with the lookup id; and the key it *)
(* accepts is the row's current, unexpired one unless a rotation or the     *)
(* expiry fell between findByLookupId() and updateLastUsed().               *)
(***************************************************************************)
AcceptedKeyIsValid ==
  [][\A v \in Verifiers :
       verify[v] # "in" /\ verify'[v] = "in" =>
         /\ KeyOf[v] \in live
         /\ v \notin forged
         /\ overtaken[v] \/ Usable(KeyOf[v], shown[v])]_keyVars
=============================================================================
