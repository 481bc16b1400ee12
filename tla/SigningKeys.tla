----------------------------- MODULE SigningKeys -----------------------------
(***************************************************************************)
(* The signing keys of the auth service: the keys its EDDSAMaker holds in  *)
(* memory, what it keeps of them in Redis, and the copies of the public    *)
(* keys that those who verify its tokens work with, the RemoteValidator of *)
(* the other services and the page guard of the web application.           *)
(*                                                                         *)
(* One auth service runs at a time and may stop at any step.  Every        *)
(* rotation makes a new key pair, but its id is the unix second it starts  *)
(* in: rotations of one second share an id, and the key that comes later   *)
(* takes the place of the earlier one wherever keys are kept by id.        *)
(* Time passes in ticks, long compared to a request and to a second: a     *)
(* tick waits for the rotations and fetches under way.  Of the tokens of a *)
(* key the one that lives longest is remembered.                           *)
(***************************************************************************)
EXTENDS Naturals

CONSTANTS Keys, None,          \* key pairs
          Kids,                \* unix seconds in which rotations start
          Consumers,           \* those who verify: other services, servers of the web application
          KeyTTL,              \* keyTTL
          Margin,              \* a key with less time left signs no more
          TokenTTL,            \* the longest life of a token
          CacheTTL,            \* cacheTTL, JWKS_REFRESH_INTERVAL_MS
          Retention,           \* JWKS_RETENTION_MS
          MaxFaults            \* bound on failing Redis commands

ASSUME KeyAssumption ==
  /\ None \notin Keys /\ None \notin Kids
  /\ KeyTTL \in Nat /\ Margin \in Nat /\ TokenTTL \in Nat /\ Retention \in Nat
  /\ CacheTTL \in Nat \ {0} /\ MaxFaults \in Nat
  /\ TokenTTL <= Margin /\ Margin < KeyTTL /\ CacheTTL <= Retention

VARIABLES
  service,   \* "off", "starting" or "serving"
  currentKid, signing,  \* currentKeyID and privateKey
  known,     \* publicKeys: at most one key for each id
  kid,       \* kid[k]: the id of key k, None while nobody has made it
  second,    \* the second of the last rotation, None once it is past
  rotation,  \* rotation[k]: where the RotateKey that makes key k is
  kids, current, private, public, meta,  \* Redis: all, current_kid, and for each id its key and meta
  left,      \* left[k]: ticks until key k expires
  signed,    \* signed[k]: ticks until the last token of key k expires
  since,     \* history: ticks since key k first signed, up to CacheTTL
  guards,    \* the consumers that are page guards; the others are RemoteValidators
  seen,      \* seen[c][k]: ticks since consumer c saw k, beyond Retention if it has none
  age,       \* age[c]: ticks since c's last fetch, up to CacheTTL
  answer,    \* answer[c]: what the fetch under way brings, or None
  lost,      \* history: keys that a start did not find, or could not read
  faults     \* failed commands so far

maker     == <<service, currentKid, signing, known>>
making    == <<kid, second, rotation>>
store     == <<kids, current, private, public, meta>>
tokens    == <<signed, since>>
consumers == <<guards, seen, age, answer>>
vars      == <<maker, making, store, left, tokens, consumers, lost, faults>>

\* The commands of storeKey's pipeline, and what follows on each.
Commands  == {"sadd", "current", "private", "public", "meta"}
Following == [sadd |-> "current", current |-> "private", private |-> "public",
              public |-> "meta", meta |-> "done"]

NoRotation == [at |-> "idle", past |-> None]
InProgress == {k \in Keys : rotation[k].at \in {"swap", "retire"} \cup Commands}

\* Key k in the place of the key that had its id.
Put(keys, k) == {j \in keys : kid[j] # kid[k]} \cup {k}

Fault == faults < MaxFaults /\ faults' = faults + 1

-----------------------------------------------------------------------------
(* The maker (eddsa_maker.go, eddsa_keystore.go).                          *)

\* An id whose meta and public key are in Redis.
Stored(i) == i \in kids /\ meta[i] # "none" /\ \E k \in public : kid[k] = i

\* Mutant: retired keys are not loaded.
Loads_Active(i) == Stored(i) /\ meta[i] = "active"

Loads(i) == Stored(i)

\* RotateKey makes a key pair and reads the clock: the second is the last
\* rotation's or a later one.
BeginRotation(k) ==
  /\ rotation[k].at = "idle" /\ rotation' = [rotation EXCEPT ![k].at = "swap"]
  /\ \E i \in Kids : /\ i = second \/ \A l \in Keys : kid[l] # i
                     /\ kid' = [kid EXCEPT ![k] = i] /\ second' = i

\* Mutant: the service serves without a key to sign with.
Serves_AnyKey(key) == TRUE

\* A start without a current key, or without its private half, makes one first.
Serves(key) == key # None

\* NewEDDSAMakerWithRedis.  An id that cannot be read is passed over.
Start ==
  /\ service = "off"
  /\ \E skipped \in SUBSET kids, unreadable \in BOOLEAN :
       LET keys   == {k \in public : Loads(kid[k]) /\ kid[k] \notin skipped}
           active == \E k \in keys : kid[k] = current /\ meta[current] = "active"
           halves == {k \in private : active /\ ~unreadable /\ kid[k] = current}
       IN  /\ IF skipped = {} /\ ~unreadable THEN UNCHANGED faults ELSE Fault
           /\ known' = keys
           /\ currentKid' = IF active THEN current ELSE None
           /\ signing' \in IF halves = {} THEN {None} ELSE halves
           /\ lost' = lost \cup {k \in Keys : left[k] # 0 /\ (~Stored(kid[k]) \/ kid[k] \in skipped)}
           /\ IF Serves(signing')
              THEN service' = "serving" /\ UNCHANGED making
              ELSE service' = "starting" /\ \E k \in Keys : BeginRotation(k)
  /\ UNCHANGED <<store, left, tokens, consumers>>

\* The process stops: its memory and what it was doing are gone.
Off == service' = "off" /\ currentKid' = None /\ signing' = None /\ known' = {}

\* A key that no swap has put to use is gone with its rotation.
Stop ==
  /\ service # "off" /\ Off
  /\ rotation' = [k \in Keys |-> IF rotation[k].at \in {"idle", "swap"} THEN NoRotation
                                 ELSE [at |-> "done", past |-> None]]
  /\ kid' = [k \in Keys |-> IF rotation[k].at = "swap" THEN None ELSE kid[k]]
  /\ UNCHANGED <<second, store, left, tokens, consumers, lost, faults>>

MaySign(k) == left[k] > Margin

\* ensureCurrentSigningKey.  The check and the rotation are not one step, so
\* several requests may rotate.
Ensure(k) ==
  /\ service = "serving" /\ ~MaySign(signing) /\ BeginRotation(k)
  /\ UNCHANGED <<maker, store, left, tokens, consumers, lost, faults>>

\* CreateAccessToken, CreateRefreshToken.
Sign ==
  /\ service = "serving" /\ MaySign(signing)
  /\ signed' = [signed EXCEPT ![signing] = TokenTTL]
  /\ UNCHANGED <<maker, making, store, left, since, consumers, lost, faults>>

\* RotateKey, under its lock: the new key signs from here on.
Swap(k) ==
  /\ rotation[k].at = "swap"
  /\ rotation' = [rotation EXCEPT ![k] =
       [at |-> IF currentKid = None THEN "sadd" ELSE "retire", past |-> currentKid]]
  /\ currentKid' = kid[k] /\ signing' = k /\ known' = Put(known, k)
  /\ left' = [left EXCEPT ![k] = KeyTTL]
  /\ UNCHANGED <<service, kid, second, store, tokens, consumers, lost, faults>>

\* retireKey, whose error is ignored.
Retire(k) ==
  LET past == rotation[k].past
  IN  /\ rotation[k].at = "retire"
      /\ rotation' = [rotation EXCEPT ![k] = [at |-> "sadd", past |-> None]]
      /\ \/ /\ meta' = IF meta[past] = "none" THEN meta ELSE [meta EXCEPT ![past] = "retired"]
            /\ UNCHANGED faults
         \/ Fault /\ UNCHANGED meta
      /\ UNCHANGED <<maker, kid, second, kids, current, private, public, left, tokens,
                     consumers, lost>>

\* The next command of storeKey's pipeline; the meta's HSET and EXPIRE are one,
\* for an id without its public key is passed over, whatever its meta.
Command(k) ==
  LET at == rotation[k].at
  IN  /\ kids'    = IF at = "sadd" THEN kids \cup {kid[k]} ELSE kids
      /\ current' = IF at = "current" THEN kid[k] ELSE current
      /\ private' = IF at = "private" THEN Put(private, k) ELSE private
      /\ public'  = IF at = "public" THEN Put(public, k) ELSE public
      /\ meta'    = IF at = "meta" THEN [meta EXCEPT ![kid[k]] = "active"] ELSE meta

Store(k) ==
  /\ rotation[k].at \in Commands /\ Command(k)
  /\ rotation' = [rotation EXCEPT ![k].at = Following[@]]
  /\ service' = IF rotation[k].at = "meta" THEN "serving" ELSE service
  /\ UNCHANGED <<currentKid, signing, known, kid, second, left, tokens, consumers, lost, faults>>

\* The command that fails may have run.  The request that rotated is refused,
\* the next ones sign with the new key; a service that was starting ends.
StoreFails(k) ==
  /\ rotation[k].at \in Commands /\ Fault /\ (Command(k) \/ UNCHANGED store)
  /\ IF service = "starting" THEN Off ELSE UNCHANGED maker
  /\ rotation' = [rotation EXCEPT ![k].at = "done"]
  /\ UNCHANGED <<kid, second, left, tokens, consumers, lost>>

-----------------------------------------------------------------------------
(* Those who verify (validator.go, server-jwt.ts).                         *)

\* Mutant: only the key that signs is published.
Published_Current == {signing}

\* ExportPublicKeys, getValidPublicKey.
Published == {k \in known : left[k] > 0}

Cached(c, k) == seen[c][k] <= Retention

\* The keys of the second in which key k was made.
SameId(k) == {j \in Keys : kid[j] = kid[k]}

\* A token of key k comes to c.  A validator fetches when its keys are old, a
\* guard also when it has none of that id; if that fails, both go on with
\* what they have.
Fetch(c, k) ==
  /\ answer[c] = None /\ service = "serving"
  /\ age[c] = CacheTTL \/ (c \in guards /\ \A j \in SameId(k) : ~Cached(c, j))
  /\ answer' = [answer EXCEPT ![c] = Published]
  /\ UNCHANGED <<maker, making, store, left, tokens, guards, seen, age, lost, faults>>

\* A validator replaces its keys; a guard keeps those whose ids it got no key of.
Merged(c, keys) == [k \in Keys |->
  CASE k \in keys -> 0
    [] k \notin keys /\ c \in guards /\ SameId(k) \cap keys = {} -> seen[c][k]
    [] OTHER -> Retention + 1]

Fetched(c) ==
  /\ answer[c] # None
  /\ IF answer[c] = {} /\ c \notin guards THEN UNCHANGED <<seen, age>>
     ELSE /\ seen' = [seen EXCEPT ![c] = Merged(c, answer[c])]
          /\ age' = [age EXCEPT ![c] = 0]
  /\ answer' = [answer EXCEPT ![c] = None]
  /\ UNCHANGED <<maker, making, store, left, tokens, guards, lost, faults>>

FetchFails(c) ==
  /\ answer[c] # None /\ answer' = [answer EXCEPT ![c] = None]
  /\ UNCHANGED <<maker, making, store, left, tokens, guards, seen, age, lost, faults>>

-----------------------------------------------------------------------------
Less(n) == IF n = 0 THEN 0 ELSE n - 1
UpTo(n, max) == IF n < max THEN n + 1 ELSE max

\* The second passes, keys and tokens grow older, Redis drops what expires, guards forget.
Tick ==
  /\ InProgress = {} /\ \A c \in Consumers : answer[c] = None
  /\ left' = [k \in Keys |-> Less(left[k])]
  /\ signed' = [k \in Keys |-> Less(signed[k])]
  /\ since' = [k \in Keys |-> IF signed[k] > 0 \/ since[k] > 0 THEN UpTo(since[k], CacheTTL) ELSE 0]
  /\ second' = None
  /\ private' = {k \in private : left[k] > 1} /\ public' = {k \in public : left[k] > 1}
  /\ meta' = [i \in Kids |-> IF \E k \in Keys : kid[k] = i /\ left[k] > 1 THEN meta[i] ELSE "none"]
  /\ age' = [c \in Consumers |-> UpTo(age[c], CacheTTL)]
  /\ seen' = [c \in Consumers |-> IF c \notin guards THEN seen[c]
                                  ELSE [k \in Keys |-> UpTo(seen[c][k], Retention + 1)]]
  /\ UNCHANGED <<maker, kid, rotation, kids, current, guards, answer, lost, faults>>

Init ==
  /\ service = "off" /\ currentKid = None /\ signing = None /\ known = {}
  /\ kid = [k \in Keys |-> None] /\ second = None
  /\ rotation = [k \in Keys |-> NoRotation]
  /\ kids = {} /\ current = None /\ private = {} /\ public = {}
  /\ meta = [i \in Kids |-> "none"]
  /\ left = [k \in Keys |-> 0] /\ signed = [k \in Keys |-> 0] /\ since = [k \in Keys |-> 0]
  /\ guards \in SUBSET Consumers
  /\ seen = [c \in Consumers |-> [k \in Keys |-> Retention + 1]]
  /\ age = [c \in Consumers |-> CacheTTL] /\ answer = [c \in Consumers |-> None]
  /\ lost = {} /\ faults = 0

Next ==
  \/ Start \/ Stop \/ Sign \/ Tick
  \/ \E k \in Keys : Ensure(k) \/ Swap(k) \/ Retire(k) \/ Store(k) \/ StoreFails(k)
  \/ \E c \in Consumers : Fetched(c) \/ FetchFails(c) \/ \E k \in Keys : Fetch(c, k)

Spec == Init /\ [][Next]_vars

-----------------------------------------------------------------------------
(* Properties.                                                             *)

\* Types; a service that serves has a key to sign with.
TypeOK ==
  /\ service \in {"off", "starting", "serving"} /\ currentKid \in Kids \cup {None}
  /\ signing \in Keys \cup {None} /\ (service = "serving" => signing # None)
  /\ known \subseteq Keys
  /\ kid \in [Keys -> Kids \cup {None}] /\ second \in Kids \cup {None}
  /\ rotation \in [Keys -> [at : {"idle", "swap", "retire", "done"} \cup Commands,
                            past : Kids \cup {None}]]
  /\ kids \subseteq Kids /\ current \in Kids \cup {None}
  /\ private \subseteq Keys /\ public \subseteq Keys
  /\ meta \in [Kids -> {"none", "active", "retired"}]
  /\ left \in [Keys -> 0..KeyTTL] /\ signed \in [Keys -> 0..TokenTTL]
  /\ since \in [Keys -> 0..CacheTTL]
  /\ guards \subseteq Consumers /\ seen \in [Consumers -> [Keys -> 0..(Retention + 1)]]
  /\ age \in [Consumers -> 0..CacheTTL]
  /\ answer \in [Consumers -> (SUBSET Keys) \cup {None}]
  /\ lost \subseteq Keys /\ faults \in 0..MaxFaults

\* Another rotation of the same second made a key j with the id of key k.
Twins(k, j) == j # k /\ kid[j] = kid[k]

\* While it serves, the auth service verifies every token it signed until the
\* token expires, across rotations and restarts, but for two kinds of keys.  One is a
\* key that a start did not find in Redis, because it was not stored or not
\* read.  The other is a key whose id a rotation of the same second took over,
\* in memory or in Redis: its tokens are then checked against that one's
\* key, which has not expired either (eddsa_maker.go:59-86, 297-331, 378-396).
SignerVerifies == service = "serving" =>
  \A k \in Keys \ lost : signed[k] > 0 =>
    k \in Published \/ \E j \in Published : Twins(k, j)

\* Whoever fetched keys less than a cache period ago knows every key that has
\* been signing for a cache period and has a token alive, or the key that took
\* over its id, whatever was rotated, restarted or not reached since
\* (validator.go:85-104, server-jwt.ts:83-140).
ConsumersKnow ==
  \A c \in Consumers, k \in Keys \ lost :
    (age[c] < CacheTTL /\ since[k] = CacheTTL /\ signed[k] > 0) =>
      Cached(c, k) \/ \E j \in Keys : Twins(k, j) /\ Cached(c, j)

-----------------------------------------------------------------------------
(* The inductive invariant.                                                *)

\* The keys that were put to use.
Made == {k \in Keys : rotation[k].at \notin {"idle", "swap"}}

\* No rotation outlives its process, and a service that starts makes one key;
\* from the swap on, there is a key that signs.
RotationInv ==
  /\ service = "off" => InProgress = {}
  /\ service = "starting" => \A k, l \in InProgress : k = l
  /\ (\E k \in Keys : rotation[k].at \in {"retire"} \cup Commands) => signing # None
  /\ \A k \in Keys : rotation[k].at = "idle" <=> kid[k] = None

\* Only keys that were put to use are kept anywhere.
MadeInv ==
  /\ known \subseteq Made /\ private \subseteq Made /\ public \subseteq Made
  /\ signing # None => signing \in Made
  /\ \A c \in Consumers : /\ answer[c] # None => answer[c] \subseteq Made
                         /\ \A k \in Keys : Cached(c, k) => k \in Made

\* Keys of one id were made between the same two ticks, so they expire together.
TwinInv == \A k \in Made, j \in Keys : kid[j] = kid[k] =>
  /\ j \in Made => left[j] = left[k]
  /\ j \notin Made => left[k] = KeyTTL
SecondInv == \A k \in Made : kid[k] = second => left[k] = KeyTTL

\* A key has signed nothing before its swap, and outlives what it signed.
SignedInv == \A k \in Keys :
  /\ k \notin Made => left[k] = 0 /\ since[k] = 0
  /\ signed[k] <= left[k]

\* A process that runs holds a key for the id of every key that can have tokens alive.
KnownInv == service # "off" =>
  \A k \in Keys \ lost : left[k] > 0 => known \cap SameId(k) # {}

\* A fetch brings a key for every id that had signed before the last tick.
AnswerInv == \A c \in Consumers : answer[c] # None =>
  \A k \in Keys \ lost : left[k] > 0 /\ since[k] > 0 => answer[c] \cap SameId(k) # {}

\* A consumer has seen a key for every id that signed before its last fetch, then or since.
SeenInv == \A c \in Consumers, k \in Keys \ lost :
  left[k] > 0 /\ since[k] > age[c] => \E j \in SameId(k) : seen[c][j] <= age[c]

IInv == /\ TypeOK /\ RotationInv /\ MadeInv /\ TwinInv /\ SecondInv
        /\ SignedInv /\ KnownInv /\ AnswerInv /\ SeenInv
=============================================================================
