--------------------------- MODULE SigningKeysProofs ---------------------------
(***************************************************************************)
(* The safety properties of SigningKeys for any number of keys, validators *)
(* and page guards, any lifetimes and any number of failing commands.      *)
(*                                                                         *)
(* The maker and its rotations come first (MakerStep), then which keys are *)
(* in use and which of them share an id (MadeStep, TwinStep), their ages   *)
(* (SignedStep, KnownStep), and what others know of them (AnswerStep,      *)
(* SeenStep).                                                              *)
(***************************************************************************)
EXTENDS SigningKeys, TLAPS

USE KeyAssumption DEF KeyAssumption

Places == {"idle", "swap", "retire", "done"} \cup Commands
Rotations == [at : Places, past : Kids \cup {None}]

-----------------------------------------------------------------------------
(* Helpers.                                                                *)

\* Counting down and up stays within the bounds.
LEMMA Counting ==
  /\ \A max \in Nat : \A n \in 0..max : Less(n) \in 0..max /\ UpTo(n, max) \in 0..max
  /\ \A n \in Nat : Less(n) <= n /\ (n > 0 => Less(n) = n - 1) /\ (n = 0 => Less(n) = 0)
  /\ \A max \in Nat : \A n \in 0..max : UpTo(n, max) = (IF n < max THEN n + 1 ELSE max)
  BY DEF Less, UpTo

\* A place of a rotation may be set.
LEMMA PlaceTypes ==
  ASSUME rotation \in [Keys -> Rotations], NEW k \in Keys, NEW p \in Places
  PROVE  /\ [rotation EXCEPT ![k].at = p] \in [Keys -> Rotations]
         /\ [rotation EXCEPT ![k].at = p][k].at = p
         /\ \A l \in Keys \ {k} : [rotation EXCEPT ![k].at = p][l] = rotation[l]
  <1>1. rotation[k] \in Rotations
    OBVIOUS
  <1>2. /\ [rotation[k] EXCEPT !.at = p] \in Rotations
        /\ [rotation[k] EXCEPT !.at = p].at = p
    BY <1>1 DEF Rotations
  <1> QED
    BY <1>2

\* TypeOK in the names of this module.
LEMMA RotationTypes == TypeOK => rotation \in [Keys -> Rotations]
  BY DEF TypeOK, Rotations, Places

\* A new rotation gets an id, the last one's or one that no key has.
LEMMA BeginFacts ==
  ASSUME TypeOK, NEW k \in Keys, BeginRotation(k)
  PROVE  /\ rotation[k].at = "idle"
         /\ rotation' \in [Keys -> Rotations] /\ rotation'[k].at = "swap"
         /\ \A l \in Keys \ {k} : rotation'[l] = rotation[l] /\ kid'[l] = kid[l]
         /\ kid' \in [Keys -> Kids \cup {None}] /\ kid'[k] \in Kids /\ second' = kid'[k]
         /\ kid'[k] = second \/ \A l \in Keys : kid[l] # kid'[k]
  <1>1. /\ rotation[k].at = "idle" /\ rotation' = [rotation EXCEPT ![k].at = "swap"]
        /\ kid \in [Keys -> Kids \cup {None}]
    BY DEF BeginRotation, TypeOK
  <1>2. /\ rotation' \in [Keys -> Rotations] /\ rotation'[k].at = "swap"
        /\ \A l \in Keys \ {k} : rotation'[l] = rotation[l]
    BY <1>1, PlaceTypes, RotationTypes DEF Places
  <1>3. PICK i \in Kids : /\ i = second \/ \A l \in Keys : kid[l] # i
                          /\ kid' = [kid EXCEPT ![k] = i] /\ second' = i
    BY DEF BeginRotation
  <1> QED
    BY <1>1, <1>2, <1>3

\* A stop ends every rotation; a key that was not put to use is as if never made.
LEMMA StopFacts ==
  ASSUME TypeOK, Stop
  PROVE  /\ rotation' \in [Keys -> Rotations] /\ kid' \in [Keys -> Kids \cup {None}]
         /\ \A k \in Keys :
              /\ rotation[k].at \in {"idle", "swap"} => rotation'[k].at = "idle"
              /\ rotation[k].at \notin {"idle", "swap"} => rotation'[k].at = "done"
              /\ kid'[k] = IF rotation[k].at = "swap" THEN None ELSE kid[k]
  <1>1. /\ rotation' = [k \in Keys |-> IF rotation[k].at \in {"idle", "swap"} THEN NoRotation
                                       ELSE [at |-> "done", past |-> None]]
        /\ kid' = [k \in Keys |-> IF rotation[k].at = "swap" THEN None ELSE kid[k]]
        /\ kid \in [Keys -> Kids \cup {None}]
    BY DEF Stop, TypeOK
  <1>2. NoRotation \in Rotations /\ NoRotation.at = "idle"
    BY DEF NoRotation, Rotations, Places
  <1>3. [at |-> "done", past |-> None] \in Rotations
    BY DEF Rotations, Places
  <1> HIDE DEF NoRotation
  <1> QED
    BY <1>1, <1>2, <1>3

\* A swap puts its key to use and to memory.
LEMMA SwapFacts ==
  ASSUME TypeOK, NEW k \in Keys, Swap(k)
  PROVE  /\ rotation[k].at = "swap" /\ signing' = k /\ currentKid' = kid[k]
         /\ known' = Put(known, k) /\ UNCHANGED <<service, kid, second>>
         /\ rotation' \in [Keys -> Rotations] /\ rotation'[k].at \in {"retire", "sadd"}
         /\ \A l \in Keys \ {k} : rotation'[l] = rotation[l]
         /\ left' \in [Keys -> 0..KeyTTL] /\ left'[k] = KeyTTL
         /\ \A l \in Keys \ {k} : left'[l] = left[l]
  <1> DEFINE r == [at |-> IF currentKid = None THEN "sadd" ELSE "retire", past |-> currentKid]
  <1>1. r \in Rotations /\ r.at \in {"retire", "sadd"}
    BY DEF TypeOK, Rotations, Places, Commands
  <1>2. /\ rotation' = [rotation EXCEPT ![k] = r] /\ left' = [left EXCEPT ![k] = KeyTTL]
        /\ rotation \in [Keys -> Rotations] /\ left \in [Keys -> 0..KeyTTL]
    BY RotationTypes DEF Swap, TypeOK
  <1> HIDE DEF r
  <1>3. /\ rotation' \in [Keys -> Rotations] /\ rotation'[k].at \in {"retire", "sadd"}
        /\ \A l \in Keys \ {k} : rotation'[l] = rotation[l]
    BY <1>1, <1>2
  <1> QED
    BY <1>2, <1>3 DEF Swap

\* A rotation that retires or stores goes on, or ends.
LEMMA StoringFacts ==
  ASSUME TypeOK, NEW k \in Keys, Retire(k) \/ Store(k) \/ StoreFails(k)
  PROVE  /\ rotation[k].at \in {"retire"} \cup Commands
         /\ rotation' \in [Keys -> Rotations] /\ rotation'[k].at \in Commands \cup {"done"}
         /\ \A l \in Keys \ {k} : rotation'[l] = rotation[l]
         /\ UNCHANGED <<kid, second, left>>
  <1>1. rotation[k] \in Rotations /\ rotation \in [Keys -> Rotations]
    BY RotationTypes
  <1>2. CASE Retire(k)
    <2>1. [at |-> "sadd", past |-> None] \in Rotations
      BY DEF Rotations, Places, Commands
    <2>2. /\ rotation' \in [Keys -> Rotations] /\ rotation'[k].at = "sadd"
          /\ \A l \in Keys \ {k} : rotation'[l] = rotation[l]
      BY <1>1, <1>2, <2>1 DEF Retire
    <2> QED
      BY <1>2, <2>2 DEF Retire, maker, Commands
  <1>3. ASSUME NEW p \in Commands \cup {"done"}, rotation' = [rotation EXCEPT ![k].at = p]
        PROVE  /\ rotation' \in [Keys -> Rotations] /\ rotation'[k].at = p
               /\ \A l \in Keys \ {k} : rotation'[l] = rotation[l]
    BY <1>1, <1>3, PlaceTypes DEF Places
  <1>4. CASE Store(k)
    <2>1. /\ rotation[k].at \in Commands /\ UNCHANGED <<kid, second, left>>
          /\ rotation' = [rotation EXCEPT ![k].at = Following[@]]
      BY <1>4 DEF Store, tokens
    <2>2. Following[rotation[k].at] \in Commands \cup {"done"}
      BY <2>1 DEF Following, Commands
    <2>3. rotation' = [rotation EXCEPT ![k].at = Following[rotation[k].at]]
      BY <1>1, <2>1
    <2> QED
      BY <1>3, <1>4, <2>1, <2>2, <2>3 DEF Store
  <1>5. CASE StoreFails(k)
    <2>1. /\ rotation[k].at \in Commands /\ UNCHANGED <<kid, second, left>>
          /\ rotation' = [rotation EXCEPT ![k].at = "done"]
          /\ service' \in {"off", service}
      BY <1>5 DEF StoreFails, Off, maker
    <2> QED
      BY <1>3, <2>1
  <1> QED
    BY <1>2, <1>4, <1>5

-----------------------------------------------------------------------------
(* Types, and where rotations are.                                         *)

\* Rotations, their ids and the maker's own fields, after each step.
LEMMA MakerStep ==
  ASSUME TypeOK, RotationInv, Next
  PROVE  /\ service' \in {"off", "starting", "serving"} /\ currentKid' \in Kids \cup {None}
         /\ signing' \in Keys \cup {None} /\ (service' = "serving" => signing' # None)
         /\ known' \subseteq Keys
         /\ kid' \in [Keys -> Kids \cup {None}] /\ second' \in Kids \cup {None}
         /\ rotation' \in [Keys -> Rotations]
         /\ RotationInv'
  <1> DEFINE Goal == /\ service' \in {"off", "starting", "serving"} /\ currentKid' \in Kids \cup {None}
                     /\ signing' \in Keys \cup {None} /\ (service' = "serving" => signing' # None)
                     /\ known' \subseteq Keys
                     /\ kid' \in [Keys -> Kids \cup {None}] /\ second' \in Kids \cup {None}
                     /\ rotation' \in [Keys -> Rotations]
                     /\ RotationInv'
  <1>1. /\ service \in {"off", "starting", "serving"} /\ currentKid \in Kids \cup {None}
        /\ signing \in Keys \cup {None} /\ (service = "serving" => signing # None)
        /\ known \subseteq Keys
        /\ kid \in [Keys -> Kids \cup {None}] /\ second \in Kids \cup {None}
        /\ rotation \in [Keys -> Rotations]
    BY RotationTypes DEF TypeOK
  <1>2. CASE Start
    <2>1. PICK skipped \in SUBSET kids, unreadable \in BOOLEAN :
            /\ known' = {k \in public : Loads(kid[k]) /\ kid[k] \notin skipped}
            /\ currentKid' \in {current, None}
            /\ signing' \in private \cup {None}
            /\ IF Serves(signing') THEN service' = "serving" /\ UNCHANGED making
               ELSE service' = "starting" /\ \E k \in Keys : BeginRotation(k)
      BY <1>2 DEF Start
    <2>2. InProgress = {}
      BY <1>2 DEF Start, RotationInv
    <2>3. /\ known' \subseteq Keys /\ currentKid' \in Kids \cup {None}
          /\ signing' \in Keys \cup {None}
      BY <2>1 DEF TypeOK
    <2>4. CASE service' = "serving" /\ UNCHANGED making /\ Serves(signing')
      <3>1. UNCHANGED <<kid, second, rotation>> /\ signing' # None
        BY <2>4 DEF making, Serves
      <3> QED
        BY <1>1, <2>3, <2>4, <3>1 DEF RotationInv
    <2>5. ASSUME service' = "starting", NEW k \in Keys, BeginRotation(k)
          PROVE  Goal
      <3>1. \A l \in Keys \ {k} : rotation'[l].at \notin {"swap", "retire"} \cup Commands
        BY <2>2, <2>5, BeginFacts DEF InProgress
      <3>2. InProgress' \subseteq {k}
        BY <3>1 DEF InProgress
      <3>3. \A l \in Keys : rotation'[l].at \notin {"retire"} \cup Commands
        BY <2>5, <3>1, BeginFacts DEF Commands
      <3>4. \A l \in Keys : rotation'[l].at = "idle" <=> kid'[l] = None
        BY <2>5, BeginFacts DEF RotationInv
      <3> QED
        BY <2>3, <2>5, <3>2, <3>3, <3>4, BeginFacts DEF RotationInv
    <2> QED
      BY <2>1, <2>4, <2>5
  <1>3. CASE Stop
    <2>1. /\ service' = "off" /\ signing' = None /\ known' = {} /\ currentKid' = None
          /\ UNCHANGED second
      BY <1>3 DEF Stop, Off
    <2>2. \A k \in Keys : rotation'[k].at \in {"idle", "done"}
      BY <1>3, StopFacts
    <2>3. \A k \in Keys : rotation'[k].at = "idle" <=> kid'[k] = None
      BY <1>1, <1>3, StopFacts DEF RotationInv
    <2> QED
      BY <1>1, <1>3, <2>1, <2>2, <2>3, StopFacts DEF RotationInv, InProgress, Commands
  <1>4. CASE \/ Sign \/ Tick
             \/ \E c \in Consumers : Fetched(c) \/ FetchFails(c) \/ \E k \in Keys : Fetch(c, k)
    <2>1. /\ UNCHANGED <<service, currentKid, signing, known, kid, rotation>>
          /\ second' \in {second, None}
      BY <1>4 DEF Sign, Tick, Fetched, FetchFails, Fetch, maker, making
    <2> QED
      BY <1>1, <2>1 DEF RotationInv, InProgress
  <1>5. ASSUME NEW k \in Keys, Ensure(k) PROVE Goal
    <2>1. UNCHANGED <<service, currentKid, signing, known>> /\ service = "serving" /\ BeginRotation(k)
      BY <1>5 DEF Ensure, maker
    <2>2. \A l \in Keys : rotation'[l].at = "idle" <=> kid'[l] = None
      BY <2>1, BeginFacts DEF RotationInv
    <2> QED
      BY <1>1, <2>1, <2>2, BeginFacts DEF RotationInv
  <1>6. ASSUME NEW k \in Keys, Swap(k) PROVE Goal
    <2>1. Put(known, k) \subseteq Keys /\ kid[k] \in Kids \cup {None}
      BY <1>1 DEF Put
    <2>2. k \in InProgress /\ InProgress' \subseteq InProgress
      BY <1>6, SwapFacts DEF InProgress
    <2>3. \A l \in Keys : rotation'[l].at = "idle" <=> kid'[l] = None
      BY <1>6, SwapFacts DEF RotationInv, Commands
    <2> QED
      BY <1>1, <1>6, <2>1, <2>2, <2>3, SwapFacts DEF RotationInv
  <1>7. ASSUME NEW k \in Keys, Retire(k) \/ Store(k) \/ StoreFails(k) PROVE Goal
    <2>1. /\ k \in InProgress /\ signing # None
          /\ InProgress' \subseteq InProgress
          /\ rotation'[k].at \notin Commands => InProgress' = InProgress \ {k}
          /\ rotation'[k].at # "idle" /\ rotation[k].at # "idle"
      BY <1>7, StoringFacts DEF InProgress, RotationInv, Commands
    <2>2. \A l \in Keys : rotation'[l].at = "idle" <=> kid'[l] = None
      BY <1>7, <2>1, StoringFacts DEF RotationInv
    <2>3. \A l \in Keys : rotation'[l].at \in {"retire"} \cup Commands => l \in InProgress'
      BY DEF InProgress
    <2>4. CASE UNCHANGED <<currentKid, signing, known>> /\ service' \in {"serving", service}
      BY <1>1, <1>7, <2>1, <2>2, <2>4, StoringFacts DEF RotationInv
    <2>5. CASE Off /\ service = "starting" /\ rotation'[k].at = "done"
      <3>1. InProgress' = {}
        BY <2>1, <2>5 DEF RotationInv, Commands
      <3> QED
        BY <1>1, <1>7, <2>2, <2>3, <2>5, <3>1, StoringFacts DEF RotationInv, Off
    <2>6. CASE StoreFails(k)
      <3>1. rotation'[k].at = "done"
        BY <1>1, <2>6, PlaceTypes DEF StoreFails, Places
      <3> QED
        BY <2>4, <2>5, <2>6, <3>1 DEF StoreFails, maker
    <2>7. CASE Retire(k) \/ Store(k)
      BY <2>4, <2>7 DEF Retire, Store, maker
    <2> QED
      BY <1>7, <2>6, <2>7
  <1> QED
    BY <1>2, <1>3, <1>4, <1>5, <1>6, <1>7 DEF Next

\* One command of storeKey.
LEMMA CommandTypes ==
  ASSUME TypeOK, NEW k \in Keys, kid[k] # None, Command(k) \/ UNCHANGED store
  PROVE  /\ kids' \subseteq Kids /\ current' \in Kids \cup {None}
         /\ private' \subseteq private \cup {k} /\ public' \subseteq public \cup {k}
         /\ meta' \in [Kids -> {"none", "active", "retired"}]
  BY DEF TypeOK, Command, Put, store

\* Redis, the ages and the history keep their types.
LEMMA StoreStep ==
  ASSUME TypeOK, RotationInv, Next
  PROVE  /\ kids' \subseteq Kids /\ current' \in Kids \cup {None}
         /\ private' \subseteq Keys /\ public' \subseteq Keys
         /\ meta' \in [Kids -> {"none", "active", "retired"}]
         /\ left' \in [Keys -> 0..KeyTTL] /\ signed' \in [Keys -> 0..TokenTTL]
         /\ since' \in [Keys -> 0..CacheTTL]
         /\ lost' \subseteq Keys /\ faults' \in 0..MaxFaults
  <1>1. /\ kids \subseteq Kids /\ current \in Kids \cup {None}
        /\ private \subseteq Keys /\ public \subseteq Keys
        /\ meta \in [Kids -> {"none", "active", "retired"}]
        /\ left \in [Keys -> 0..KeyTTL] /\ signed \in [Keys -> 0..TokenTTL]
        /\ since \in [Keys -> 0..CacheTTL]
        /\ lost \subseteq Keys /\ faults \in 0..MaxFaults
    BY DEF TypeOK
  <1>2. CASE Start
    BY <1>1, <1>2 DEF Start, Fault, store, tokens
  <1>3. CASE Stop
    BY <1>1, <1>3 DEF Stop, store, tokens
  <1>4. CASE Sign
    <2>1. signed' = [signed EXCEPT ![signing] = TokenTTL]
      BY <1>4 DEF Sign
    <2>2. TokenTTL \in 0..TokenTTL /\ signed \in [Keys -> 0..TokenTTL]
      BY <1>1
    <2>3. signed' \in [Keys -> 0..TokenTTL]
      BY ONLY <2>1, <2>2
    <2> QED
      BY <1>1, <1>4, <2>3 DEF Sign, store
  <1>5. CASE Tick
    <2>1. ASSUME NEW k \in Keys
          PROVE  /\ Less(left[k]) \in 0..KeyTTL /\ Less(signed[k]) \in 0..TokenTTL
                 /\ UpTo(since[k], CacheTTL) \in 0..CacheTTL /\ 0 \in 0..CacheTTL
      BY <1>1, Counting
    <2>2. left' \in [Keys -> 0..KeyTTL] /\ signed' \in [Keys -> 0..TokenTTL]
      BY <1>5, <2>1 DEF Tick
    <2>3. since' \in [Keys -> 0..CacheTTL]
      BY <1>5, <2>1 DEF Tick
    <2>4. meta' \in [Kids -> {"none", "active", "retired"}]
      BY <1>1, <1>5 DEF Tick
    <2> QED
      BY <1>1, <1>5, <2>2, <2>3, <2>4 DEF Tick
  <1>6. ASSUME NEW k \in Keys, Ensure(k) \/ Swap(k)
        PROVE  /\ UNCHANGED <<kids, current, private, public, meta, signed, since, lost, faults>>
               /\ left' \in [Keys -> 0..KeyTTL]
    BY <1>1, <1>6, SwapFacts DEF Ensure, Swap, store, tokens
  <1>7. ASSUME NEW k \in Keys, Retire(k)
        PROVE  /\ UNCHANGED <<kids, current, private, public, left, signed, since, lost>>
               /\ meta' \in [Kids -> {"none", "active", "retired"}] /\ faults' \in 0..MaxFaults
    BY <1>1, <1>7 DEF Retire, Fault, tokens
  <1>8. ASSUME NEW k \in Keys, Store(k) \/ StoreFails(k)
        PROVE  /\ UNCHANGED <<left, signed, since, lost>> /\ faults' \in 0..MaxFaults
               /\ kids' \subseteq Kids /\ current' \in Kids \cup {None}
               /\ private' \subseteq Keys /\ public' \subseteq Keys
               /\ meta' \in [Kids -> {"none", "active", "retired"}]
    <2>1. kid[k] # None
      BY <1>8 DEF Store, StoreFails, RotationInv, Commands
    <2>2. /\ UNCHANGED <<left, signed, since, lost>> /\ faults' \in 0..MaxFaults
          /\ Command(k) \/ UNCHANGED store
      BY <1>1, <1>8 DEF Store, StoreFails, Fault, tokens
    <2> QED
      BY <1>1, <2>1, <2>2, CommandTypes
  <1>9. CASE \E c \in Consumers : Fetched(c) \/ FetchFails(c) \/ \E k \in Keys : Fetch(c, k)
    BY <1>1, <1>9 DEF Fetched, FetchFails, Fetch, store, tokens
  <1> QED
    BY <1>1, <1>2, <1>3, <1>4, <1>5, <1>6, <1>7, <1>8, <1>9 DEF Next

\* Consumers' caches keep their types.
LEMMA ConsumerStep ==
  ASSUME TypeOK, Next
  PROVE  /\ guards' = guards
         /\ seen' \in [Consumers -> [Keys -> 0..(Retention + 1)]]
         /\ age' \in [Consumers -> 0..CacheTTL]
         /\ answer' \in [Consumers -> (SUBSET Keys) \cup {None}]
  <1> DEFINE Views == [Keys -> 0..(Retention + 1)]
  <1>1. /\ seen \in [Consumers -> Views] /\ age \in [Consumers -> 0..CacheTTL]
        /\ answer \in [Consumers -> (SUBSET Keys) \cup {None}]
        /\ known \subseteq Keys
    BY DEF TypeOK
  <1>2. CASE UNCHANGED consumers
    BY <1>1, <1>2 DEF consumers
  <1>3. CASE Tick
    <2>1. ASSUME NEW c \in Consumers
          PROVE  /\ UpTo(age[c], CacheTTL) \in 0..CacheTTL
                 /\ [k \in Keys |-> UpTo(seen[c][k], Retention + 1)] \in Views
      <3>1. seen[c] \in Views /\ age[c] \in 0..CacheTTL
        BY <1>1
      <3>2. \A k \in Keys : UpTo(seen[c][k], Retention + 1) \in 0..(Retention + 1)
        <4>1. Retention + 1 \in Nat /\ \A k \in Keys : seen[c][k] \in 0..(Retention + 1)
          BY <3>1
        <4> QED
          BY <4>1, Counting
      <3> QED
        BY <3>1, <3>2, Counting
    <2>2. age' \in [Consumers -> 0..CacheTTL]
      BY <1>3, <2>1 DEF Tick
    <2>3. seen' \in [Consumers -> Views]
      BY <1>1, <1>3, <2>1 DEF Tick
    <2> QED
      BY <1>1, <1>3, <2>2, <2>3 DEF Tick
  <1>4. ASSUME NEW c \in Consumers, Fetched(c) \/ FetchFails(c) \/ \E k \in Keys : Fetch(c, k)
        PROVE  /\ guards' = guards
               /\ seen' \in [Consumers -> Views]
               /\ age' \in [Consumers -> 0..CacheTTL]
               /\ answer' \in [Consumers -> (SUBSET Keys) \cup {None}]
    <2>1. Published \subseteq Keys
      BY <1>1 DEF Published
    <2>2. Merged(c, answer[c]) \in Views
      <3>1. \A k \in Keys : seen[c][k] \in 0..(Retention + 1)
        BY <1>1
      <3> QED
        BY <3>1 DEF Merged
    <2>3. answer' = [answer EXCEPT ![c] = None] \/ answer' = [answer EXCEPT ![c] = Published]
      BY <1>4 DEF Fetched, FetchFails, Fetch
    <2>4. answer' \in [Consumers -> (SUBSET Keys) \cup {None}]
      BY <1>1, <2>1, <2>3
    <2>5. /\ guards' = guards
          /\ \/ UNCHANGED <<seen, age>>
             \/ seen' = [seen EXCEPT ![c] = Merged(c, answer[c])] /\ age' = [age EXCEPT ![c] = 0]
      BY <1>4 DEF Fetched, FetchFails, Fetch
    <2>6. [seen EXCEPT ![c] = Merged(c, answer[c])] \in [Consumers -> Views]
      <3> HIDE DEF Views
      <3> QED
        BY <1>1, <2>2
    <2>7. [age EXCEPT ![c] = 0] \in [Consumers -> 0..CacheTTL]
      BY <1>1
    <2> QED
      BY <1>1, <2>2, <2>4, <2>5, <2>6, <2>7
  <1> QED
    BY <1>2, <1>3, <1>4 DEF Next, Start, Stop, Sign, Ensure, Swap, Retire, Store, StoreFails

\* A step keeps all types.
LEMMA TypeStep ==
  ASSUME TypeOK, RotationInv, Next
  PROVE  TypeOK'
  BY MakerStep, StoreStep, ConsumerStep DEF TypeOK, Rotations, Places

-----------------------------------------------------------------------------
(* Which keys are in use, and which of them share an id.                   *)

\* A key that was put to use stays so under its id; another one is put to use
\* by its swap.
LEMMA MadeStep ==
  ASSUME TypeOK, RotationInv, Next, NEW k \in Keys
  PROVE  /\ k \in Made => k \in Made' /\ kid'[k] = kid[k] /\ kid[k] # None
         /\ k \in Made' => k \in Made \/ Swap(k)
  <1> DEFINE Goal == /\ k \in Made => k \in Made' /\ kid'[k] = kid[k]
                     /\ k \in Made' => k \in Made \/ Swap(k)
  <1>1. k \in Made => kid[k] # None
    BY DEF Made, RotationInv
  <1>2. CASE UNCHANGED <<kid, rotation>>
    BY <1>1, <1>2 DEF Made
  <1>3. ASSUME NEW l \in Keys, BeginRotation(l) PROVE Goal
    BY <1>3, BeginFacts DEF Made
  <1>4. CASE Start
    BY <1>1, <1>2, <1>3, <1>4 DEF Start, making
  <1>5. CASE Stop
    BY <1>1, <1>5, StopFacts DEF Made
  <1>6. ASSUME NEW l \in Keys, Swap(l) PROVE Goal
    BY <1>6, SwapFacts DEF Made
  <1>7. ASSUME NEW l \in Keys, Retire(l) \/ Store(l) \/ StoreFails(l) PROVE Goal
    BY <1>7, StoringFacts DEF Made, Commands
  <1>8. CASE Sign \/ Tick \/ \E c \in Consumers : Fetched(c) \/ FetchFails(c) \/ \E l \in Keys : Fetch(c, l)
    BY <1>2, <1>8 DEF Sign, Tick, Fetched, FetchFails, Fetch, making
  <1> QED
    BY <1>1, <1>3, <1>4, <1>5, <1>6, <1>7, <1>8 DEF Next, Ensure

\* Memory, Redis and the caches get their keys from those in use.
LEMMA KeptStep ==
  ASSUME TypeOK, RotationInv, MadeInv, Next
  PROVE  MadeInv'
  <1>1. Made \subseteq Made'
    BY MadeStep DEF Made
  <1>2. /\ known \subseteq Made /\ private \subseteq Made /\ public \subseteq Made
        /\ signing # None => signing \in Made
    BY DEF MadeInv
  <1>3. known' \subseteq Made' /\ (signing' # None => signing' \in Made')
    <2>1. CASE Start
      <3>1. known' \subseteq public /\ signing' \in private \cup {None}
        BY <2>1 DEF Start
      <3> QED
        BY <1>1, <1>2, <3>1
    <2>2. CASE Stop
      BY <2>2 DEF Stop, Off
    <2>3. ASSUME NEW l \in Keys, Swap(l)
          PROVE  known' \subseteq Made' /\ (signing' # None => signing' \in Made')
      <3>1. l \in Made' /\ signing' = l /\ known' \subseteq known \cup {l}
        BY <2>3, SwapFacts DEF Made, Put, Commands
      <3> QED
        BY <1>1, <1>2, <3>1
    <2>4. CASE UNCHANGED <<known, signing>>
      BY <1>1, <1>2, <2>4
    <2>5. ASSUME NEW l \in Keys, Store(l) \/ StoreFails(l)
          PROVE  known' \subseteq Made' /\ (signing' # None => signing' \in Made')
      BY <2>4, <2>5 DEF Store, StoreFails, Off, maker
    <2>6. ASSUME \/ Sign \/ Tick \/ (\E l \in Keys : Ensure(l) \/ Retire(l))
                 \/ \E c \in Consumers : Fetched(c) \/ FetchFails(c) \/ \E l \in Keys : Fetch(c, l)
          PROVE  UNCHANGED <<known, signing>>
      BY <2>6 DEF Sign, Tick, Ensure, Retire, Fetched, FetchFails, Fetch, maker
    <2> QED
      BY <2>1, <2>2, <2>3, <2>4, <2>5, <2>6 DEF Next
  <1>4. private' \subseteq Made' /\ public' \subseteq Made'
    <2>1. CASE private' \subseteq private /\ public' \subseteq public
      BY <1>1, <1>2, <2>1
    <2>2. ASSUME NEW l \in Keys, Store(l) \/ StoreFails(l)
          PROVE  private' \subseteq Made' /\ public' \subseteq Made'
      <3>1. l \in Made /\ kid[l] # None
        BY <2>2 DEF Store, StoreFails, Made, Commands, RotationInv
      <3>2. private' \subseteq private \cup {l} /\ public' \subseteq public \cup {l}
        BY <2>2, <3>1, CommandTypes DEF Store, StoreFails
      <3> QED
        BY <1>1, <1>2, <3>1, <3>2
    <2>3. ASSUME \/ Start \/ Stop \/ Sign \/ Tick \/ (\E l \in Keys : Ensure(l) \/ Swap(l) \/ Retire(l))
                 \/ \E c \in Consumers : Fetched(c) \/ FetchFails(c) \/ \E l \in Keys : Fetch(c, l)
          PROVE  private' \subseteq private /\ public' \subseteq public
      BY <2>3 DEF Start, Stop, Sign, Tick, Ensure, Swap, Retire, Fetched, FetchFails, Fetch, store
    <2> QED
      BY <2>1, <2>2, <2>3 DEF Next
  <1>5. ASSUME NEW c \in Consumers
        PROVE  /\ answer'[c] # None => answer'[c] \subseteq Made'
               /\ \A k \in Keys : Cached(c, k)' => k \in Made'
    <2> DEFINE Goal == /\ answer'[c] # None => answer'[c] \subseteq Made'
                       /\ \A k \in Keys : Cached(c, k)' => k \in Made'
    <2>1. /\ answer[c] # None => answer[c] \subseteq Made
          /\ \A k \in Keys : seen[c][k] <= Retention => k \in Made
          /\ answer \in [Consumers -> (SUBSET Keys) \cup {None}]
          /\ seen \in [Consumers -> [Keys -> 0..(Retention + 1)]]
      BY DEF MadeInv, Cached, TypeOK
    <2>2. CASE answer'[c] = answer[c] /\ seen'[c] = seen[c]
      BY <1>1, <2>1, <2>2 DEF Cached
    <2>3. CASE Tick
      <3>1. answer' = answer
        BY <2>3 DEF Tick
      <3>2. ASSUME NEW k \in Keys, seen'[c][k] <= Retention
            PROVE  seen[c][k] <= Retention
        BY <2>1, <2>3, <3>2 DEF Tick, UpTo
      <3> QED
        BY <1>1, <2>1, <3>1, <3>2 DEF Cached
    <2>4. ASSUME NEW d \in Consumers, FetchFails(d)
          PROVE  Goal
      <3>1. seen' = seen /\ answer' = [answer EXCEPT ![d] = None]
        BY <2>4 DEF FetchFails
      <3> QED
        BY <1>1, <2>1, <3>1 DEF Cached
    <2>5. ASSUME NEW d \in Consumers, NEW l \in Keys, Fetch(d, l)
          PROVE  Goal
      <3>1. seen' = seen /\ answer' = [answer EXCEPT ![d] = Published] /\ Published \subseteq known
        BY <2>5 DEF Fetch, Published
      <3> QED
        BY <1>1, <1>2, <2>1, <3>1 DEF Cached
    <2>6. ASSUME NEW d \in Consumers, Fetched(d)
          PROVE  Goal
      <3>1. answer' = [answer EXCEPT ![d] = None]
        BY <2>6 DEF Fetched
      <3>2. CASE seen'[c] = seen[c]
        BY <1>1, <2>1, <3>1, <3>2 DEF Cached
      <3>3. CASE d = c /\ seen'[c] = Merged(c, answer[c])
        <4>1. ASSUME NEW k \in Keys, seen'[c][k] <= Retention
              PROVE  k \in answer[c] \/ seen[c][k] <= Retention
          BY <3>3, <4>1 DEF Merged
        <4>2. answer[c] # None
          BY <2>6, <3>3 DEF Fetched
        <4> QED
          BY <1>1, <2>1, <3>1, <4>1, <4>2 DEF Cached
      <3>4. seen'[c] = seen[c] \/ (d = c /\ seen'[c] = Merged(c, answer[c]))
        BY <2>1, <2>6 DEF Fetched
      <3> QED
        BY <3>2, <3>3, <3>4
    <2>7. ASSUME \/ Start \/ Stop \/ Sign
                 \/ \E l \in Keys : Ensure(l) \/ Swap(l) \/ Retire(l) \/ Store(l) \/ StoreFails(l)
          PROVE  answer'[c] = answer[c] /\ seen'[c] = seen[c]
      BY <2>7 DEF Start, Stop, Sign, Ensure, Swap, Retire, Store, StoreFails, consumers
    <2> QED
      BY <2>2, <2>3, <2>4, <2>5, <2>6, <2>7 DEF Next
  <1> QED
    BY <1>3, <1>4, <1>5 DEF MadeInv

\* What a step does to the life of a key.
LEMMA LifeStep ==
  ASSUME TypeOK, Next, NEW k \in Keys
  PROVE  \/ Tick /\ left'[k] = Less(left[k])
         \/ Swap(k) /\ left'[k] = KeyTTL
         \/ left'[k] = left[k]
  <1>1. CASE Tick
    BY <1>1 DEF Tick
  <1>2. ASSUME NEW l \in Keys, Swap(l)
        PROVE  (Swap(k) /\ left'[k] = KeyTTL) \/ left'[k] = left[k]
    BY <1>2, SwapFacts
  <1>3. ASSUME ~Tick, ~(\E l \in Keys : Swap(l))
        PROVE  left' = left
    BY <1>3 DEF Next, Start, Stop, Sign, Ensure, Retire, Store, StoreFails, Fetched, FetchFails, Fetch
  <1> QED
    BY <1>1, <1>2, <1>3

\* Keys of one id have one life: they swap between the same two ticks.
LEMMA TwinStep ==
  ASSUME TypeOK, RotationInv, MadeInv, TwinInv, SecondInv, Next
  PROVE  TwinInv' /\ SecondInv'
  <1> DEFINE Twin(k, j) == kid'[j] = kid'[k] =>
                             /\ j \in Made' => left'[j] = left'[k]
                             /\ j \notin Made' => left'[k] = KeyTTL
             InSecond(k) == kid'[k] = second' => left'[k] = KeyTTL
  <1> SUFFICES ASSUME NEW k \in Keys, k \in Made', NEW j \in Keys
               PROVE  Twin(k, j) /\ InSecond(k)
    BY DEF TwinInv, SecondInv, Made
  <1>1. /\ kid[j] = kid[k] /\ k \in Made /\ j \in Made => left[j] = left[k]
        /\ kid[j] = kid[k] /\ k \in Made /\ j \notin Made => left[k] = KeyTTL
        /\ kid[j] = kid[k] /\ k \notin Made /\ j \in Made => left[j] = KeyTTL
        /\ k \in Made /\ kid[k] = second => left[k] = KeyTTL
    BY DEF TwinInv, SecondInv
  <1>2. /\ k \in Made => kid'[k] = kid[k] /\ kid[k] # None
        /\ j \in Made => j \in Made' /\ kid'[j] = kid[j] /\ kid[j] # None
        /\ j \in Made' => j \in Made \/ Swap(j)
        /\ k \in Made \/ Swap(k)
    BY MadeStep
  <1>3. CASE UNCHANGED <<left, kid, second>> /\ k \in Made /\ (j \in Made' => j \in Made)
    BY <1>1, <1>2, <1>3
  <1>4. ASSUME NEW l \in Keys, BeginRotation(l), UNCHANGED left
        PROVE  Twin(k, j) /\ InSecond(k)
    <2>1. /\ l \notin Made /\ l \notin Made'
          /\ \A i \in Keys \ {l} : kid'[i] = kid[i] /\ (i \in Made' <=> i \in Made)
          /\ second' = kid'[l]
          /\ kid'[l] = second \/ \A i \in Keys : kid[i] # kid'[l]
      BY <1>4, BeginFacts DEF Made
    <2> QED
      BY <1>1, <1>2, <1>4, <2>1
  <1>5. CASE Start
    BY <1>2, <1>3, <1>4, <1>5 DEF Start, making, Made
  <1>6. CASE Stop
    <2>1. /\ UNCHANGED <<left, second>> /\ kid'[j] \in {kid[j], None}
          /\ k \in Made /\ (j \in Made' => j \in Made)
      BY <1>2, <1>6, StopFacts DEF Stop, Swap, Made
    <2> QED
      BY <1>1, <1>2, <2>1
  <1>7. CASE Tick
    <2>1. /\ \A i \in Keys : left'[i] = Less(left[i])
          /\ kid' = kid /\ second' = None /\ rotation' = rotation /\ InProgress = {}
      BY <1>7 DEF Tick
    <2>2. j \notin Made => kid[j] = None
      BY <2>1 DEF Made, InProgress, RotationInv
    <2>3. (k \in Made <=> k \in Made') /\ (j \in Made <=> j \in Made')
      BY <2>1 DEF Made
    <2> QED
      BY <1>1, <1>2, <2>1, <2>2, <2>3
  <1>8. ASSUME NEW l \in Keys, Swap(l)
        PROVE  Twin(k, j) /\ InSecond(k)
    <2>1. /\ UNCHANGED <<kid, second>> /\ left'[l] = KeyTTL /\ l \in Made' /\ l \notin Made
          /\ \A i \in Keys \ {l} : left'[i] = left[i] /\ (i \in Made' <=> i \in Made)
      BY <1>8, SwapFacts DEF Made, Commands
    <2> QED
      BY <1>1, <1>2, <2>1
  <1>9. ASSUME NEW l \in Keys, Ensure(l)
        PROVE  Twin(k, j) /\ InSecond(k)
    BY <1>4, <1>9 DEF Ensure
  <1>10. ASSUME NEW l \in Keys, Retire(l) \/ Store(l) \/ StoreFails(l)
         PROVE  Twin(k, j) /\ InSecond(k)
    <2>1. UNCHANGED <<left, kid, second>> /\ \A i \in Keys : i \in Made' => i \in Made
      BY <1>10, StoringFacts DEF Made, Commands
    <2> QED
      BY <1>3, <2>1
  <1>11. CASE Sign \/ \E c \in Consumers : Fetched(c) \/ FetchFails(c) \/ \E l \in Keys : Fetch(c, l)
    <2>1. UNCHANGED <<left, kid, second, rotation>>
      BY <1>11 DEF Sign, Fetched, FetchFails, Fetch, making
    <2> QED
      BY <1>3, <2>1 DEF Made
  <1> QED
    BY <1>5, <1>6, <1>7, <1>8, <1>9, <1>10, <1>11 DEF Next

-----------------------------------------------------------------------------
(* The ages of keys and tokens, and what the service holds.                *)

\* A key's life starts with its swap; otherwise it only grows shorter, and
\* what it has signed ends before it.
LEMMA SignedStep ==
  ASSUME TypeOK, RotationInv, MadeInv, SignedInv, Next
  PROVE  SignedInv'
  <1> SUFFICES ASSUME NEW k \in Keys
               PROVE  /\ k \notin Made' => left'[k] = 0 /\ since'[k] = 0
                      /\ signed'[k] <= left'[k]
    BY DEF SignedInv
  <1>1. /\ left[k] \in 0..KeyTTL /\ signed[k] \in 0..TokenTTL /\ since[k] \in 0..CacheTTL
        /\ signed \in [Keys -> 0..TokenTTL]
        /\ k \notin Made => left[k] = 0 /\ since[k] = 0
        /\ signed[k] <= left[k]
    BY DEF TypeOK, SignedInv
  <1>2. k \notin Made' => k \notin Made
    BY MadeStep
  <1>3. CASE UNCHANGED <<left, signed, since>>
    BY <1>1, <1>2, <1>3
  <1>4. CASE Sign
    <2>1. /\ UNCHANGED <<left, since>> /\ signing # None
          /\ signed'[k] = IF k = signing THEN TokenTTL ELSE signed[k]
          /\ left[signing] > Margin
      BY <1>1, <1>4 DEF Sign, MaySign, TypeOK
    <2> QED
      BY <1>1, <1>2, <2>1
  <1>5. CASE Tick
    <2>1. /\ left'[k] = Less(left[k]) /\ signed'[k] = Less(signed[k])
          /\ since'[k] = IF signed[k] > 0 \/ since[k] > 0 THEN UpTo(since[k], CacheTTL) ELSE 0
      BY <1>5 DEF Tick
    <2> QED
      BY <1>1, <1>2, <2>1 DEF Less
  <1>6. ASSUME NEW l \in Keys, Swap(l)
        PROVE  /\ k \notin Made' => left'[k] = 0 /\ since'[k] = 0
               /\ signed'[k] <= left'[k]
    <2>1. UNCHANGED <<signed, since>> /\ l \in Made'
      BY <1>6, SwapFacts DEF Swap, tokens, Made, Commands
    <2> QED
      BY <1>1, <1>2, <1>6, <2>1, SwapFacts
  <1>7. ASSUME ~Sign, ~Tick, ~(\E l \in Keys : Swap(l))
        PROVE  UNCHANGED <<left, signed, since>>
    BY <1>7 DEF Next, Start, Stop, Ensure, Retire, Store, StoreFails, Fetched, FetchFails, Fetch, tokens
  <1> QED
    BY <1>3, <1>4, <1>5, <1>6, <1>7

\* A key with life left has it from its swap or had it before, and a key that
\* is not lost was not lost before.
LEMMA LeftStep ==
  ASSUME TypeOK, Next, NEW k \in Keys
  PROVE  /\ left'[k] > 0 => left[k] > 0 \/ Swap(k)
         /\ k \notin lost' => k \notin lost
  <1>1. left[k] \in 0..KeyTTL
    BY DEF TypeOK
  <1>2. left'[k] > 0 => left[k] > 0 \/ Swap(k)
    BY <1>1, LifeStep DEF Less
  <1>3. lost \subseteq lost'
    BY DEF Next, Start, Stop, Sign, Tick, Ensure, Swap, Retire, Store, StoreFails, Fetched,
      FetchFails, Fetch
  <1> QED
    BY <1>2, <1>3

\* Keys of one id keep it.
LEMMA SameIdStep ==
  ASSUME TypeOK, RotationInv, Next, NEW k \in Keys, k \in Made,
         NEW j \in Keys, j \in Made, j \in SameId(k)
  PROVE  j \in SameId(k)'
  BY MadeStep DEF SameId

\* Whatever a start does not load is lost, and no id in memory is forgotten.
LEMMA KnownStep ==
  ASSUME TypeOK, RotationInv, MadeInv, SignedInv, KnownInv, Next
  PROVE  KnownInv'
  <1> SUFFICES ASSUME service' # "off", NEW k \in Keys, k \notin lost', left'[k] > 0
               PROVE  \E j \in Keys : j \in known' /\ kid'[j] = kid'[k]
    BY DEF KnownInv, SameId
  <1>1. /\ left[k] > 0 \/ Swap(k)
        /\ k \notin lost
        /\ left[k] > 0 => left[k] # 0 /\ k \in Made
        /\ \A j \in Keys : j \in Made => kid'[j] = kid[j]
    BY LeftStep, MadeStep DEF TypeOK, SignedInv
  <1>2. /\ known \subseteq Made /\ public \subseteq Made /\ known \subseteq Keys /\ public \subseteq Keys
    BY DEF MadeInv, TypeOK
  <1>3. ~Swap(k) /\ service # "off" => \E j \in Keys : j \in known /\ kid[j] = kid[k]
    BY <1>1 DEF KnownInv, SameId
  <1>4. CASE Start
    <2>1. ~Swap(k)
      BY <1>4 DEF Start, RotationInv, InProgress, Swap
    <2>2. PICK skipped \in SUBSET kids :
            /\ known' = {j \in public : Loads(kid[j]) /\ kid[j] \notin skipped}
            /\ lost' = lost \cup {j \in Keys : left[j] # 0 /\ (~Stored(kid[j]) \/ kid[j] \in skipped)}
      BY <1>4 DEF Start
    <2>3. Stored(kid[k]) /\ kid[k] \notin skipped
      BY <1>1, <2>1, <2>2
    <2>4. PICK j \in public : kid[j] = kid[k]
      BY <2>3 DEF Stored
    <2>5. j \in known'
      BY <2>2, <2>3, <2>4 DEF Loads
    <2> QED
      BY <1>1, <1>2, <2>1, <2>4, <2>5
  <1>5. CASE Swap(k)
    BY <1>5, SwapFacts DEF Put
  <1>6. ASSUME service # "off", known \subseteq known', ~Swap(k)
        PROVE  \E j \in Keys : j \in known' /\ kid'[j] = kid'[k]
    BY <1>1, <1>2, <1>3, <1>6
  <1>7. CASE Stop
    BY <1>7 DEF Stop, Off
  <1>8. ASSUME NEW l \in Keys, Swap(l), l # k
        PROVE  \E j \in Keys : j \in known' /\ kid'[j] = kid'[k]
    <2>1. service # "off"
      BY <1>8 DEF Swap, RotationInv, InProgress
    <2>2. known' = {j \in known : kid[j] # kid[l]} \cup {l} /\ kid' = kid /\ ~Swap(k)
      <3>1. k \notin Made => left'[k] = left[k] /\ left[k] = 0
        BY <1>8, SwapFacts DEF SignedInv
      <3>2. k \in Made
        BY <3>1
      <3> QED
        BY <1>8, <3>2, SwapFacts DEF Put, Made, Swap
    <2>3. PICK j \in known : kid[j] = kid[k]
      BY <1>3, <2>1, <2>2
    <2> QED
      BY <1>2, <2>2, <2>3
  <1>9. ASSUME NEW l \in Keys, Store(l) \/ StoreFails(l)
        PROVE  service # "off" /\ known \subseteq known'
    <2>1. service # "off"
      BY <1>9 DEF Store, StoreFails, InProgress, RotationInv
    <2> QED
      BY <1>9, <2>1 DEF Store, StoreFails, Off, maker
  <1>10. ASSUME Sign \/ Tick \/ (\E l \in Keys : Ensure(l) \/ Retire(l))
                \/ \E c \in Consumers : Fetched(c) \/ FetchFails(c) \/ \E l \in Keys : Fetch(c, l)
         PROVE  service # "off" /\ known \subseteq known'
    BY <1>10 DEF Sign, Tick, Ensure, Retire, Fetched, FetchFails, Fetch, maker
  <1> QED
    BY <1>4, <1>5, <1>6, <1>7, <1>8, <1>9, <1>10 DEF Next

-----------------------------------------------------------------------------
(* Those who verify.                                                       *)

\* What a fetch brings was published while the service held a key for every id
\* that matters, and no tick came between.
LEMMA AnswerStep ==
  ASSUME TypeOK, RotationInv, MadeInv, TwinInv, SignedInv, KnownInv, AnswerInv, Next
  PROVE  AnswerInv'
  <1> SUFFICES ASSUME NEW c \in Consumers, answer'[c] # None,
                      NEW k \in Keys, k \notin lost', left'[k] > 0, since'[k] > 0
               PROVE  \E j \in Keys : j \in answer'[c] /\ kid'[j] = kid'[k]
    BY DEF AnswerInv, SameId
  <1>1. /\ answer \in [Consumers -> (SUBSET Keys) \cup {None}]
        /\ since \in [Keys -> 0..CacheTTL]
    BY DEF TypeOK
  <1>2. ~Tick
    BY DEF Tick
  <1>3. since' = since
    BY <1>2 DEF Next, Start, Stop, Sign, Ensure, Swap, Retire, Store, StoreFails, Fetched,
      FetchFails, Fetch, tokens
  <1>4. k \in Made
    BY <1>1, <1>3 DEF SignedInv
  <1>5. /\ left[k] > 0 /\ k \notin lost /\ since[k] > 0
        /\ \A j \in Keys : j \in Made => kid'[j] = kid[j]
    BY <1>3, <1>4, LeftStep, MadeStep DEF Swap, Made
  <1>6. ASSUME NEW keys \in SUBSET Keys, keys \subseteq Made, keys \cap SameId(k) # {}, answer'[c] = keys
        PROVE  \E j \in Keys : j \in answer'[c] /\ kid'[j] = kid'[k]
    BY <1>4, <1>5, <1>6 DEF SameId
  <1>7. CASE answer'[c] = answer[c]
    <2>1. /\ answer[c] \in SUBSET Keys /\ answer[c] \subseteq Made
          /\ answer[c] \cap SameId(k) # {}
      BY <1>1, <1>5, <1>7 DEF AnswerInv, MadeInv
    <2> QED
      BY <1>6, <1>7, <2>1
  <1>8. ASSUME NEW l \in Keys, Fetch(c, l)
        PROVE  \E j \in Keys : j \in answer'[c] /\ kid'[j] = kid'[k]
    <2>1. PICK j \in Keys : j \in known /\ kid[j] = kid[k]
      BY <1>5, <1>8 DEF Fetch, KnownInv, SameId
    <2>2. j \in Made /\ left[j] = left[k]
      BY <1>4, <2>1 DEF MadeInv, TwinInv
    <2>3. answer'[c] = Published
      BY <1>1, <1>8 DEF Fetch
    <2> QED
      BY <1>4, <1>5, <2>1, <2>2, <2>3 DEF Published
  <1>9. ASSUME NEW d \in Consumers, NEW l \in Keys, d # c,
               Fetched(d) \/ FetchFails(d) \/ Fetch(d, l)
        PROVE  answer'[c] = answer[c]
    BY <1>1, <1>9 DEF Fetched, FetchFails, Fetch
  <1>10. ~(Fetched(c) \/ FetchFails(c))
    BY <1>1 DEF Fetched, FetchFails
  <1>11. ASSUME ~(\E d \in Consumers : Fetched(d) \/ FetchFails(d) \/ \E l \in Keys : Fetch(d, l))
         PROVE  answer'[c] = answer[c]
    BY <1>2, <1>11 DEF Next, Start, Stop, Sign, Ensure, Swap, Retire, Store, StoreFails, consumers
  <1> QED
    BY <1>7, <1>8, <1>9, <1>10, <1>11

\* A key's age as a signer and a cache's age grow together, and a fetch that
\* makes the cache young brings a key for its id.
LEMMA SeenStep ==
  ASSUME TypeOK, RotationInv, MadeInv, SignedInv, AnswerInv, SeenInv, Next
  PROVE  SeenInv'
  <1> SUFFICES ASSUME NEW c \in Consumers, NEW k \in Keys, k \notin lost',
                      left'[k] > 0, since'[k] > age'[c]
               PROVE  \E j \in Keys : kid'[j] = kid'[k] /\ seen'[c][j] <= age'[c]
    BY DEF SeenInv, SameId
  <1>1. /\ since[k] \in 0..CacheTTL /\ age[c] \in 0..CacheTTL
        /\ \A j \in Keys : seen[c][j] \in 0..(Retention + 1)
        /\ seen \in [Consumers -> [Keys -> 0..(Retention + 1)]]
        /\ age \in [Consumers -> 0..CacheTTL]
    BY DEF TypeOK
  <1>2. /\ left[k] > 0 \/ Swap(k)
        /\ k \notin lost
        /\ \A j \in Keys : j \in Made => kid'[j] = kid[j]
        /\ Swap(k) => k \notin Made
        /\ k \notin Made => since[k] = 0 /\ left[k] = 0
    BY LeftStep, MadeStep DEF SignedInv, Swap, Made
  <1>3. \A j \in Keys : seen[c][j] <= age[c] => j \in Made
    BY <1>1 DEF MadeInv, Cached
  <1>4. ASSUME left[k] > 0, since[k] > age[c]
        PROVE  \E j \in Keys : kid'[j] = kid'[k] /\ kid[j] = kid[k] /\ seen[c][j] <= age[c]
    BY <1>1, <1>2, <1>3, <1>4 DEF SeenInv, SameId
  <1>5. CASE UNCHANGED <<since, seen, age>>
    BY <1>1, <1>2, <1>4, <1>5
  <1>6. CASE Tick
    <2>1. left[k] > 0
      BY <1>2, <1>6 DEF Tick, Swap, InProgress
    <2>2. /\ since'[k] = IF signed[k] > 0 \/ since[k] > 0 THEN UpTo(since[k], CacheTTL) ELSE 0
          /\ age'[c] = UpTo(age[c], CacheTTL)
          /\ \A j \in Keys : seen'[c][j] = IF c \notin guards THEN seen[c][j]
                                           ELSE UpTo(seen[c][j], Retention + 1)
      BY <1>6 DEF Tick
    <2>3. since[k] > age[c] /\ age'[c] = age[c] + 1
      BY <1>1, <2>2 DEF UpTo
    <2>4. PICK j \in Keys : kid'[j] = kid'[k] /\ seen[c][j] <= age[c]
      BY <1>4, <2>1, <2>3
    <2> QED
      BY <1>1, <2>2, <2>3, <2>4 DEF UpTo
  <1>7. ASSUME NEW d \in Consumers, Fetched(d)
        PROVE  \E j \in Keys : kid'[j] = kid'[k] /\ seen'[c][j] <= age'[c]
    <2>1. UNCHANGED <<left, since, kid>> /\ left[k] > 0
      <3>1. UNCHANGED <<left, since, kid>>
        BY <1>7 DEF Fetched, tokens, making
      <3> QED
        BY <3>1
    <2>2. CASE seen'[c] = seen[c] /\ age'[c] = age[c]
      BY <1>4, <2>1, <2>2
    <2>3. CASE d = c /\ seen'[c] = Merged(c, answer[c]) /\ age'[c] = 0
      <3>1. since[k] > 0
        BY <1>1, <2>1, <2>3
      <3>2. PICK j \in Keys : j \in answer[c] /\ kid[j] = kid[k]
        BY <1>2, <1>7, <2>1, <2>3, <3>1 DEF AnswerInv, Fetched, SameId
      <3> QED
        BY <2>1, <2>3, <3>2 DEF Merged
    <2> QED
      BY <1>1, <1>7, <2>2, <2>3 DEF Fetched
  <1>8. ASSUME ~Tick, ~(\E d \in Consumers : Fetched(d))
        PROVE  UNCHANGED <<since, seen, age>>
    BY <1>8 DEF Next, Start, Stop, Sign, Ensure, Swap, Retire, Store, StoreFails,
      FetchFails, Fetch, tokens, consumers
  <1> QED
    BY <1>5, <1>6, <1>7, <1>8

-----------------------------------------------------------------------------
(* The invariant, and the properties it implies.                           *)

\* At the start no key has been made and nobody knows any.
LEMMA InitKeeps == Init => IInv
  <1> SUFFICES ASSUME Init PROVE IInv
    OBVIOUS
  <1> USE DEF Init
  <1>1. /\ rotation \in [Keys -> Rotations]
        /\ \A k \in Keys : rotation[k].at = "idle"
    BY DEF NoRotation, Rotations, Places
  <1>2. /\ seen \in [Consumers -> [Keys -> 0..(Retention + 1)]]
        /\ age \in [Consumers -> 0..CacheTTL]
        /\ left \in [Keys -> 0..KeyTTL] /\ signed \in [Keys -> 0..TokenTTL]
        /\ since \in [Keys -> 0..CacheTTL] /\ faults \in 0..MaxFaults
    OBVIOUS
  <1>3. TypeOK
    BY <1>1, <1>2 DEF TypeOK, Rotations, Places
  <1>4. Made = {} /\ InProgress = {}
    BY <1>1 DEF Made, InProgress, Commands
  <1>5. RotationInv /\ SignedInv /\ KnownInv
    BY <1>1, <1>4 DEF RotationInv, SignedInv, KnownInv, Commands
  <1>6. MadeInv /\ TwinInv /\ SecondInv
    BY <1>4 DEF MadeInv, TwinInv, SecondInv, Cached
  <1>7. AnswerInv /\ SeenInv
    BY DEF AnswerInv, SeenInv
  <1> QED
    BY <1>3, <1>5, <1>6, <1>7 DEF IInv

\* IInv is inductive: no process runs without a key for every id whose tokens
\* live, and no cache is younger than its knowledge of them.
THEOREM Inductive == Spec => []IInv
  <1>1. Init => IInv
    BY InitKeeps
  <1>2. IInv /\ [Next]_vars => IInv'
    <2> SUFFICES ASSUME IInv, [Next]_vars PROVE IInv'
      OBVIOUS
    <2>1. CASE Next
      BY <2>1, MakerStep, TypeStep, KeptStep, TwinStep, SignedStep, KnownStep, AnswerStep, SeenStep
         DEF IInv
    <2>2. CASE UNCHANGED vars
      BY <2>2 DEF vars, maker, making, store, tokens, consumers, IInv, TypeOK, RotationInv,
        InProgress, Made, MadeInv, TwinInv, SecondInv, SignedInv, SameId, Cached, KnownInv,
        AnswerInv, SeenInv
    <2> QED
      BY <2>1, <2>2
  <1> QED
    BY <1>1, <1>2, PTL DEF Spec

\* Every variable keeps its type, and a service that serves has a key to sign
\* with (eddsa_maker.go:59-86).
THEOREM TypeCorrect == Spec => []TypeOK
  <1>1. IInv => TypeOK
    BY DEF IInv
  <1> QED
    BY <1>1, Inductive, PTL

\* The auth service holds, for every token it signed and until it expires, the
\* key of the token or the one that a rotation of the same second put in its
\* place, for any number of rotations side by side, restarts and failing commands
\* (eddsa_maker.go:59-86, 297-331, 378-396).
THEOREM SignerHolds == Spec => []SignerVerifies
  <1>1. IInv => SignerVerifies
    <2> SUFFICES ASSUME IInv, service = "serving", NEW k \in Keys \ lost, signed[k] > 0
                 PROVE  k \in Published \/ \E j \in Published : Twins(k, j)
      BY DEF SignerVerifies
    <2>1. left[k] > 0 /\ k \in Made
      BY DEF IInv, TypeOK, SignedInv
    <2>2. PICK j \in Keys : j \in known /\ kid[j] = kid[k]
      BY <2>1 DEF IInv, KnownInv, SameId
    <2>3. left[j] = left[k]
      BY <2>1, <2>2 DEF IInv, MadeInv, TwinInv
    <2> QED
      BY <2>1, <2>2, <2>3 DEF Published, Twins
  <1> QED
    BY <1>1, Inductive, PTL

\* Whoever fetched keys less than a cache period ago knows every key that has
\* been signing for a cache period and has a token alive, or the one that took
\* over its id, for any number of validators and page guards
\* (validator.go:85-104, server-jwt.ts:83-140).
THEOREM ConsumersHold == Spec => []ConsumersKnow
  <1>1. IInv => ConsumersKnow
    <2> SUFFICES ASSUME IInv, NEW c \in Consumers, NEW k \in Keys \ lost,
                        age[c] < CacheTTL, since[k] = CacheTTL, signed[k] > 0
                 PROVE  Cached(c, k) \/ \E j \in Keys : Twins(k, j) /\ Cached(c, j)
      BY DEF ConsumersKnow
    <2>1. /\ age[c] \in 0..CacheTTL /\ \A j \in Keys : seen[c][j] \in Nat
          /\ left[k] \in Nat /\ signed[k] \in Nat /\ signed[k] <= left[k]
      BY DEF IInv, TypeOK, SignedInv
    <2>2. PICK j \in SameId(k) : seen[c][j] <= age[c]
      BY <2>1 DEF IInv, SeenInv
    <2>3. j \in Keys /\ kid[j] = kid[k] /\ Cached(c, j)
      BY <2>1, <2>2 DEF Cached, SameId
    <2> QED
      BY <2>3 DEF Twins
  <1> QED
    BY <1>1, Inductive, PTL
=============================================================================
