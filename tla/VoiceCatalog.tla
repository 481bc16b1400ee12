---------------------------- MODULE VoiceCatalog ----------------------------
(***************************************************************************)
(* The voice service: a row per voice in Postgres, its audio in an S3      *)
(* bucket, and in Redis a cached copy of each voice, cached lists, and the *)
(* documents the search index is built from.  Requests interleave between  *)
(* any two of their calls to the three stores.                             *)
(*                                                                         *)
(* A voice's data is its version: 1 when inserted, one more per update, 0  *)
(* for no row and no entry.  Redis is configured; whether it knows the     *)
(* commands of RediSearch a flag of the process remembers, which requests  *)
(* read and clear without synchronisation.  What a search finds goes to    *)
(* its caller only.  The handlers list a user's own voices or the system's,*)
(* never the scope "all", so a list is named by the owner of its rows.     *)
(***************************************************************************)
EXTENDS Naturals, FiniteSets

CONSTANTS Users, SystemUser,
          Voices, Owner,    \* Owner[v]: the user whose voice v is, or SystemUser
          NoVoice,
          Existing,         \* voices that have a row at the start
          Requests,         \* one-shot requests
          Kinds,            \* the kinds of requests clients send
          MaxActive,        \* bound on requests in progress
          MaxVersion,       \* bound on updates of a row
          FaultSets         \* what may go wrong: subsets of FaultKinds

FaultKinds ==
  {"db",      \* a statement returns an error, having committed or not
   "s3",      \* an S3 call returns an error, having taken effect or not
   "redis",   \* a Redis command fails; the code logs it and goes on
   "module",  \* Redis does not know the commands of RediSearch
   "crash"}   \* the process stops, or the request's context is cancelled

AllKinds == {"playback", "list", "create", "update", "delete", "seed", "search"}

Tags == Users \cup {SystemUser}
Docs == Tags \X Voices

ASSUME CatalogAssumption == /\ SystemUser \notin Users /\ NoVoice \notin Voices
                            /\ Owner \in [Voices -> Tags]
                            /\ Existing \subseteq Voices
                            /\ Kinds \subseteq AllKinds
                            /\ MaxVersion \in Nat \ {0}
                            /\ MaxActive \in Nat \ {0}
                            /\ FaultSets \subseteq SUBSET FaultKinds

VARIABLES table,     \* table[v]: version of the row of v
          audio,     \* voices whose object is in the bucket
          cache,     \* cache[v]: version under voice:cache:<owner>:<v>
          list,      \* list[o]: rows cached under voices:list:<scope>:<o>
          docs,      \* docs[tag, v]: version under voice:doc:<tag>:<v>
          immortal,  \* documents without a TTL
          at,        \* at[r]: the call request r makes next
          op,        \* op[r]: what r asks for
          got,       \* got[r]: the rows r has read, by voice
          enabled,   \* redisSearchEnabled; "lately": a request just cleared it
          faults,    \* what may go wrong in this run of the service
          serial     \* history: no two requests overlapped, none was told
                     \* that a write failed which was committed

redis == <<cache, list, docs, immortal>>
vars  == <<table, audio, cache, list, docs, immortal, at, op, got, enabled, faults, serial>>

Rows   == [Voices -> 0..MaxVersion]
NoRows == [v \in Voices |-> 0]
NoList == [v \in {} |-> 0]

Ops == [kind : AllKinds, voice : Voices \cup {NoVoice}, user : Tags]

Ended  == {"done", "failed"}
Active == {r \in Requests : at[r] \notin Ended \cup {"new"}}

\* The rows of one owner, as the SELECT of a list read returns them.
RowsOf(o) == [v \in Voices |-> IF Owner[v] = o THEN table[v] ELSE 0]

-----------------------------------------------------------------------------
(* How a request moves on.                                                 *)

\* A fresh id: no row ever had it and no other request was given it.
Fresh(v) == /\ v \notin Existing
            /\ \A r \in Requests : op[r].kind = "create" => op[r].voice # v

First(kind) == CASE kind = "playback" -> "readRow"
                 [] kind = "list"     -> "readList"
                 [] kind = "create"   -> "upload"
                 [] kind = "update"   -> "updateRow"
                 [] kind = "delete"   -> "readCache"
                 [] kind = "seed"     -> "findSystem"
                 [] kind = "search"   -> "search"

Begin(r, o) == /\ at[r] = "new" /\ Cardinality(Active) < MaxActive
               /\ at' = [at EXCEPT ![r] = First(o.kind)]
               /\ op' = [op EXCEPT ![r] = o]
               /\ UNCHANGED <<table, audio, redis, got>>

BeginVoice(r, kind, v, u) ==
  /\ kind \in Kinds \ {"list", "seed", "search"}
  /\ kind = "create" => Owner[v] = u /\ Fresh(v)
  /\ Begin(r, [kind |-> kind, voice |-> v, user |-> u])

\* The caller's own voices, or the system's: whose they are is all that counts.
BeginList(r, kind, o) ==
  /\ kind \in Kinds \cap {"list", "search"}
  /\ Begin(r, [kind |-> kind, voice |-> NoVoice, user |-> o])

\* The seeding script, of which one runs at a time, comes to system voice v.
BeginSeed(r, v) ==
  /\ "seed" \in Kinds /\ Owner[v] = SystemUser
  /\ \A q \in Active : op[q].kind # "seed"
  /\ Begin(r, [kind |-> "seed", voice |-> v, user |-> SystemUser])

\* Request r makes call "from" and goes on to call "to".
Step(r, from, to) == /\ at[r] = from
                     /\ at' = [at EXCEPT ![r] = to]
                     /\ UNCHANGED op

\* The process or the request's context ends anywhere in the request.
Crash(r) == /\ r \in Active /\ "crash" \in faults
            /\ at' = [at EXCEPT ![r] = "failed"]
            /\ UNCHANGED <<table, audio, redis, op, got>>

-----------------------------------------------------------------------------
(* Reading one voice, and the two writes to Redis that follow every read   *)
(* of a row and every write of one.                                        *)

\* Only the owner's requests look a voice up by cache key; an unreadable
\* entry, or a failing Redis, counts as a miss.
ReadCache(r) ==
  LET v == op[r].voice
  IN  \/ /\ Step(r, "readCache", "deleteAudio")
         /\ Owner[v] = op[r].user /\ cache[v] # 0
         /\ got' = [got EXCEPT ![r][v] = cache[v]]
         /\ UNCHANGED <<table, audio, redis>>
      \/ /\ Step(r, "readCache", "readRow")
         /\ Owner[v] # op[r].user \/ cache[v] = 0 \/ "redis" \in faults
         /\ UNCHANGED <<table, audio, redis, got>>

\* Mutant: ErrNoRows is not an error.
Readable_Ignored(r) == TRUE

\* Playback reads any row and checks the owner afterwards; a delete reads
\* only its user's rows.
Readable(r) == LET v == op[r].voice
               IN  /\ table[v] # 0
                   /\ op[r].kind = "delete" => Owner[v] = op[r].user

ReadRow(r) ==
  \/ /\ Step(r, "readRow", "cacheVoice") /\ Readable(r)
     /\ got' = [got EXCEPT ![r][op[r].voice] = table[op[r].voice]]
     /\ UNCHANGED <<table, audio, redis>>
  \/ /\ Step(r, "readRow", "failed")
     /\ ~Readable(r) \/ "db" \in faults
     /\ UNCHANGED <<table, audio, redis, got>>

\* What a request may read of the flag: no lock orders it with the write.
Indexes == CASE enabled = "yes"    -> {TRUE}
             [] enabled = "lately" -> BOOLEAN
             [] enabled = "no"     -> {FALSE}

\* Mutant: only a create invalidates the lists.
AfterDoc_CreateOnly(kind) == CASE kind = "create" -> "dropLists"
                               [] kind = "delete" -> "deleteAudio"
                               [] OTHER           -> "done"

AfterDoc(kind) == CASE kind = "playback" -> "done"
                    [] kind = "delete"   -> "deleteAudio"
                    [] OTHER             -> "dropLists"

CacheVoice(r) ==
  /\ \E b \in Indexes : Step(r, "cacheVoice", IF b THEN "putDoc" ELSE AfterDoc(op[r].kind))
  /\ \/ cache' = [cache EXCEPT ![op[r].voice] = got[r][op[r].voice]]
     \/ "redis" \in faults /\ UNCHANGED cache
  /\ UNCHANGED <<table, audio, list, docs, immortal, got>>

\* Documents D take the rows r has read: HSET, which keeps the TTL a key has
\* and gives a new key none, then EXPIRE, which documents "last" do not get.
HSetDocs(r, D, last) ==
  /\ docs' = [d \in Docs |-> IF d \in D THEN got[r][d[2]] ELSE docs[d]]
  /\ immortal' = (immortal \ (D \ last)) \cup {d \in last : docs[d] = 0}

\* Mutant: documents get no TTL.
PutDocs_NoExpire(r, D) == HSetDocs(r, D, D)

PutDocs(r, D) == HSetDocs(r, D, {})

\* Mutant: the document carries the caller's tag.
DocOf_Caller(r) == <<op[r].user, op[r].voice>>

DocOf(r) == <<Owner[op[r].voice], op[r].voice>>

\* HSET fails and nothing is written, or EXPIRE fails and the code goes on.
PutDoc(r) ==
  LET D == {DocOf(r)}
  IN  /\ \/ /\ Step(r, "putDoc", AfterDoc(op[r].kind))
            /\ \/ PutDocs(r, D)
               \/ "redis" \in faults /\ (HSetDocs(r, D, D) \/ UNCHANGED <<docs, immortal>>)
         \/ Step(r, "putDoc", "failed") /\ "crash" \in faults /\ HSetDocs(r, D, D)
      /\ UNCHANGED <<table, audio, cache, list, got>>

-----------------------------------------------------------------------------
(* Listing without a query.                                                *)

ReadList(r) ==
  LET o == op[r].user
  IN  \/ /\ Step(r, "readList", "done") /\ list[o] # NoList
         /\ got' = [got EXCEPT ![r] = list[o]]
         /\ UNCHANGED <<table, audio, redis>>
      \/ /\ Step(r, "readList", "readRows")
         /\ list[o] = NoList \/ "redis" \in faults
         /\ UNCHANGED <<table, audio, redis, got>>

ReadRows(r) ==
  \/ /\ Step(r, "readRows", "setList")
     /\ got' = [got EXCEPT ![r] = RowsOf(op[r].user)]
     /\ UNCHANGED <<table, audio, redis>>
  \/ /\ Step(r, "readRows", "failed") /\ "db" \in faults
     /\ UNCHANGED <<table, audio, redis, got>>

SetList(r) ==
  /\ \E b \in Indexes : Step(r, "setList", IF b THEN "indexRows" ELSE "done")
  /\ \/ list' = [list EXCEPT ![op[r].user] = got[r]]
     \/ "redis" \in faults /\ UNCHANGED list
  /\ UNCHANGED <<table, audio, cache, docs, immortal, got>>

\* Every row of a list is indexed under the owner the list names.
RowDocs(r) == {op[r].user} \X {v \in Voices : got[r][v] # 0}

\* Any row's two commands may fail on their own; a process that stops has
\* indexed some rows, the last perhaps without its EXPIRE.
IndexRows(r) ==
  /\ \/ Step(r, "indexRows", "done") /\ PutDocs(r, RowDocs(r))
     \/ /\ Step(r, "indexRows", "done") /\ "redis" \in faults
        /\ \E D \in SUBSET RowDocs(r) : \E last \in SUBSET D : HSetDocs(r, D, last)
     \/ /\ Step(r, "indexRows", "failed") /\ "crash" \in faults
        /\ \E D \in SUBSET RowDocs(r) : \E d \in D : HSetDocs(r, D, {d})
  /\ UNCHANGED <<table, audio, cache, list, got>>

\* Listing with a query asks the search index; a Redis without RediSearch is
\* asked no more.
Search(r) ==
  /\ \/ /\ FALSE \in Indexes /\ Step(r, "search", "searchRows") /\ UNCHANGED enabled
     \/ /\ TRUE \in Indexes /\ "module" \notin faults
        /\ Step(r, "search", "done") /\ UNCHANGED enabled
     \/ /\ TRUE \in Indexes /\ "module" \in faults
        /\ Step(r, "search", "searchRows") /\ enabled' = "lately"
     \/ /\ TRUE \in Indexes /\ "redis" \in faults
        /\ Step(r, "search", "searchRows") /\ UNCHANGED enabled
  /\ UNCHANGED <<table, audio, redis, got>>

\* The fallback, which caches nothing.
SearchRows(r) ==
  /\ \/ Step(r, "searchRows", "done")
     \/ Step(r, "searchRows", "failed") /\ "db" \in faults
  /\ UNCHANGED <<table, audio, redis, got>>

-----------------------------------------------------------------------------
(* Creating and updating.                                                  *)

Upload(r) ==
  LET v == op[r].voice
  IN  /\ \/ Step(r, "upload", "insertRow") /\ audio' = audio \cup {v}
         \/ /\ Step(r, "upload", "failed") /\ "s3" \in faults
            /\ audio' \in {audio, audio \cup {v}}
      /\ UNCHANGED <<table, redis, got>>

InsertRow(r) ==
  LET v == op[r].voice
  IN  \/ /\ Step(r, "insertRow", "cacheVoice")
         /\ table' = [table EXCEPT ![v] = 1]
         /\ got' = [got EXCEPT ![r][v] = 1]
         /\ UNCHANGED <<audio, redis>>
      \/ /\ Step(r, "insertRow", "cleanup") /\ "db" \in faults
         /\ table' \in {table, [table EXCEPT ![v] = 1]}
         /\ UNCHANGED <<audio, redis, got>>

\* The insert failed: the uploaded audio is removed again.
Cleanup(r) ==
  /\ Step(r, "cleanup", "failed")
  /\ \/ audio' = audio \ {op[r].voice}
     \/ "s3" \in faults /\ UNCHANGED audio
  /\ UNCHANGED <<table, redis, got>>

\* UPDATE ... WHERE owner_id = user RETURNING *: no such row is "not found".
Owned(r) == table[op[r].voice] # 0 /\ Owner[op[r].voice] = op[r].user

UpdateRow(r) ==
  LET v == op[r].voice
      next == [table EXCEPT ![v] = @ + 1]
  IN  \/ /\ Step(r, "updateRow", "cacheVoice")
         /\ Owned(r) /\ table[v] < MaxVersion
         /\ table' = next
         /\ got' = [got EXCEPT ![r][v] = table[v] + 1]
         /\ UNCHANGED <<audio, redis>>
      \/ /\ Step(r, "updateRow", "failed") /\ "db" \in faults
         /\ Owned(r) /\ table[v] < MaxVersion
         /\ table' \in {table, next}
         /\ UNCHANGED <<audio, redis, got>>
      \/ /\ Step(r, "updateRow", "failed") /\ ~Owned(r)
         /\ UNCHANGED <<table, audio, redis, got>>

Without(u) == [list EXCEPT ![u] = NoList]

DropLists(r) ==
  /\ Step(r, "dropLists", "done")
  /\ list' = Without(op[r].user) \/ ("redis" \in faults /\ UNCHANGED list)
  /\ UNCHANGED <<table, audio, cache, docs, immortal, got>>

-----------------------------------------------------------------------------
(* Deleting.                                                               *)

\* Mutant: the row goes although its object stays.
DeleteAudio_GoesOn(r) ==
  /\ Step(r, "deleteAudio", "deleteRow")
  /\ audio' = audio \ {op[r].voice} \/ ("s3" \in faults /\ UNCHANGED audio)
  /\ UNCHANGED <<table, redis, got>>

DeleteAudio(r) ==
  /\ \/ /\ Step(r, "deleteAudio", "deleteRow")
        /\ audio' = audio \ {op[r].voice}
     \/ /\ Step(r, "deleteAudio", "failed") /\ "s3" \in faults
        /\ audio' \in {audio, audio \ {op[r].voice}}
  /\ UNCHANGED <<table, redis, got>>

\* Deleting a row that is gone already is no error.
DeleteRow(r) ==
  LET without == [table EXCEPT ![op[r].voice] = 0]
  IN  /\ \/ Step(r, "deleteRow", "dropVoice") /\ table' = without
         \/ Step(r, "deleteRow", "failed") /\ "db" \in faults /\ table' \in {table, without}
      /\ UNCHANGED <<audio, redis, got>>

DropVoice(r) ==
  /\ Step(r, "dropVoice", "dropDoc")
  /\ \/ /\ cache' = [cache EXCEPT ![op[r].voice] = 0]
        /\ list' = Without(op[r].user)
     \/ "redis" \in faults /\ UNCHANGED <<cache, list>>
  /\ UNCHANGED <<table, audio, docs, immortal, got>>

DropDoc(r) ==
  LET d == <<op[r].user, op[r].voice>>
  IN  /\ Step(r, "dropDoc", "done")
      /\ \/ docs' = [docs EXCEPT ![d] = 0] /\ immortal' = immortal \ {d}
         \/ "redis" \in faults /\ UNCHANGED <<docs, immortal>>
      /\ UNCHANGED <<table, audio, cache, list, got>>

-----------------------------------------------------------------------------
(* Seeding the system's voices, beside the service and past its cache.     *)

FindSystem(r) ==
  LET known == table[op[r].voice] # 0
  IN  /\ \/ Step(r, "findSystem", IF known THEN "uploadAgain" ELSE "insertSystem")
         \/ Step(r, "findSystem", "failed") /\ "db" \in faults
      /\ UNCHANGED <<table, audio, redis, got>>

InsertSystem(r) ==
  LET next == [table EXCEPT ![op[r].voice] = 1]
  IN  /\ \/ Step(r, "insertSystem", "uploadNew") /\ table' = next
         \/ Step(r, "insertSystem", "failed") /\ "db" \in faults /\ table' \in {table, next}
      /\ UNCHANGED <<audio, redis, got>>

UploadSystem(r) ==
  LET with == audio \cup {op[r].voice}
  IN  /\ \/ /\ Step(r, "uploadAgain", "updateSystem") \/ Step(r, "uploadNew", "updateSystem")
            /\ audio' = with
         \/ /\ Step(r, "uploadAgain", "failed") \/ Step(r, "uploadNew", "dropSystem")
            /\ "s3" \in faults /\ audio' \in {audio, with}
      /\ UNCHANGED <<table, redis, got>>

\* A row whose first audio could not be stored is removed; that this fails is
\* ignored.
DropSystem(r) ==
  /\ Step(r, "dropSystem", "failed")
  /\ \/ table' = [table EXCEPT ![op[r].voice] = 0]
     \/ "db" \in faults /\ UNCHANGED table
  /\ UNCHANGED <<audio, redis, got>>

UpdateSystem(r) ==
  LET next == [table EXCEPT ![op[r].voice] = @ + 1]
  IN  /\ at[r] = "updateSystem" /\ table[op[r].voice] < MaxVersion
      /\ \/ Step(r, "updateSystem", "done") /\ table' = next
         \/ Step(r, "updateSystem", "failed") /\ "db" \in faults /\ table' \in {table, next}
      /\ UNCHANGED <<audio, redis, got>>

-----------------------------------------------------------------------------
(* Redis drops an entry when its TTL has passed.                           *)

ExpireVoice(v) == /\ cache[v] # 0
                  /\ cache' = [cache EXCEPT ![v] = 0]
                  /\ UNCHANGED <<table, audio, list, docs, immortal, at, op, got>>

ExpireList(o) == /\ list[o] # NoList
                 /\ list' = Without(o)
                 /\ UNCHANGED <<table, audio, cache, docs, immortal, at, op, got>>

ExpireDoc(d) == /\ docs[d] # 0 /\ d \notin immortal
                /\ docs' = [docs EXCEPT ![d] = 0]
                /\ UNCHANGED <<table, audio, cache, list, immortal, at, op, got>>

-----------------------------------------------------------------------------
NoOp == [kind |-> "none", voice |-> NoVoice, user |-> SystemUser]

Init == /\ table = [v \in Voices |-> IF v \in Existing THEN 1 ELSE 0]
        /\ audio = Existing
        /\ cache = NoRows
        /\ list = [o \in Tags |-> NoList]
        /\ docs = [d \in Docs |-> 0]
        /\ immortal = {}
        /\ at = [r \in Requests |-> "new"]
        /\ op = [r \in Requests |-> NoOp]
        /\ got = [r \in Requests |-> NoRows]
        /\ faults \in FaultSets
        /\ enabled = "yes" \/ ("module" \in faults /\ enabled = "no")
        /\ serial = TRUE

Serves(r) ==
  \/ ReadCache(r) \/ ReadRow(r) \/ CacheVoice(r) \/ PutDoc(r)
  \/ ReadList(r) \/ ReadRows(r) \/ SetList(r) \/ IndexRows(r) \/ SearchRows(r)
  \/ Upload(r) \/ InsertRow(r) \/ Cleanup(r) \/ UpdateRow(r) \/ DropLists(r)
  \/ DeleteAudio(r) \/ DeleteRow(r) \/ DropVoice(r) \/ DropDoc(r)
  \/ FindSystem(r) \/ InsertSystem(r) \/ UploadSystem(r) \/ DropSystem(r) \/ UpdateSystem(r)

Serve(r) == Search(r) \/ (Serves(r) /\ UNCHANGED enabled)

Begins(r) == \/ \E kind \in AllKinds, v \in Voices, u \in Users : BeginVoice(r, kind, v, u)
             \/ \E kind \in AllKinds, o \in Tags : BeginList(r, kind, o)
             \/ \E v \in Voices : BeginSeed(r, v)

Expire == \/ \E v \in Voices : ExpireVoice(v)
          \/ \E o \in Tags : ExpireList(o)
          \/ \E d \in Docs : ExpireDoc(d)

Call == \/ \E r \in Requests : Serve(r) \/ ((Begins(r) \/ Crash(r)) /\ UNCHANGED enabled)
        \/ Expire /\ UNCHANGED enabled

\* A write Redis never hears of: its request fails all the same, or it is the
\* seeding script's.
Unreported == table' # table /\ \E r \in Requests :
  at'[r] # at[r] /\ (at'[r] \in {"failed", "cleanup"} \/ op[r].kind = "seed")

Watch == /\ serial' = (serial /\ Cardinality(Active') <= 1 /\ ~Unreported)
         /\ UNCHANGED faults

Next == Call /\ Watch

Spec == Init /\ [][Next]_vars

\* A request that was begun is served, and a TTL runs out.
Fairness == /\ \A r \in Requests : WF_vars(Serve(r) /\ Watch)
            /\ \A v \in Voices : WF_vars(ExpireVoice(v) /\ UNCHANGED enabled /\ Watch)
            /\ \A o \in Tags : WF_vars(ExpireList(o) /\ UNCHANGED enabled /\ Watch)
            /\ \A d \in Docs : WF_vars(ExpireDoc(d) /\ UNCHANGED enabled /\ Watch)

FairSpec == Spec /\ Fairness

-----------------------------------------------------------------------------
(* Properties.                                                             *)

Places == {"new", "readCache", "readRow", "cacheVoice", "putDoc", "readList", "readRows",
           "setList", "indexRows", "upload", "insertRow", "cleanup", "updateRow",
           "dropLists", "deleteAudio", "deleteRow", "dropVoice", "dropDoc",
           "findSystem", "insertSystem", "uploadNew", "uploadAgain", "dropSystem",
           "updateSystem", "search", "searchRows"}

\* Types; what a request is about to put into Redis is a row it has read.
TypeOK == /\ table \in Rows
          /\ audio \subseteq Voices
          /\ cache \in Rows
          /\ list \in [Tags -> Rows \cup {NoList}]
          /\ docs \in [Docs -> 0..MaxVersion]
          /\ immortal \subseteq Docs
          /\ at \in [Requests -> Places \cup Ended]
          /\ op \in [Requests -> Ops \cup {NoOp}]
          /\ got \in [Requests -> Rows]
          /\ enabled \in {"yes", "lately", "no"} /\ faults \in FaultSets /\ serial \in BOOLEAN
          /\ \A r \in Requests : at[r] \in {"cacheVoice", "putDoc"} =>
                                  op[r].voice \in Voices /\ got[r][op[r].voice] # 0

\* No audio outlives its row: an object without a row belongs to a create
\* that has not inserted its row, or to a create or a seeding that failed.
\* Deletes that fail half way, or race one another, leave none
\* (voice_service.go:139-158, seed-system-voices.go:147-150).
NoOrphanAudio == \A v \in audio : table[v] = 0 =>
  \E r \in Requests : /\ op[r].kind \in {"create", "seed"} /\ op[r].voice = v
                      /\ at[r] \in {"insertRow", "cleanup", "failed"}

\* A document carries its owner's tag, so no search shows a voice to another
\* user or under two tags (cached_voice_repo.go:128-135).
DocsCarryOwner == \A d \in Docs : docs[d] # 0 => d[1] = Owner[d[2]]

\* What Redis holds of the catalog agrees with the rows.
VoicesInSync == \A v \in Voices : cache[v] \in {0, table[v]}
ListsInSync  == \A o \in Tags : list[o] \in {NoList, RowsOf(o)}
DocsInSync   == \A d \in Docs : docs[d] # 0 => docs[d] = table[d[2]]
InSync       == VoicesInSync /\ ListsInSync /\ DocsInSync

\* Every Redis command that is known is carried out, and no process stops.
RedisReliable == faults \subseteq {"db", "s3", "module"}

\* Requests served one at a time leave Redis agreeing with the rows, documents
\* included as long as they are searched, in every order of requests and
\* expiries, although S3 calls and statements may fail
\* (cached_voice_repo.go:85-150, 293-299).
SerialInSync == (RedisReliable /\ serial /\ Active = {}) =>
                  VoicesInSync /\ ListsInSync /\ (enabled = "yes" => DocsInSync)

\* However requests and the seeding script raced, and whatever the database and
\* S3 answered, every stale entry runs out: Redis agrees with the rows again, for good.  Without
\* its EXPIRE a document would stay (cached_voice_repo.go:412, 435).
StaleEntriesDie == RedisReliable => <>[]InSync

\* From the moment a create is answered a list read includes its voice
\* (cached_voice_repo.go:293).
ListsIncludeCreated ==
  \A r \in Requests : (op[r].kind = "create" /\ at[r] = "done") =>
    \/ list[op[r].user] = NoList
    \/ list[op[r].user][op[r].voice] # 0

-----------------------------------------------------------------------------
(* The inductive invariant.                                                *)

\* What a request asks for is what clients, or the script, may ask for.
OpInv == \A r \in Requests :
  LET o == op[r]
  IN  /\ o.kind \in {"playback", "update", "delete"} => o.voice \in Voices /\ o.user \in Users
      /\ o.kind = "create" => /\ o.voice \in Voices \ Existing /\ o.user \in Users
                              /\ Owner[o.voice] = o.user
      /\ o.kind = "seed" => o.voice \in Voices /\ Owner[o.voice] = SystemUser
      /\ o.kind \in {"list", "search"} => o.user \in Tags

\* The calls a request of a kind makes.
PlacesOf(kind) ==
  CASE kind = "playback" -> {"readRow", "cacheVoice", "putDoc"}
    [] kind = "list"     -> {"readList", "readRows", "setList", "indexRows"}
    [] kind = "create"   -> {"upload", "insertRow", "cleanup", "cacheVoice", "putDoc", "dropLists"}
    [] kind = "update"   -> {"updateRow", "cacheVoice", "putDoc", "dropLists"}
    [] kind = "delete"   -> {"readCache", "readRow", "cacheVoice", "putDoc", "deleteAudio",
                             "deleteRow", "dropVoice", "dropDoc"}
    [] kind = "seed"     -> {"findSystem", "insertSystem", "uploadNew", "uploadAgain",
                             "dropSystem", "updateSystem"}
    [] kind = "search"   -> {"search", "searchRows"}
    [] OTHER             -> {}

PlaceInv == \A r \in Requests : at[r] \in {"new"} \cup Ended \cup PlacesOf(op[r].kind)

\* No two creates are given one id, and one script runs at a time.
UniqueInv == \A r, q \in Requests : r # q =>
  /\ ~(op[r].kind = "create" /\ op[q].kind = "create" /\ op[r].voice = op[q].voice)
  /\ ~(op[r].kind = "seed" /\ op[q].kind = "seed" /\ r \in Active /\ q \in Active)

\* A voice that no create has inserted is nowhere, and no request works on it.
Unborn(v) == /\ table[v] = 0 /\ cache[v] = 0
             /\ \A r \in Requests : op[r].voice = v =>
                  at[r] \notin {"cacheVoice", "putDoc", "deleteAudio", "deleteRow"}

BirthInv == \A v \in Voices :
  \/ v \in Existing \/ Owner[v] = SystemUser \/ Unborn(v)
  \/ \E r \in Requests : /\ op[r].kind = "create" /\ op[r].voice = v
                         /\ at[r] \notin {"new", "upload", "insertRow"}

\* What a request on its way to remove or replace audio relies on.
AudioInv == \A r \in Requests :
  /\ op[r].kind = "delete" /\ at[r] \in {"cacheVoice", "putDoc", "deleteAudio", "deleteRow"}
       => Owner[op[r].voice] = op[r].user
  /\ at[r] = "deleteRow" => op[r].voice \notin audio
  /\ at[r] \in {"uploadNew", "uploadAgain", "dropSystem", "updateSystem"}
       => table[op[r].voice] # 0

\* The rows a list read has found are those of the owner it names.
RowsInv == \A r \in Requests : at[r] \in {"setList", "indexRows"} =>
  \A v \in Voices : got[r][v] # 0 => Owner[v] = op[r].user

IInv == /\ TypeOK /\ OpInv /\ PlaceInv /\ UniqueInv /\ BirthInv /\ AudioInv /\ RowsInv
        /\ NoOrphanAudio /\ DocsCarryOwner
=============================================================================
