-------------------------- MODULE VoiceCatalogProofs --------------------------
(***************************************************************************)
(* The safety properties of VoiceCatalog for any number of users, voices   *)
(* and requests, any set of faults and any bounds.                         *)
(*                                                                         *)
(* What one call of a request does is said once: where it leads (Moves),   *)
(* and how rows, audio, cached voices and documents come and go (ServeRows *)
(* to ServeDocs).  Each part of IInv is proved from these.  SyncInv, of    *)
(* requests that are served one at a time, comes after.                    *)
(***************************************************************************)
EXTENDS VoiceCatalog, FiniteSetTheorems, TLAPS

USE CatalogAssumption DEF CatalogAssumption

-----------------------------------------------------------------------------
(* Types.                                                                  *)

\* Rows stay rows when a voice's version is set, or goes up by one.
LEMMA RowTypes ==
  /\ NoRows \in Rows
  /\ TypeOK => \A o \in Tags : RowsOf(o) \in Rows
  /\ \A f \in Rows, v \in Voices : f[v] \in 0..MaxVersion
  /\ \A f \in Rows, v \in Voices, n \in 0..MaxVersion : [f EXCEPT ![v] = n] \in Rows
  /\ \A f \in Rows, v \in Voices :
       f[v] < MaxVersion => f[v] + 1 \in 0..MaxVersion /\ [f EXCEPT ![v] = @ + 1] \in Rows
  BY DEF NoRows, Rows, TypeOK, RowsOf

\* Reading one voice's row keeps the type of what requests have read.
LEMMA GotTypes ==
  ASSUME NEW g \in [Requests -> Rows], NEW r \in Requests,
         NEW v \in Voices, NEW n \in 0..MaxVersion
  PROVE  [g EXCEPT ![r][v] = n] \in [Requests -> Rows]
  <1>1. g[r] \in Rows
    OBVIOUS
  <1>2. [g[r] EXCEPT ![v] = n] \in Rows
    BY <1>1, RowTypes
  <1> QED
    BY <1>2

\* Writing documents keeps their type.
LEMMA DocTypes ==
  ASSUME TypeOK, NEW r \in Requests, NEW D \in SUBSET Docs, NEW last \in SUBSET D,
         HSetDocs(r, D, last)
  PROVE  docs' \in [Docs -> 0..MaxVersion] /\ immortal' \subseteq Docs
  <1>1. ASSUME NEW d \in Docs PROVE got[r][d[2]] \in 0..MaxVersion /\ docs[d] \in 0..MaxVersion
    BY RowTypes DEF TypeOK, Docs
  <1> QED
    BY <1>1 DEF HSetDocs, TypeOK

\* The places a call may lead to, and that it moves its request only.
LEMMA ServeFrame ==
  ASSUME TypeOK, NEW r \in Requests, Serve(r)
  PROVE  /\ op' = op
         /\ at' \in [Requests -> Places \cup Ended]
         /\ \A q \in Requests \ {r} : at'[q] = at[q] /\ got'[q] = got[q]
         /\ at[r] \notin Ended \cup {"new"} /\ at'[r] \notin {"new", at[r]}
  <1> USE DEF TypeOK, Places, Ended, Step
  <1>1. CASE Serves(r)
    BY <1>1 DEF Serves, ReadCache, ReadRow, CacheVoice, PutDoc, ReadList, ReadRows, SetList,
      IndexRows, SearchRows, Upload, InsertRow, Cleanup, UpdateRow, DropLists, DeleteAudio,
      DeleteRow, DropVoice, DropDoc, FindSystem, InsertSystem, UploadSystem, DropSystem,
      UpdateSystem, AfterDoc
  <1>2. CASE Search(r)
    BY <1>2 DEF Search
  <1> QED
    BY <1>1, <1>2 DEF Serve

\* What a request's place says of what it asks for.
VoicePlaces == Places \ {"new", "readList", "readRows", "setList", "indexRows",
                         "search", "searchRows"}

\* A request is only at places of its kind, with a voice or a user to ask for.
LEMMA PlaceFacts ==
  ASSUME TypeOK, OpInv, PlaceInv, NEW r \in Requests
  PROVE  LET p == at[r]
             k == op[r].kind
         IN  /\ p \in VoicePlaces => op[r].voice \in Voices
             /\ p \in {"readList", "readRows", "setList", "indexRows", "search", "searchRows"}
                  => op[r].user \in Tags
             /\ p \in {"readCache", "deleteAudio", "deleteRow", "dropVoice", "dropDoc"}
                  => k = "delete"
             /\ p \in {"upload", "insertRow", "cleanup"} => k = "create"
             /\ p = "updateRow" => k = "update"
             /\ p = "readRow" => k \in {"playback", "delete"}
             /\ p \in {"cacheVoice", "putDoc"} => k \in {"playback", "create", "update", "delete"}
             /\ p = "dropLists" => k \in {"create", "update"}
             /\ p \in {"findSystem", "insertSystem", "uploadNew", "uploadAgain", "dropSystem",
                        "updateSystem"} => k = "seed"
             /\ p \in {"readList", "readRows", "setList", "indexRows"} => k = "list"
             /\ p \in {"search", "searchRows"} => k = "search"
  <1>1. /\ op[r].kind \in AllKinds \cup {"none"}
        /\ at[r] \in {"new"} \cup Ended \cup PlacesOf(op[r].kind)
    BY DEF TypeOK, Ops, NoOp, PlaceInv
  <1>2. at[r] \in Places \cup Ended
    BY DEF TypeOK
  <1> QED
    BY <1>1, <1>2 DEF OpInv, PlacesOf, AllKinds, Places, Ended, VoicePlaces, Tags

\* Every variable a call changes keeps its type.
LEMMA ServeTypes ==
  ASSUME TypeOK, OpInv, PlaceInv, NEW r \in Requests, Serve(r)
  PROVE  /\ table' \in Rows /\ audio' \subseteq Voices /\ cache' \in Rows
         /\ list' \in [Tags -> Rows \cup {NoList}] /\ docs' \in [Docs -> 0..MaxVersion]
         /\ immortal' \subseteq Docs /\ got' \in [Requests -> Rows]
  <1> DEFINE v == op[r].voice
  <1>1. /\ table \in Rows /\ audio \subseteq Voices /\ cache \in Rows
        /\ list \in [Tags -> Rows \cup {NoList}] /\ docs \in [Docs -> 0..MaxVersion]
        /\ immortal \subseteq Docs /\ got \in [Requests -> Rows]
    BY DEF TypeOK
  <1>2. /\ at[r] \in VoicePlaces => v \in Voices
        /\ at[r] \in {"readList", "readRows", "setList", "indexRows"} => op[r].user \in Tags
    BY PlaceFacts
  <1>3. CASE ReadCache(r)
    <2>1. v \in Voices /\ cache[v] \in 0..MaxVersion
      BY <1>1, <1>2, <1>3, RowTypes DEF ReadCache, Step, VoicePlaces, Places
    <2>2. [got EXCEPT ![r][v] = cache[v]] \in [Requests -> Rows]
      BY <1>1, <2>1, GotTypes
    <2> QED
      BY <1>1, <1>3, <2>2 DEF ReadCache, Step, redis
  <1>4. CASE ReadRow(r)
    <2>1. v \in Voices /\ table[v] \in 0..MaxVersion
      BY <1>1, <1>2, <1>4, RowTypes DEF ReadRow, Step, VoicePlaces, Places
    <2>2. [got EXCEPT ![r][v] = table[v]] \in [Requests -> Rows]
      BY <1>1, <2>1, GotTypes
    <2> QED
      BY <1>1, <1>4, <2>2 DEF ReadRow, Step, redis
  <1>5. CASE CacheVoice(r)
    BY <1>1, <1>2, <1>5, RowTypes DEF CacheVoice, Step, VoicePlaces, Places, redis
  <1>6. CASE PutDoc(r)
    <2>1. v \in Voices
      BY <1>2, <1>6 DEF PutDoc, Step, VoicePlaces, Places
    <2>2. {DocOf(r)} \subseteq Docs
      BY <2>1 DEF DocOf, Docs
    <2>3. docs' \in [Docs -> 0..MaxVersion] /\ immortal' \subseteq Docs
      <3>1. CASE UNCHANGED <<docs, immortal>>
        BY <1>1, <3>1
      <3>2. ASSUME NEW last \in SUBSET {DocOf(r)}, HSetDocs(r, {DocOf(r)}, last)
            PROVE  docs' \in [Docs -> 0..MaxVersion] /\ immortal' \subseteq Docs
        BY <2>2, <3>2, DocTypes
      <3> QED
        BY <1>6, <3>1, <3>2 DEF PutDoc, PutDocs
    <2> QED
      BY <1>1, <1>6, <2>3 DEF PutDoc
  <1>7. CASE ReadList(r)
    BY <1>1, <1>2, <1>7, RowTypes DEF ReadList, Step, VoicePlaces, Places, redis, NoList
  <1>8. CASE ReadRows(r)
    BY <1>1, <1>2, <1>8, RowTypes DEF ReadRows, Step, VoicePlaces, Places, redis
  <1>9. CASE SetList(r)
    BY <1>1, <1>2, <1>9, RowTypes DEF SetList, Step, VoicePlaces, Places, redis, Tags
  <1>10. CASE IndexRows(r)
    <2>1. op[r].user \in Tags
      BY <1>2, <1>10 DEF IndexRows, Step
    <2>2. RowDocs(r) \subseteq Docs
      BY <2>1 DEF RowDocs, Docs
    <2>3. ASSUME NEW D \in SUBSET RowDocs(r), NEW last \in SUBSET D, HSetDocs(r, D, last)
          PROVE  docs' \in [Docs -> 0..MaxVersion] /\ immortal' \subseteq Docs
      BY <2>2, <2>3, DocTypes
    <2>4. docs' \in [Docs -> 0..MaxVersion] /\ immortal' \subseteq Docs
      BY <1>10, <2>3 DEF IndexRows, PutDocs
    <2> QED
      BY <1>1, <1>10, <2>4 DEF IndexRows
  <1>11. CASE Upload(r)
    BY <1>1, <1>2, <1>11, RowTypes DEF Upload, Step, VoicePlaces, Places, redis
  <1>12. CASE InsertRow(r)
    <2>1. v \in Voices /\ 1 \in 0..MaxVersion
      BY <1>2, <1>12 DEF InsertRow, Step, VoicePlaces, Places
    <2>2. [got EXCEPT ![r][v] = 1] \in [Requests -> Rows] /\ [table EXCEPT ![v] = 1] \in Rows
      BY <1>1, <2>1, GotTypes, RowTypes
    <2> QED
      BY <1>1, <1>12, <2>2 DEF InsertRow, Step, redis
  <1>13. CASE Cleanup(r)
    BY <1>1, <1>2, <1>13, RowTypes DEF Cleanup, Step, VoicePlaces, Places, redis
  <1>14. CASE UpdateRow(r)
    <2>1. /\ v \in Voices
          /\ table[v] < MaxVersion => /\ table[v] + 1 \in 0..MaxVersion
                                     /\ [table EXCEPT ![v] = @ + 1] \in Rows
      BY <1>1, <1>2, <1>14, RowTypes DEF UpdateRow, Step, VoicePlaces, Places
    <2>2. table[v] < MaxVersion => [got EXCEPT ![r][v] = table[v] + 1] \in [Requests -> Rows]
      BY <1>1, <2>1, GotTypes
    <2> QED
      BY <1>1, <1>14, <2>1, <2>2 DEF UpdateRow, Step, redis
  <1>15. CASE DropLists(r)
    BY <1>1, <1>2, <1>15, RowTypes DEF DropLists, Step, VoicePlaces, Places, redis, Without
  <1>16. CASE DeleteAudio(r)
    BY <1>1, <1>2, <1>16, RowTypes DEF DeleteAudio, Step, VoicePlaces, Places, redis
  <1>17. CASE DeleteRow(r)
    BY <1>1, <1>2, <1>17, RowTypes DEF DeleteRow, Step, VoicePlaces, Places, redis
  <1>18. CASE DropVoice(r)
    BY <1>1, <1>2, <1>18, RowTypes DEF DropVoice, Step, VoicePlaces, Places, redis, Without
  <1>19. CASE DropDoc(r)
    <2>1. docs \in [Docs -> 0..MaxVersion] /\ 0 \in 0..MaxVersion
      BY <1>1
    <2>2. ASSUME NEW d PROVE [docs EXCEPT ![d] = 0] \in [Docs -> 0..MaxVersion]
      BY ONLY <2>1
    <2> QED
      BY <1>1, <1>19, <2>2 DEF DropDoc, Step
  <1>20. CASE InsertSystem(r)
    BY <1>1, <1>2, <1>20, RowTypes DEF InsertSystem, Step, VoicePlaces, Places, redis
  <1>21. CASE UploadSystem(r)
    BY <1>1, <1>2, <1>21, RowTypes DEF UploadSystem, Step, VoicePlaces, Places, redis
  <1>22. CASE DropSystem(r)
    BY <1>1, <1>2, <1>22, RowTypes DEF DropSystem, Step, VoicePlaces, Places, redis
  <1>23. CASE UpdateSystem(r)
    <2>1. v \in Voices
      BY <1>2, <1>23 DEF UpdateSystem, Step, VoicePlaces, Places
    <2>2. [table EXCEPT ![v] = @ + 1] \in Rows
      BY <1>1, <1>23, <2>1, RowTypes DEF UpdateSystem
    <2> QED
      BY <1>1, <1>23, <2>2 DEF UpdateSystem, Step, redis
  <1>24. CASE Search(r) \/ SearchRows(r) \/ FindSystem(r)
    BY <1>1, <1>24 DEF Search, SearchRows, FindSystem, redis
  <1> QED
    BY <1>3, <1>4, <1>5, <1>6, <1>7, <1>8, <1>9, <1>10, <1>11, <1>12, <1>13, <1>14, <1>15,
      <1>16, <1>17, <1>18, <1>19, <1>20, <1>21, <1>22, <1>23, <1>24 DEF Serve, Serves

-----------------------------------------------------------------------------
(* What one call of a request does.                                        *)

\* Where a call leads, and what it has found or done by then.
Moves(r) ==
  LET p == at[r]
      n == at'[r]
      v == op[r].voice
  IN  /\ n \notin {"new", "upload", "updateRow", "readCache", "readList", "findSystem", "search"}
      /\ n = "readRow" => p = "readCache"
      /\ n = "cacheVoice" => \/ p = "readRow" /\ Readable(r) /\ got'[r][v] = table[v]
                             \/ p = "insertRow" /\ table'[v] = 1 /\ got'[r][v] = 1
                             \/ /\ p = "updateRow" /\ table[v] # 0 /\ Owner[v] = op[r].user
                                /\ table'[v] = table[v] + 1 /\ got'[r][v] = table[v] + 1
      /\ n = "putDoc" => p = "cacheVoice" /\ got' = got
      /\ n = "deleteAudio" => \/ p = "readCache" /\ Owner[v] = op[r].user /\ cache[v] # 0
                              \/ p \in {"cacheVoice", "putDoc"} /\ op[r].kind = "delete"
      /\ n = "deleteRow" => p = "deleteAudio" /\ v \notin audio'
      /\ n = "dropVoice" => p = "deleteRow"
      /\ n = "dropDoc" => p = "dropVoice"
      /\ n = "readRows" => p = "readList"
      /\ n = "setList" => p = "readRows" /\ got'[r] = RowsOf(op[r].user)
      /\ n = "indexRows" => p = "setList" /\ got' = got
      /\ n = "insertRow" => p = "upload"
      /\ n = "cleanup" => p = "insertRow"
      /\ n = "dropLists" => p \in {"cacheVoice", "putDoc"} /\ op[r].kind \notin {"playback", "delete"}
      /\ n = "insertSystem" => p = "findSystem"
      /\ n = "uploadNew" => p = "insertSystem" /\ table'[v] = 1
      /\ n = "uploadAgain" => p = "findSystem" /\ table[v] # 0 /\ table' = table
      /\ n = "dropSystem" => p = "uploadNew" /\ table' = table
      /\ n = "updateSystem" => p \in {"uploadNew", "uploadAgain"} /\ table' = table
      /\ n = "searchRows" => p = "search"
      /\ p = "upload" => n \in {"insertRow", "failed"}
      /\ p = "insertRow" => n \in {"cacheVoice", "cleanup"}
      /\ p \in {"cleanup", "dropSystem"} => n = "failed"

\* Every call leads where Moves says.
LEMMA ServeMoves ==
  ASSUME TypeOK, OpInv, PlaceInv, NEW r \in Requests, Serve(r)
  PROVE  Moves(r)
  <1> DEFINE v == op[r].voice
  <1>1. /\ table \in Rows /\ got \in [Requests -> Rows] /\ at \in [Requests -> Places \cup Ended]
        /\ at[r] \in VoicePlaces => v \in Voices
    BY PlaceFacts DEF TypeOK
  <1>2. CASE ReadCache(r)
    BY <1>1, <1>2 DEF ReadCache, Step, Moves
  <1>3. CASE ReadRow(r)
    <2>1. v \in Voices
      BY <1>1, <1>3 DEF ReadRow, Step, VoicePlaces, Places
    <2> QED
      BY <1>1, <1>3, <2>1 DEF ReadRow, Step, Moves, Rows
  <1>4. CASE CacheVoice(r)
    BY <1>1, <1>4 DEF CacheVoice, Step, Moves, AfterDoc
  <1>5. CASE PutDoc(r)
    BY <1>1, <1>5 DEF PutDoc, Step, Moves, AfterDoc
  <1>6. CASE ReadList(r)
    BY <1>1, <1>6 DEF ReadList, Step, Moves
  <1>7. CASE ReadRows(r)
    BY <1>1, <1>7 DEF ReadRows, Step, Moves
  <1>8. CASE SetList(r)
    BY <1>1, <1>8 DEF SetList, Step, Moves
  <1>9. CASE IndexRows(r)
    BY <1>1, <1>9 DEF IndexRows, Step, Moves
  <1>10. CASE Upload(r)
    BY <1>1, <1>10 DEF Upload, Step, Moves
  <1>11. CASE InsertRow(r)
    <2>1. v \in Voices
      BY <1>1, <1>11 DEF InsertRow, Step, VoicePlaces, Places
    <2> QED
      BY <1>1, <1>11, <2>1 DEF InsertRow, Step, Moves, Rows
  <1>12. CASE Cleanup(r)
    BY <1>1, <1>12 DEF Cleanup, Step, Moves
  <1>13. CASE UpdateRow(r)
    <2>1. v \in Voices
      BY <1>1, <1>13 DEF UpdateRow, Step, VoicePlaces, Places
    <2> QED
      BY <1>1, <1>13, <2>1 DEF UpdateRow, Step, Moves, Rows, Owned
  <1>14. CASE DropLists(r)
    BY <1>1, <1>14 DEF DropLists, Step, Moves
  <1>15. CASE DeleteAudio(r)
    BY <1>1, <1>15 DEF DeleteAudio, Step, Moves
  <1>16. CASE DeleteRow(r)
    BY <1>1, <1>16 DEF DeleteRow, Step, Moves
  <1>17. CASE DropVoice(r)
    BY <1>1, <1>17 DEF DropVoice, Step, Moves
  <1>18. CASE DropDoc(r)
    BY <1>1, <1>18 DEF DropDoc, Step, Moves
  <1>19. CASE FindSystem(r)
    BY <1>1, <1>19 DEF FindSystem, Step, Moves
  <1>20. CASE InsertSystem(r)
    <2>1. v \in Voices
      BY <1>1, <1>20 DEF InsertSystem, Step, VoicePlaces, Places
    <2> QED
      BY <1>1, <1>20, <2>1 DEF InsertSystem, Step, Moves, Rows
  <1>21. CASE UploadSystem(r)
    BY <1>1, <1>21 DEF UploadSystem, Step, Moves
  <1>22. CASE DropSystem(r)
    BY <1>1, <1>22 DEF DropSystem, Step, Moves
  <1>23. CASE UpdateSystem(r)
    BY <1>1, <1>23 DEF UpdateSystem, Step, Moves
  <1>24. CASE Search(r) \/ SearchRows(r)
    BY <1>1, <1>24 DEF Search, SearchRows, Step, Moves
  <1> QED
    BY <1>2, <1>3, <1>4, <1>5, <1>6, <1>7, <1>8, <1>9, <1>10, <1>11, <1>12, <1>13, <1>14,
      <1>15, <1>16, <1>17, <1>18, <1>19, <1>20, <1>21, <1>22, <1>23, <1>24 DEF Serve, Serves

\* A row comes by an insert, or the script's update, and goes by a delete, or
\* the script's removal, of the request's own voice.
LEMMA ServeRows ==
  ASSUME TypeOK, OpInv, PlaceInv, NEW r \in Requests, Serve(r), NEW w \in Voices
  PROVE  /\ table[w] # 0 /\ table'[w] = 0
              => w = op[r].voice /\ at[r] \in {"deleteRow", "dropSystem"}
         /\ table[w] = 0 /\ table'[w] # 0
              => w = op[r].voice /\ at[r] \in {"insertRow", "insertSystem", "updateSystem"}
  <1> DEFINE v == op[r].voice
  <1>1. table \in Rows /\ (at[r] \in VoicePlaces => v \in Voices)
    BY PlaceFacts DEF TypeOK
  <1>2. CASE InsertRow(r)
    BY <1>1, <1>2 DEF InsertRow, Step, Rows
  <1>3. CASE UpdateRow(r)
    BY <1>1, <1>3 DEF UpdateRow, Step, Rows, Owned
  <1>4. CASE DeleteRow(r)
    BY <1>1, <1>4 DEF DeleteRow, Step, Rows
  <1>5. CASE InsertSystem(r)
    BY <1>1, <1>5 DEF InsertSystem, Step, Rows
  <1>6. CASE DropSystem(r)
    BY <1>1, <1>6 DEF DropSystem, Step, Rows
  <1>7. CASE UpdateSystem(r)
    <2>1. \A n \in 0..MaxVersion : n + 1 # 0
      OBVIOUS
    <2> QED
      BY <1>1, <1>7, <2>1 DEF UpdateSystem, Step, Rows
  <1>8. CASE UNCHANGED table
    BY <1>8
  <1> QED
    BY <1>2, <1>3, <1>4, <1>5, <1>6, <1>7, <1>8 DEF Serve, Serves, ReadCache, ReadRow, CacheVoice,
      PutDoc, ReadList, ReadRows, SetList, IndexRows, SearchRows, Upload, Cleanup, DropLists,
      DeleteAudio, DropVoice, DropDoc, FindSystem, UploadSystem, Search

\* Audio comes by an upload of the request's own voice.
LEMMA ServeAudio ==
  ASSUME NEW r \in Requests, Serve(r), NEW w \in audio', w \notin audio
  PROVE  w = op[r].voice /\ at[r] \in {"upload", "uploadNew", "uploadAgain"}
  <1>1. CASE Upload(r)
    BY <1>1 DEF Upload, Step
  <1>2. CASE UploadSystem(r)
    BY <1>2 DEF UploadSystem, Step
  <1>3. CASE audio' \subseteq audio
    BY <1>3
  <1> QED
    BY <1>1, <1>2, <1>3 DEF Serve, Serves, ReadCache, ReadRow, CacheVoice, PutDoc, ReadList,
      ReadRows, SetList, IndexRows, SearchRows, InsertRow, Cleanup, UpdateRow, DropLists,
      DeleteAudio, DeleteRow, DropVoice, DropDoc, FindSystem, InsertSystem, DropSystem,
      UpdateSystem, Search

\* A voice is cached by the request that has read it.
LEMMA ServeCache ==
  ASSUME TypeOK, NEW r \in Requests, Serve(r), NEW w \in Voices, cache[w] = 0, cache'[w] # 0
  PROVE  w = op[r].voice /\ at[r] = "cacheVoice"
  <1>1. cache \in Rows
    BY DEF TypeOK
  <1>2. CASE CacheVoice(r)
    BY <1>1, <1>2 DEF CacheVoice, Step, Rows
  <1>3. CASE DropVoice(r)
    BY <1>1, <1>3 DEF DropVoice, Step, Rows
  <1>4. CASE UNCHANGED cache
    BY <1>4
  <1> QED
    BY <1>2, <1>3, <1>4 DEF Serve, Serves, ReadCache, ReadRow, PutDoc, ReadList, redis,
      ReadRows, SetList, IndexRows, SearchRows, Upload, InsertRow, Cleanup, UpdateRow, DropLists,
      DeleteAudio, DeleteRow, DropDoc, FindSystem, InsertSystem, UploadSystem, DropSystem,
      UpdateSystem, Search

\* A document is written for a voice the request has read, under its owner's
\* tag or under the tag of the listed rows' owner.
LEMMA ServeDocs ==
  ASSUME TypeOK, NEW r \in Requests, Serve(r), NEW d \in Docs, docs[d] = 0, docs'[d] # 0
  PROVE  \/ d = DocOf(r)
         \/ at[r] = "indexRows" /\ d \in RowDocs(r)
  <1>1. docs \in [Docs -> 0..MaxVersion]
    BY DEF TypeOK
  <1>2. ASSUME NEW D, NEW last, HSetDocs(r, D, last)
        PROVE  d \in D
    BY <1>2 DEF HSetDocs
  <1>3. CASE PutDoc(r)
    BY <1>2, <1>3 DEF PutDoc, PutDocs
  <1>4. CASE IndexRows(r)
    BY <1>2, <1>4 DEF IndexRows, PutDocs, Step
  <1>5. CASE DropDoc(r)
    BY <1>1, <1>5 DEF DropDoc
  <1>6. CASE UNCHANGED docs
    BY <1>6
  <1> QED
    BY <1>3, <1>4, <1>5, <1>6 DEF Serve, Serves, ReadCache, ReadRow, CacheVoice, ReadList, redis,
      ReadRows, SetList, SearchRows, Upload, InsertRow, Cleanup, UpdateRow, DropLists,
      DeleteAudio, DeleteRow, DropVoice, FindSystem, InsertSystem, UploadSystem, DropSystem,
      UpdateSystem, Search

-----------------------------------------------------------------------------
(* A call of a request keeps the invariant, one part at a time.            *)

\* Types, and that what goes into Redis is a row that was read.
LEMMA ServeTypeOK ==
  ASSUME TypeOK, OpInv, PlaceInv, NEW r \in Requests, Serve(r), Watch
  PROVE  TypeOK'
  <1> DEFINE v == op[r].voice
  <1>1. /\ table' \in Rows /\ audio' \subseteq Voices /\ cache' \in Rows
        /\ list' \in [Tags -> Rows \cup {NoList}] /\ docs' \in [Docs -> 0..MaxVersion]
        /\ immortal' \subseteq Docs /\ got' \in [Requests -> Rows]
    BY ServeTypes
  <1>2. /\ op' = op /\ at' \in [Requests -> Places \cup Ended]
        /\ \A q \in Requests \ {r} : at'[q] = at[q] /\ got'[q] = got[q]
    BY ServeFrame
  <1>3. enabled' \in {"yes", "lately", "no"}
    BY DEF Serve, Search, TypeOK
  <1>4. faults' \in FaultSets /\ serial' \in BOOLEAN
    BY DEF Watch, TypeOK
  <1>5. ASSUME at'[r] \in {"cacheVoice", "putDoc"}
        PROVE  v \in Voices /\ got'[r][v] # 0
    <2>1. at[r] \in {"readRow", "insertRow", "updateRow", "cacheVoice"} => v \in Voices
      BY PlaceFacts DEF VoicePlaces, Places
    <2>2. Moves(r)
      BY ServeMoves
    <2>3. CASE at'[r] = "cacheVoice"
      <3>1. v \in Voices
        BY <2>1, <2>2, <2>3 DEF Moves
      <3>2. table[v] \in Nat
        BY <3>1, RowTypes DEF TypeOK
      <3> QED
        BY <2>2, <2>3, <3>1, <3>2 DEF Moves, Readable
    <2>4. CASE at'[r] = "putDoc"
      BY <2>1, <2>2, <2>4 DEF Moves, TypeOK
    <2> QED
      BY <1>5, <2>3, <2>4
  <1>6. ASSUME NEW q \in Requests, at'[q] \in {"cacheVoice", "putDoc"}
        PROVE  op'[q].voice \in Voices /\ got'[q][op'[q].voice] # 0
    <2>1. CASE q = r
      BY <1>2, <1>5, <1>6, <2>1
    <2>2. CASE q # r
      BY <1>2, <1>6, <2>2 DEF TypeOK
    <2> QED
      BY <2>1, <2>2
  <1>7. op' \in [Requests -> Ops \cup {NoOp}]
    BY <1>2 DEF TypeOK
  <1> QED
    BY <1>1, <1>2, <1>3, <1>4, <1>6, <1>7 DEF TypeOK

\* A request stays among the calls of its kind.
LEMMA ServePlaces ==
  ASSUME TypeOK, OpInv, PlaceInv, NEW r \in Requests, Serve(r)
  PROVE  PlaceInv'
  <1>1. /\ op' = op /\ at' \in [Requests -> Places \cup Ended]
        /\ \A q \in Requests \ {r} : at'[q] = at[q]
    BY ServeFrame
  <1>2. at'[r] \in Ended \cup PlacesOf(op[r].kind)
    <2>1. Moves(r)
      BY ServeMoves
    <2>2. /\ op[r].kind \in AllKinds \cup {"none"}
          /\ at'[r] \in Places \cup Ended
      BY <1>1 DEF TypeOK, Ops, NoOp
    <2> QED
      BY <2>1, <2>2, PlaceFacts DEF Moves, PlacesOf, AllKinds, Places, Ended
  <1> QED
    BY <1>1, <1>2 DEF PlaceInv

\* No call gives a request another id.
LEMMA ServeUnique ==
  ASSUME TypeOK, UniqueInv, NEW r \in Requests, Serve(r)
  PROVE  UniqueInv'
  <1>1. op' = op /\ \A q \in Requests : q \in Active' => q \in Active
    BY ServeFrame DEF Active
  <1> QED
    BY <1>1 DEF UniqueInv

\* Nothing is read, cached or deleted of a voice before its create has tried
\* to insert its row.
LEMMA ServeBirth ==
  ASSUME TypeOK, OpInv, PlaceInv, BirthInv, NEW r \in Requests, Serve(r)
  PROVE  BirthInv'
  <1> DEFINE Created(w) == \E q \in Requests : /\ op[q].kind = "create" /\ op[q].voice = w
                                               /\ at[q] \notin {"new", "upload", "insertRow"}
  <1>1. op' = op /\ \A q \in Requests \ {r} : at'[q] = at[q]
    BY ServeFrame
  <1>2. Moves(r)
    BY ServeMoves
  <1> SUFFICES ASSUME NEW w \in Voices, w \notin Existing, Owner[w] # SystemUser
               PROVE  Unborn(w)' \/ Created(w)'
    BY DEF BirthInv
  <1>3. CASE Created(w)
    <2>1. PICK q \in Requests : /\ op[q].kind = "create" /\ op[q].voice = w
                                /\ at[q] \notin {"new", "upload", "insertRow"}
      BY <1>3
    <2>2. at'[q] \notin {"new", "upload", "insertRow"}
      BY <1>1, <1>2, <2>1 DEF Moves
    <2> QED
      BY <1>1, <2>1, <2>2
  <1>4. CASE Unborn(w)
    <2>1. CASE at[r] = "insertRow" /\ op[r].voice = w
      BY <1>1, <1>2, <2>1, PlaceFacts DEF Moves
    <2>2. CASE ~(at[r] = "insertRow" /\ op[r].voice = w)
      <3>1. table'[w] = 0
        <4>1. at[r] \in {"insertSystem", "updateSystem"} => Owner[op[r].voice] = SystemUser
          BY PlaceFacts DEF OpInv
        <4> QED
          BY <1>4, <2>2, <4>1, ServeRows DEF Unborn
      <3>2. cache'[w] = 0
        BY <1>4, ServeCache DEF Unborn
      <3>3. ASSUME NEW q \in Requests, op[q].voice = w
            PROVE  at'[q] \notin {"cacheVoice", "putDoc", "deleteAudio", "deleteRow"}
        <4>1. CASE q # r
          BY <1>1, <1>4, <3>3, <4>1 DEF Unborn
        <4>2. CASE q = r
          BY <1>2, <1>4, <2>2, <3>3, <4>2 DEF Unborn, Moves, Readable
        <4> QED
          BY <4>1, <4>2
      <3> QED
        BY <1>1, <3>1, <3>2, <3>3 DEF Unborn
    <2> QED
      BY <2>1, <2>2
  <1> QED
    BY <1>3, <1>4 DEF BirthInv

\* An upload never hits a voice whose row is being deleted, nor a delete one that
\* is being seeded: two creates would share an id, or a user own a system voice.
LEMMA ServeAudioInv ==
  ASSUME TypeOK, OpInv, PlaceInv, UniqueInv, BirthInv, AudioInv, NEW r \in Requests, Serve(r)
  PROVE  AudioInv'
  <1> DEFINE v == op[r].voice
             Late == {"cacheVoice", "putDoc", "deleteAudio", "deleteRow"}
             Seeding == {"uploadNew", "uploadAgain", "dropSystem", "updateSystem"}
  <1>1. /\ op' = op /\ \A q \in Requests \ {r} : at'[q] = at[q]
        /\ at[r] \notin Ended \cup {"new"}
    BY ServeFrame
  <1>2. Moves(r)
    BY ServeMoves
  <1> SUFFICES ASSUME NEW q \in Requests
               PROVE  /\ op[q].kind = "delete" /\ at'[q] \in Late => Owner[op[q].voice] = op[q].user
                      /\ at'[q] = "deleteRow" => op[q].voice \notin audio'
                      /\ at'[q] \in Seeding => table'[op[q].voice] # 0
    BY <1>1 DEF AudioInv
  <1> DEFINE w == op[q].voice
  <1>3. /\ op[q].kind = "delete" /\ at[q] \in Late => Owner[w] = op[q].user
        /\ at[q] = "deleteRow" => w \notin audio
        /\ at[q] \in Seeding => table[w] # 0
    BY DEF AudioInv
  <1>4. op[q].kind = "delete" /\ at'[q] \in Late => Owner[w] = op[q].user
    BY <1>1, <1>2, <1>3, PlaceFacts DEF Moves, Readable
  <1>5. ASSUME at'[q] = "deleteRow"
        PROVE  w \notin audio'
    <2>1. CASE q = r
      BY <1>2, <1>5, <2>1 DEF Moves
    <2>2. CASE q # r
      <3>1. at[q] = "deleteRow" /\ op[q].kind = "delete" /\ w \in Voices /\ op[q].user \in Users
        BY <1>1, <1>5, <2>2, PlaceFacts DEF OpInv
      <3>2. w \notin audio /\ Owner[w] = op[q].user
        BY <1>3, <3>1
      <3> SUFFICES ASSUME w \in audio' PROVE FALSE
        OBVIOUS
      <3>3. w = v /\ at[r] \in {"upload", "uploadNew", "uploadAgain"}
        BY <3>2, ServeAudio
      <3>4. CASE at[r] = "upload"
        <4>1. op[r].kind = "create" /\ w \notin Existing
          BY <3>3, <3>4, PlaceFacts DEF OpInv
        <4>2. ~Unborn(w)
          BY <3>1 DEF Unborn
        <4>3. Owner[w] # SystemUser
          BY <3>1, <3>2
        <4>4. PICK s \in Requests : /\ op[s].kind = "create" /\ op[s].voice = w
                                    /\ at[s] \notin {"new", "upload", "insertRow"}
          BY <3>1, <4>1, <4>2, <4>3 DEF BirthInv
        <4> QED
          BY <3>3, <3>4, <4>1, <4>4 DEF UniqueInv
      <3>5. CASE at[r] \in {"uploadNew", "uploadAgain"}
        <4>1. Owner[v] = SystemUser
          BY <3>5, PlaceFacts DEF OpInv
        <4> QED
          BY <3>1, <3>2, <3>3, <4>1
      <3> QED
        BY <3>3, <3>4, <3>5
    <2> QED
      BY <2>1, <2>2
  <1>6. ASSUME at'[q] \in Seeding
        PROVE  table'[w] # 0
    <2>1. CASE q = r
      BY <1>2, <1>3, <1>6, <2>1 DEF Moves
    <2>2. CASE q # r
      <3>1. at[q] \in Seeding /\ op[q].kind = "seed" /\ w \in Voices /\ Owner[w] = SystemUser
        BY <1>1, <1>6, <2>2, PlaceFacts DEF OpInv
      <3> SUFFICES ASSUME table'[w] = 0 PROVE FALSE
        OBVIOUS
      <3>2. w = v /\ at[r] \in {"deleteRow", "dropSystem"}
        BY <1>3, <3>1, ServeRows
      <3>3. CASE at[r] = "deleteRow"
        <4>1. op[r].kind = "delete" /\ op[r].user \in Users
          BY <3>3, PlaceFacts DEF OpInv
        <4>2. Owner[v] = op[r].user
          BY <3>3, <4>1 DEF AudioInv
        <4> QED
          BY <3>1, <3>2, <4>1, <4>2
      <3>4. CASE at[r] = "dropSystem"
        <4>1. op[r].kind = "seed"
          BY <3>4, PlaceFacts
        <4>2. r \in Active /\ q \in Active
          BY <1>1, <3>1 DEF Active, Ended
        <4> QED
          BY <2>2, <3>1, <4>1, <4>2 DEF UniqueInv
      <3> QED
        BY <3>2, <3>3, <3>4
    <2> QED
      BY <2>1, <2>2
  <1> QED
    BY <1>4, <1>5, <1>6

\* The rows of a list read stay its owner's.
LEMMA ServeRowsInv ==
  ASSUME TypeOK, OpInv, PlaceInv, RowsInv, NEW r \in Requests, Serve(r)
  PROVE  RowsInv'
  <1>1. op' = op /\ \A q \in Requests \ {r} : at'[q] = at[q] /\ got'[q] = got[q]
    BY ServeFrame
  <1>2. Moves(r)
    BY ServeMoves
  <1> SUFFICES ASSUME NEW q \in Requests, at'[q] \in {"setList", "indexRows"},
                      NEW v \in Voices, got'[q][v] # 0
               PROVE  Owner[v] = op[q].user
    BY <1>1 DEF RowsInv
  <1>3. CASE q = r /\ at'[r] = "setList"
    BY <1>2, <1>3 DEF Moves, RowsOf
  <1>4. CASE q = r /\ at'[r] = "indexRows"
    BY <1>2, <1>4 DEF Moves, RowsInv
  <1>5. CASE q # r
    BY <1>1, <1>5 DEF RowsInv
  <1> QED
    BY <1>3, <1>4, <1>5

\* Audio without a row has a create or a seeding to answer for it.
LEMMA ServeOrphans ==
  ASSUME TypeOK, OpInv, PlaceInv, AudioInv, NoOrphanAudio, NEW r \in Requests, Serve(r)
  PROVE  NoOrphanAudio'
  <1> DEFINE v == op[r].voice
             Excuse(q, w) == /\ op[q].kind \in {"create", "seed"} /\ op[q].voice = w
                             /\ at[q] \in {"insertRow", "cleanup", "failed"}
  <1>1. /\ op' = op /\ \A q \in Requests \ {r} : at'[q] = at[q]
        /\ at[r] \notin Ended \cup {"new"}
    BY ServeFrame
  <1>2. Moves(r)
    BY ServeMoves
  <1>3. audio' \subseteq Voices
    BY ServeTypes
  <1> SUFFICES ASSUME NEW w \in audio', table'[w] = 0
               PROVE  \E q \in Requests : Excuse(q, w)'
    BY DEF NoOrphanAudio
  <1>4. w \in Voices
    BY <1>3
  <1>5. CASE w \in audio /\ table[w] = 0
    <2>1. PICK q \in Requests : Excuse(q, w)
      BY <1>5 DEF NoOrphanAudio
    <2>2. CASE q # r
      BY <1>1, <2>1, <2>2
    <2>3. CASE q = r
      <3>1. at[r] \in {"insertRow", "cleanup"}
        BY <1>1, <2>1, <2>3 DEF Ended
      <3>2. at'[r] \in {"cacheVoice", "cleanup", "failed"}
        BY <1>2, <3>1 DEF Moves
      <3>3. at'[r] # "cacheVoice"
        BY <1>2, <2>1, <2>3, <3>1 DEF Moves
      <3> QED
        BY <1>1, <2>1, <2>3, <3>2, <3>3
    <2> QED
      BY <2>2, <2>3
  <1>6. CASE w \in audio /\ table[w] # 0
    <2>1. w = v /\ at[r] \in {"deleteRow", "dropSystem"}
      BY <1>4, <1>6, ServeRows
    <2>2. at[r] # "deleteRow"
      BY <1>6, <2>1 DEF AudioInv
    <2>3. op[r].kind = "seed" /\ at'[r] = "failed"
      BY <1>2, <2>1, <2>2, PlaceFacts DEF Moves
    <2> QED
      BY <1>1, <2>1, <2>3
  <1>7. CASE w \notin audio
    <2>1. w = v /\ at[r] \in {"upload", "uploadNew", "uploadAgain"}
      BY <1>7, ServeAudio
    <2>2. at[r] \notin {"uploadNew", "uploadAgain"}
      <3>1. at[r] \in {"uploadNew", "uploadAgain"} => table[v] # 0
        BY DEF AudioInv
      <3>2. table[w] # 0 => at[r] \in {"deleteRow", "dropSystem"}
        BY <1>4, ServeRows
      <3> QED
        BY <2>1, <3>1, <3>2
    <2>3. op[r].kind = "create" /\ at'[r] \in {"insertRow", "failed"}
      BY <1>2, <2>1, <2>2, PlaceFacts DEF Moves
    <2> QED
      BY <1>1, <2>1, <2>3
  <1> QED
    BY <1>5, <1>6, <1>7

\* Documents are written under the tag of their voice's owner.
LEMMA ServeDocOwners ==
  ASSUME TypeOK, OpInv, PlaceInv, RowsInv, DocsCarryOwner, NEW r \in Requests, Serve(r)
  PROVE  DocsCarryOwner'
  <1> SUFFICES ASSUME NEW d \in Docs, docs'[d] # 0
               PROVE  d[1] = Owner[d[2]]
    BY DEF DocsCarryOwner
  <1>1. CASE docs[d] # 0
    BY <1>1 DEF DocsCarryOwner
  <1>2. CASE docs[d] = 0 /\ d = DocOf(r)
    BY <1>2 DEF DocOf
  <1>3. CASE at[r] = "indexRows" /\ d \in RowDocs(r)
    BY <1>3 DEF RowDocs, RowsInv
  <1> QED
    BY <1>1, <1>2, <1>3, ServeDocs

\* A call of a request keeps the whole invariant.
LEMMA ServeKeeps ==
  ASSUME IInv, NEW r \in Requests, Serve(r), Watch
  PROVE  IInv'
  <1>1. /\ TypeOK /\ OpInv /\ PlaceInv /\ UniqueInv /\ BirthInv /\ AudioInv /\ RowsInv
        /\ NoOrphanAudio /\ DocsCarryOwner
    BY DEF IInv
  <1>2. OpInv'
    BY <1>1, ServeFrame DEF OpInv
  <1>3. TypeOK' /\ PlaceInv' /\ UniqueInv'
    BY <1>1, ServeTypeOK, ServePlaces, ServeUnique
  <1>4. BirthInv' /\ AudioInv' /\ RowsInv'
    BY <1>1, ServeBirth, ServeAudioInv, ServeRowsInv
  <1>5. NoOrphanAudio' /\ DocsCarryOwner'
    BY <1>1, ServeOrphans, ServeDocOwners
  <1> QED
    BY <1>2, <1>3, <1>4, <1>5 DEF IInv

-----------------------------------------------------------------------------
(* The other steps: a request begins or ends early, an entry expires.      *)

\* What may be asked for when a request begins.
Askable(o) ==
  /\ o \in Ops
  /\ o.kind \in {"playback", "update", "delete"} => o.voice \in Voices /\ o.user \in Users
  /\ o.kind = "create" => /\ o.voice \in Voices \ Existing /\ o.user \in Users
                          /\ Owner[o.voice] = o.user
  /\ o.kind = "seed" => o.voice \in Voices /\ Owner[o.voice] = SystemUser
  /\ o.kind = "create" => \A q \in Requests : op[q].kind = "create" => op[q].voice # o.voice
  /\ o.kind = "seed" => \A q \in Active : op[q].kind # "seed"

\* Every request that begins asks for something askable.
LEMMA BeginsAskable ==
  ASSUME NEW r \in Requests, Begins(r)
  PROVE  \E o : Askable(o) /\ Begin(r, o)
  <1>1. ASSUME NEW kind \in AllKinds, NEW v \in Voices, NEW u \in Users,
               BeginVoice(r, kind, v, u)
        PROVE  \E o : Askable(o) /\ Begin(r, o)
    <2> DEFINE o == [kind |-> kind, voice |-> v, user |-> u]
    <2>1. Begin(r, o)
      BY <1>1 DEF BeginVoice
    <2>2. o \in Ops /\ o.kind = kind /\ o.voice = v /\ o.user = u
      BY DEF Ops, Tags
    <2>3. kind # "seed"
      BY <1>1 DEF BeginVoice
    <2>4. kind = "create" => /\ Owner[v] = u /\ v \notin Existing
                             /\ \A q \in Requests : op[q].kind = "create" => op[q].voice # v
      BY <1>1 DEF BeginVoice, Fresh
    <2> HIDE DEF o
    <2>5. Askable(o)
      BY <2>2, <2>3, <2>4 DEF Askable
    <2> QED
      BY <2>1, <2>5
  <1>2. ASSUME NEW kind \in AllKinds, NEW u \in Tags, BeginList(r, kind, u)
        PROVE  \E o : Askable(o) /\ Begin(r, o)
    <2> DEFINE o == [kind |-> kind, voice |-> NoVoice, user |-> u]
    <2>1. Begin(r, o)
      BY <1>2 DEF BeginList
    <2>2. o \in Ops /\ o.kind = kind
      BY DEF Ops
    <2>3. kind \in {"list", "search"}
      BY <1>2 DEF BeginList
    <2> HIDE DEF o
    <2>4. Askable(o)
      BY <2>2, <2>3 DEF Askable
    <2> QED
      BY <2>1, <2>4
  <1>3. ASSUME NEW v \in Voices, BeginSeed(r, v)
        PROVE  \E o : Askable(o) /\ Begin(r, o)
    <2> DEFINE o == [kind |-> "seed", voice |-> v, user |-> SystemUser]
    <2>1. Begin(r, o)
      BY <1>3 DEF BeginSeed
    <2>2. o \in Ops /\ o.kind = "seed" /\ o.voice = v
      BY DEF Ops, Tags, AllKinds
    <2>3. Owner[v] = SystemUser /\ \A q \in Active : op[q].kind # "seed"
      BY <1>3 DEF BeginSeed
    <2> HIDE DEF o
    <2>4. Askable(o)
      BY <2>2, <2>3 DEF Askable
    <2> QED
      BY <2>1, <2>4
  <1> QED
    BY <1>1, <1>2, <1>3 DEF Begins

\* A request that begins has read and changed nothing.
LEMMA BeginsKeeps ==
  ASSUME IInv, NEW r \in Requests, Begins(r), UNCHANGED enabled, Watch
  PROVE  IInv'
  <1> USE DEF IInv
  <1>1. PICK o : Askable(o) /\ Begin(r, o)
    BY BeginsAskable
  <1>2. /\ UNCHANGED <<table, audio, cache, list, docs, immortal, got, enabled>>
        /\ faults' \in FaultSets /\ serial' \in BOOLEAN
    BY <1>1 DEF Begin, redis, Watch, TypeOK
  <1>3. /\ at[r] = "new" /\ at'[r] = First(o.kind) /\ op'[r] = o
        /\ \A q \in Requests \ {r} : at'[q] = at[q] /\ op'[q] = op[q]
        /\ op' \in [Requests -> Ops \cup {NoOp}]
    BY <1>1 DEF Begin, TypeOK, Askable
  <1>4. o \in Ops /\ o.kind \in AllKinds
    BY <1>1 DEF Askable, Ops
  <1>5. /\ First(o.kind) \in Places \ {"new"} /\ First(o.kind) \in PlacesOf(o.kind)
        /\ First(o.kind) \in {"readRow", "readList", "upload", "updateRow", "readCache",
                              "findSystem", "search"}
    BY <1>4 DEF First, AllKinds, Places, PlacesOf
  <1>6. at' \in [Requests -> Places \cup Ended]
    BY <1>1, <1>5 DEF Begin, TypeOK
  <1> HIDE DEF First
  <1>7. TypeOK'
    <2>1. ASSUME NEW q \in Requests, at'[q] \in {"cacheVoice", "putDoc"}
          PROVE  op'[q].voice \in Voices /\ got'[q][op'[q].voice] # 0
      BY <1>2, <1>3, <1>5, <2>1 DEF TypeOK
    <2> QED
      BY <1>2, <1>3, <1>6, <2>1 DEF TypeOK
  <1>8. OpInv'
    <2>1. Askable(o) /\ o.user \in Tags
      BY <1>1, <1>4 DEF Ops
    <2> QED
      BY <1>3, <2>1 DEF OpInv, Askable
  <1>9. PlaceInv'
    BY <1>3, <1>5 DEF PlaceInv
  <1>10. UniqueInv'
    <2>1. \A q \in Requests \ {r} : q \in Active' => q \in Active
      BY <1>3 DEF Active
    <2> QED
      BY <1>1, <1>3, <2>1 DEF UniqueInv, Askable
  <1>11. BirthInv'
    <2> SUFFICES ASSUME NEW w \in Voices, w \notin Existing, Owner[w] # SystemUser, ~Unborn(w)'
                 PROVE  \E q \in Requests : /\ op'[q].kind = "create" /\ op'[q].voice = w
                                            /\ at'[q] \notin {"new", "upload", "insertRow"}
      BY DEF BirthInv
    <2>1. ~Unborn(w)
      BY <1>2, <1>3, <1>5 DEF Unborn
    <2>2. PICK q \in Requests : /\ op[q].kind = "create" /\ op[q].voice = w
                                /\ at[q] \notin {"new", "upload", "insertRow"}
      BY <2>1 DEF BirthInv
    <2> QED
      BY <1>3, <2>2
  <1>12. AudioInv'
    BY <1>2, <1>3, <1>5 DEF AudioInv
  <1>13. RowsInv'
    BY <1>2, <1>3, <1>5 DEF RowsInv
  <1>14. NoOrphanAudio'
    BY <1>2, <1>3 DEF NoOrphanAudio
  <1>15. DocsCarryOwner'
    BY <1>2 DEF DocsCarryOwner
  <1> QED
    BY <1>7, <1>8, <1>9, <1>10, <1>11, <1>12, <1>13, <1>14, <1>15

\* A request that ends early excuses the audio it leaves, and frees nothing else.
LEMMA CrashKeeps ==
  ASSUME IInv, NEW r \in Requests, Crash(r), UNCHANGED enabled, Watch
  PROVE  IInv'
  <1> USE DEF IInv
  <1>1. /\ UNCHANGED <<table, audio, cache, list, docs, immortal, op, got, enabled>>
        /\ faults' \in FaultSets /\ serial' \in BOOLEAN
    BY DEF Crash, redis, Watch, TypeOK
  <1>2. /\ at[r] \notin {"new"} \cup Ended /\ at'[r] = "failed"
        /\ \A q \in Requests \ {r} : at'[q] = at[q]
        /\ at' \in [Requests -> Places \cup Ended]
    BY DEF Crash, Active, TypeOK, Ended
  <1>3. TypeOK'
    <2>1. \A q \in Requests : at'[q] \in {"cacheVoice", "putDoc"} =>
             op'[q].voice \in Voices /\ got'[q][op'[q].voice] # 0
      BY <1>1, <1>2 DEF TypeOK
    <2> QED
      BY <1>1, <1>2, <2>1 DEF TypeOK
  <1>4. OpInv' /\ PlaceInv'
    BY <1>1, <1>2 DEF OpInv, PlaceInv, Ended
  <1>5. UniqueInv'
    <2>1. \A q \in Requests : q \in Active' => q \in Active
      BY <1>2 DEF Active, Ended
    <2> QED
      BY <1>1, <2>1 DEF UniqueInv
  <1>6. BirthInv'
    <2>1. \A w \in Voices : Unborn(w) => Unborn(w)'
      BY <1>1, <1>2 DEF Unborn
    <2>2. \A q \in Requests : at[q] \notin {"new", "upload", "insertRow"} =>
                              at'[q] \notin {"new", "upload", "insertRow"}
      BY <1>2
    <2> QED
      BY <1>1, <2>1, <2>2 DEF BirthInv
  <1>7. AudioInv' /\ RowsInv'
    BY <1>1, <1>2 DEF AudioInv, RowsInv
  <1>8. NoOrphanAudio'
    <2>1. \A q \in Requests : at[q] \in {"insertRow", "cleanup", "failed"} =>
                              at'[q] \in {"insertRow", "cleanup", "failed"}
      BY <1>2
    <2> QED
      BY <1>1, <2>1 DEF NoOrphanAudio
  <1>9. DocsCarryOwner'
    BY <1>1 DEF DocsCarryOwner
  <1> QED
    BY <1>3, <1>4, <1>5, <1>6, <1>7, <1>8, <1>9

\* Entries only leave Redis.
LEMMA ExpireKeeps ==
  ASSUME IInv, Expire, UNCHANGED enabled, Watch
  PROVE  IInv'
  <1> USE DEF IInv
  <1>1. /\ UNCHANGED <<table, audio, immortal, at, op, got, enabled>>
        /\ faults' \in FaultSets /\ serial' \in BOOLEAN
    BY DEF Expire, ExpireVoice, ExpireList, ExpireDoc, Watch, TypeOK
  <1>2. cache' \in Rows /\ \A w \in Voices : cache[w] = 0 => cache'[w] = 0
    <2>1. cache \in Rows
      BY DEF TypeOK
    <2>2. cache' = cache \/ \E v \in Voices : cache' = [cache EXCEPT ![v] = 0]
      BY DEF Expire, ExpireVoice, ExpireList, ExpireDoc
    <2> QED
      BY ONLY <2>1, <2>2, MaxVersion \in Nat \ {0} DEF Rows
  <1>3. docs' \in [Docs -> 0..MaxVersion] /\ \A d \in Docs : docs[d] = 0 => docs'[d] = 0
    <2>1. docs \in [Docs -> 0..MaxVersion] /\ 0 \in 0..MaxVersion
      BY DEF TypeOK
    <2>2. ASSUME NEW d PROVE /\ [docs EXCEPT ![d] = 0] \in [Docs -> 0..MaxVersion]
                             /\ \A e \in Docs : docs[e] = 0 => [docs EXCEPT ![d] = 0][e] = 0
      BY ONLY <2>1
    <2> QED
      BY <2>1, <2>2 DEF Expire, ExpireVoice, ExpireList, ExpireDoc
  <1>4. list' \in [Tags -> Rows \cup {NoList}]
    BY DEF Expire, ExpireVoice, ExpireList, ExpireDoc, TypeOK, Without
  <1>5. TypeOK'
    BY <1>1, <1>2, <1>3, <1>4 DEF TypeOK
  <1>6. OpInv' /\ PlaceInv' /\ UniqueInv'
    BY <1>1 DEF OpInv, PlaceInv, UniqueInv, Active
  <1>7. BirthInv'
    BY <1>1, <1>2 DEF BirthInv, Unborn
  <1>8. AudioInv' /\ RowsInv' /\ NoOrphanAudio'
    BY <1>1 DEF AudioInv, RowsInv, NoOrphanAudio
  <1>9. DocsCarryOwner'
    BY <1>3 DEF DocsCarryOwner
  <1> QED
    BY <1>5, <1>6, <1>7, <1>8, <1>9

-----------------------------------------------------------------------------
(* The invariant, and the properties it implies.                           *)

\* At the start no request has begun, and Existing is all there is.
LEMMA InitKeeps == Init => IInv
  <1> SUFFICES ASSUME Init PROVE IInv
    OBVIOUS
  <1> USE DEF Init
  <1>1. TypeOK
    <2>1. table \in Rows /\ cache \in Rows /\ got \in [Requests -> Rows]
      BY DEF Rows, NoRows
    <2>2. docs \in [Docs -> 0..MaxVersion]
      OBVIOUS
    <2>3. at \in [Requests -> Places \cup Ended] /\ \A r \in Requests : at[r] = "new"
      BY DEF Places
    <2>4. op \in [Requests -> Ops \cup {NoOp}] /\ list \in [Tags -> Rows \cup {NoList}]
      OBVIOUS
    <2> QED
      BY <2>1, <2>2, <2>3, <2>4 DEF TypeOK
  <1>2. \A r \in Requests : at[r] = "new" /\ op[r].kind = "none" /\ op[r].voice = NoVoice
    BY DEF NoOp
  <1>3. OpInv /\ PlaceInv /\ UniqueInv
    BY <1>2 DEF OpInv, PlaceInv, UniqueInv
  <1>4. BirthInv
    BY <1>2 DEF BirthInv, Unborn, NoRows
  <1>5. AudioInv /\ RowsInv /\ NoOrphanAudio /\ DocsCarryOwner
    BY <1>2 DEF AudioInv, RowsInv, NoOrphanAudio, DocsCarryOwner
  <1> QED
    BY <1>1, <1>3, <1>4, <1>5 DEF IInv

\* The invariant looks at the variables only.
LEMMA StutterKeeps == IInv /\ UNCHANGED vars => IInv'
  BY DEF vars, redis, IInv, TypeOK, OpInv, PlaceInv, UniqueInv, Active, BirthInv, Unborn,
    AudioInv, RowsInv, NoOrphanAudio, DocsCarryOwner

\* IInv is inductive: what a request asks for, where it may be, that creates
\* get ids of their own, and what each call relies on, hold in every step of
\* the service, of the seeding script and of Redis.
THEOREM Inductive == Spec => []IInv
  <1>1. Init => IInv
    BY InitKeeps
  <1>2. IInv /\ [Next]_vars => IInv'
    <2> SUFFICES ASSUME IInv, [Next]_vars PROVE IInv'
      OBVIOUS
    <2>1. CASE UNCHANGED vars
      BY <2>1, StutterKeeps
    <2>2. ASSUME Next PROVE IInv'
      <3>1. ASSUME NEW r \in Requests, Serve(r), Watch PROVE IInv'
        BY <3>1, ServeKeeps
      <3>2. ASSUME NEW r \in Requests, Begins(r), UNCHANGED enabled, Watch PROVE IInv'
        BY <3>2, BeginsKeeps
      <3>3. ASSUME NEW r \in Requests, Crash(r), UNCHANGED enabled, Watch PROVE IInv'
        BY <3>3, CrashKeeps
      <3>4. ASSUME Expire, UNCHANGED enabled, Watch PROVE IInv'
        BY <3>4, ExpireKeeps
      <3> QED
        BY <2>2, <3>1, <3>2, <3>3, <3>4 DEF Next, Call
    <2> QED
      BY <2>1, <2>2
  <1> QED
    BY <1>1, <1>2, PTL DEF Spec

\* The stores and requests keep their types, and nothing is put into Redis
\* but a row that was read (cached_voice_repo.go:85-150).
THEOREM TypeCorrect == Spec => []TypeOK
  <1>1. IInv => TypeOK
    BY DEF IInv
  <1> QED
    BY <1>1, Inductive, PTL

\* No audio outlives its row except that of a create or seeding that failed
\* or has not inserted its row, for any number of requests and any faults
\* (voice_service.go:139-158).
THEOREM NoOrphans == Spec => []NoOrphanAudio
  <1>1. IInv => NoOrphanAudio
    BY DEF IInv
  <1> QED
    BY <1>1, Inductive, PTL

\* Every document of the search index carries the tag of its voice's owner,
\* whichever requests race and fail (cached_voice_repo.go:128-135).
THEOREM OwnersHold == Spec => []DocsCarryOwner
  <1>1. IInv => DocsCarryOwner
    BY DEF IInv
  <1> QED
    BY <1>1, Inductive, PTL

-----------------------------------------------------------------------------
(* Requests that are served one at a time.                                 *)

\* A create or an update of its own voice that goes on to these calls.
Rewrites(r, places) == op[r].kind \in {"create", "update"} /\ at[r] \in places

\* What a request has changed of a voice is its user's.
OwnInv == \A r \in Requests :
  (Rewrites(r, {"cacheVoice", "putDoc", "dropLists"})
     \/ at[r] \in {"deleteRow", "dropVoice", "dropDoc"}) => Owner[op[r].voice] = op[r].user

\* What a request that changed a row has yet to put right in Redis.
StaleVoice(r, v) ==
  op[r].voice = v /\ (Rewrites(r, {"cacheVoice"}) \/ at[r] = "dropVoice")
StaleList(r, o) ==
  op[r].user = o /\ (Rewrites(r, {"cacheVoice", "putDoc", "dropLists"}) \/ at[r] = "dropVoice")
StaleDocs(r, v) ==
  op[r].voice = v /\ (Rewrites(r, {"cacheVoice", "putDoc"}) \/ at[r] \in {"dropVoice", "dropDoc"})

VoicesBut(r) == \A v \in Voices : cache[v] \in {0, table[v]} \/ StaleVoice(r, v)
ListsBut(r)  == \A o \in Tags : list[o] \in {NoList, RowsOf(o)} \/ StaleList(r, o)
DocsBut(r)   == enabled = "yes" =>
                  \A d \in Docs : docs[d] \in {0, table[d[2]]} \/ StaleDocs(r, d[2])

\* What a request puts into Redis is what the rows say.
ReadInv(r) ==
  /\ at[r] \in {"cacheVoice", "putDoc"} => got[r][op[r].voice] = table[op[r].voice]
  /\ at[r] \in {"setList", "indexRows"} => got[r] = RowsOf(op[r].user)

SyncOf(r) == VoicesBut(r) /\ ListsBut(r) /\ DocsBut(r) /\ ReadInv(r)

Synced == VoicesInSync /\ ListsInSync /\ (enabled = "yes" => DocsInSync)

\* Redis agrees with the rows, but for what the one request in progress has yet to
\* put right.
SyncInv == RedisReliable /\ serial =>
  \/ Active = {} /\ Synced
  \/ \E r \in Requests : Active = {r} /\ SyncOf(r)

\* The calls before and after which nothing is stale.
Calm == {"readCache", "readRow", "readList", "readRows", "setList", "indexRows", "upload",
         "insertRow", "cleanup", "updateRow", "deleteAudio", "deleteRow", "findSystem",
         "insertSystem", "uploadNew", "uploadAgain", "dropSystem", "updateSystem", "search",
         "searchRows"}

\* Beside a request in a calm place nothing is stale.
LEMMA CalmSynced ==
  ASSUME NEW r \in Requests, SyncOf(r),
         at[r] \in Calm \cup Ended \cup {"new"}
            \/ (at[r] \in {"cacheVoice", "putDoc"} /\ op[r].kind \notin {"create", "update"})
  PROVE  Synced
  BY DEF SyncOf, VoicesBut, ListsBut, DocsBut, StaleVoice, StaleList, StaleDocs, Rewrites, Calm,
         Ended, Synced, VoicesInSync, ListsInSync, DocsInSync

\* A call that changes no store.
LEMMA ReadsSync ==
  ASSUME Synced, NEW r \in Requests, UNCHANGED <<table, cache, list, docs>>,
         enabled' = "yes" => enabled = "yes", ReadInv(r)'
  PROVE  SyncOf(r)'
  <1>1. \A o \in Tags : RowsOf(o)' = RowsOf(o)
    BY DEF RowsOf
  <1>2. Synced'
    BY <1>1 DEF Synced, VoicesInSync, ListsInSync, DocsInSync
  <1>3. VoicesBut(r)' /\ ListsBut(r)' /\ DocsBut(r)'
    BY <1>1, <1>2 DEF VoicesBut, ListsBut, DocsBut, Synced, VoicesInSync, ListsInSync, DocsInSync
  <1> QED
    BY <1>3 DEF SyncOf

\* A write of the request's own row, which is to be put right.
LEMMA WriteSync ==
  ASSUME TypeOK, Synced, NEW r \in Requests, NEW v \in Voices, v = op[r].voice, op' = op,
         NEW n \in 0..MaxVersion, table' = [table EXCEPT ![v] = n], Owner[v] = op[r].user,
         UNCHANGED <<cache, list, docs>>, enabled' = enabled,
         \/ Rewrites(r, {"cacheVoice"})' /\ got'[r][v] = n
         \/ at'[r] = "dropVoice"
  PROVE  SyncOf(r)'
  <1>1. table'[v] = n /\ \A w \in Voices \ {v} : table'[w] = table[w]
    BY DEF TypeOK, Rows
  <1>2. StaleVoice(r, v)' /\ StaleList(r, Owner[v])' /\ StaleDocs(r, v)'
    BY DEF StaleVoice, StaleList, StaleDocs, Rewrites
  <1>3. VoicesBut(r)'
    BY <1>1, <1>2 DEF VoicesBut, Synced, VoicesInSync
  <1>4. ListsBut(r)'
    <2>1. ASSUME NEW o \in Tags, o # Owner[v] PROVE RowsOf(o)' = RowsOf(o)
      BY <1>1, <2>1 DEF RowsOf
    <2> QED
      BY <1>2, <2>1 DEF ListsBut, Synced, ListsInSync
  <1>5. DocsBut(r)'
    BY <1>1, <1>2 DEF DocsBut, Synced, DocsInSync, Docs
  <1>6. ReadInv(r)'
    BY <1>1 DEF ReadInv, Rewrites
  <1> QED
    BY <1>3, <1>4, <1>5, <1>6 DEF SyncOf

\* What changed a row is its user's, whatever the request goes on to.
LEMMA ServeOwn ==
  ASSUME TypeOK, OpInv, PlaceInv, AudioInv, OwnInv, NEW r \in Requests, Serve(r)
  PROVE  OwnInv'
  <1>1. op' = op /\ \A q \in Requests \ {r} : at'[q] = at[q]
    BY ServeFrame
  <1>2. Moves(r)
    BY ServeMoves
  <1>3. ASSUME Rewrites(r, {"cacheVoice", "putDoc", "dropLists"})'
               \/ at'[r] \in {"deleteRow", "dropVoice", "dropDoc"}
        PROVE  Owner[op[r].voice] = op[r].user
    <2>1. CASE Rewrites(r, {"cacheVoice", "putDoc", "dropLists"})'
      BY <1>1, <1>2, <2>1, PlaceFacts DEF Rewrites, Moves, OwnInv, OpInv
    <2>2. CASE at'[r] \in {"deleteRow", "dropVoice", "dropDoc"}
      BY <1>1, <1>2, <2>2, PlaceFacts DEF Moves, OwnInv, AudioInv
    <2> QED
      BY <1>3, <2>1, <2>2
  <1> QED
    BY <1>1, <1>3 DEF OwnInv, Rewrites

\* What a call writes to the rows and is answered: its own voice's row.
LEMMA ServeWrites ==
  ASSUME TypeOK, OpInv, PlaceInv, NEW r \in Requests, Serve(r), table' # table,
         at'[r] \notin {"failed", "cleanup"}, op[r].kind # "seed"
  PROVE  \E n \in 0..MaxVersion :
            /\ op[r].voice \in Voices /\ table' = [table EXCEPT ![op[r].voice] = n]
            /\ enabled' = enabled
            /\ \/ /\ at[r] \in {"insertRow", "updateRow"} /\ at'[r] = "cacheVoice"
                  /\ got'[r][op[r].voice] = n
               \/ at[r] = "deleteRow" /\ at'[r] = "dropVoice"
  <1> DEFINE v == op[r].voice
  <1>1. /\ table \in Rows /\ got \in [Requests -> Rows] /\ at \in [Requests -> Places \cup Ended]
        /\ at[r] \in VoicePlaces => v \in Voices
    BY PlaceFacts DEF TypeOK
  <1>2. enabled' = enabled /\ (InsertRow(r) \/ UpdateRow(r) \/ DeleteRow(r))
    <2>1. ~(InsertSystem(r) \/ DropSystem(r) \/ UpdateSystem(r))
      BY PlaceFacts DEF InsertSystem, DropSystem, UpdateSystem, Step
    <2> QED
      BY <2>1 DEF Serve, Serves, ReadCache, ReadRow, CacheVoice, PutDoc, ReadList, ReadRows,
        SetList, IndexRows, SearchRows, Upload, Cleanup, DropLists, DeleteAudio, DropVoice,
        DropDoc, FindSystem, UploadSystem, Search
  <1>3. v \in Voices
    BY <1>1, <1>2 DEF InsertRow, UpdateRow, DeleteRow, Step, VoicePlaces, Places
  <1>4. got[r] \in Rows /\ table[v] \in 0..MaxVersion
    BY <1>1, <1>3, RowTypes
  <1>5. CASE InsertRow(r)
    <2>1. /\ at[r] = "insertRow" /\ at'[r] = "cacheVoice" /\ table' = [table EXCEPT ![v] = 1]
          /\ got' = [got EXCEPT ![r][v] = 1]
      BY <1>1, <1>5 DEF InsertRow, Step
    <2>2. got'[r][v] = 1 /\ 1 \in 0..MaxVersion
      BY <1>1, <1>3, <2>1 DEF Rows
    <2> QED
      BY <1>2, <1>3, <2>1, <2>2
  <1>6. CASE UpdateRow(r)
    <2>1. /\ at[r] = "updateRow" /\ at'[r] = "cacheVoice" /\ table[v] < MaxVersion
          /\ table' = [table EXCEPT ![v] = table[v] + 1]
          /\ got' = [got EXCEPT ![r][v] = table[v] + 1]
      BY <1>1, <1>3, <1>6 DEF UpdateRow, Step
    <2>2. got'[r][v] = table[v] + 1 /\ table[v] + 1 \in 0..MaxVersion
      BY <1>1, <1>3, <1>4, <2>1 DEF Rows
    <2> QED
      BY <1>2, <1>3, <2>1, <2>2
  <1>7. CASE DeleteRow(r)
    BY <1>1, <1>2, <1>3, <1>7 DEF DeleteRow, Step
  <1> QED
    BY <1>2, <1>5, <1>6, <1>7

\* The calls that change no store, or a row; one that tells nobody of its write ends
\* the history that serial keeps.
LEMMA CalmServes ==
  ASSUME IInv, OwnInv, RedisReliable, NEW r \in Requests, Serve(r), Watch, serial',
         at[r] \in Calm \ {"setList", "indexRows"}, SyncOf(r)
  PROVE  SyncOf(r)'
  <1>1. TypeOK /\ OpInv /\ PlaceInv /\ AudioInv
    BY DEF IInv
  <1>2. Synced
    BY CalmSynced DEF Calm
  <1>3. op' = op /\ Moves(r) /\ got' \in [Requests -> Rows]
    BY <1>1, ServeFrame, ServeMoves, ServeTypes
  <1>4. table' = table \/ ~(at'[r] \in {"failed", "cleanup"} \/ op[r].kind = "seed")
    BY <1>1, ServeFrame DEF Watch, Unreported
  <1>5. UNCHANGED <<cache, list, docs>> /\ (enabled' = "yes" => enabled = "yes")
    <2>1. CASE Search(r)
      BY <2>1 DEF Search, redis
    <2>2. CASE Serves(r) /\ enabled' = enabled
      <3>1. ~(CacheVoice(r) \/ PutDoc(r) \/ SetList(r) \/ IndexRows(r) \/ DropLists(r)
              \/ DropVoice(r) \/ DropDoc(r))
        BY DEF Calm, CacheVoice, PutDoc, SetList, IndexRows, DropLists, DropVoice, DropDoc, Step
      <3> QED
        BY <2>2, <3>1 DEF Serves, ReadCache, ReadRow, ReadList, ReadRows, SearchRows, Upload,
           InsertRow, Cleanup, UpdateRow, DeleteAudio, DeleteRow, FindSystem, InsertSystem,
           UploadSystem, DropSystem, UpdateSystem, redis
    <2> QED
      BY <2>1, <2>2 DEF Serve
  <1>6. CASE table' = table
    <2>1. ReadInv(r)'
      <3>1. RowsOf(op[r].user)' = RowsOf(op[r].user)
        BY <1>3, <1>6 DEF RowsOf
      <3>2. at'[r] # "putDoc" /\ at'[r] # "indexRows"
        BY <1>3 DEF Moves, Calm
      <3>3. at'[r] = "setList" => got'[r] = RowsOf(op[r].user)
        BY <1>3 DEF Moves
      <3>4. at'[r] = "cacheVoice" => got'[r][op[r].voice] = table[op[r].voice]
        BY <1>3, <1>6 DEF Moves, Calm
      <3> QED
        BY <1>3, <1>6, <3>1, <3>2, <3>3, <3>4 DEF ReadInv
    <2> QED
      BY <1>2, <1>5, <1>6, <2>1, ReadsSync
  <1>7. CASE table' # table
    <2>1. PICK n \in 0..MaxVersion :
            /\ op[r].voice \in Voices /\ table' = [table EXCEPT ![op[r].voice] = n]
            /\ enabled' = enabled
            /\ \/ /\ at[r] \in {"insertRow", "updateRow"} /\ at'[r] = "cacheVoice"
                  /\ got'[r][op[r].voice] = n
               \/ at[r] = "deleteRow" /\ at'[r] = "dropVoice"
      BY <1>1, <1>4, <1>7, ServeWrites
    <2>2. Owner[op[r].voice] = op[r].user
      BY <1>1, <1>3, <2>1, PlaceFacts DEF Moves, OwnInv, OpInv
    <2>3. Rewrites(r, {"cacheVoice"})' \/ at'[r] = "dropVoice"
      BY <1>1, <1>3, <2>1, PlaceFacts DEF Rewrites
    <2> QED
      BY <1>1, <1>2, <1>3, <1>5, <2>1, <2>2, <2>3, WriteSync
  <1> QED
    BY <1>6, <1>7

\* What the calls that bring Redis up to date rely on.
LEMMA SyncFacts ==
  ASSUME IInv, RedisReliable, NEW r \in Requests, Serve(r), table' = table
  PROVE  /\ "redis" \notin faults /\ "crash" \notin faults /\ op' = op
         /\ table \in Rows /\ cache \in Rows /\ got \in [Requests -> Rows] /\ got[r] \in Rows
         /\ list \in [Tags -> Rows \cup {NoList}] /\ docs \in [Docs -> 0..MaxVersion]
         /\ at \in [Requests -> Places \cup Ended]
         /\ at[r] \in VoicePlaces => op[r].voice \in Voices
         /\ at[r] \in {"setList", "indexRows"} => op[r].user \in Tags
         /\ \A o \in Tags : RowsOf(o)' = RowsOf(o)
  <1>1. \A o \in Tags : RowsOf(o)' = RowsOf(o)
    BY DEF RowsOf
  <1>2. TypeOK /\ OpInv /\ PlaceInv
    BY DEF IInv
  <1> QED
    BY <1>1, <1>2, PlaceFacts, ServeFrame DEF RedisReliable, TypeOK

\* The cache takes the row that was read; the lists and the document of a row that
\* was written are still to follow.
LEMMA CacheSync ==
  ASSUME IInv, RedisReliable, NEW r \in Requests, Serve(r), CacheVoice(r), enabled' = enabled,
         SyncOf(r)
  PROVE  SyncOf(r)'
  <1> DEFINE v == op[r].voice
  <1>1. /\ at[r] = "cacheVoice" /\ UNCHANGED <<table, list, docs, got>>
        /\ \E b \in Indexes : at' = [at EXCEPT ![r] = IF b THEN "putDoc" ELSE AfterDoc(op[r].kind)]
    BY DEF CacheVoice, Step
  <1>2. v \in Voices /\ op' = op
    BY <1>1, SyncFacts DEF VoicePlaces, Places
  <1>3. cache' = [cache EXCEPT ![v] = table[v]]
    BY <1>1, SyncFacts DEF CacheVoice, SyncOf, ReadInv
  <1>4. /\ at'[r] \in {"putDoc", "dropLists", "deleteAudio", "done"}
        /\ op[r].kind \in {"create", "update"} => at'[r] \in {"putDoc", "dropLists"}
        /\ enabled = "yes" => at'[r] = "putDoc"
    BY <1>1, SyncFacts DEF Indexes, AfterDoc
  <1>5. VoicesBut(r)'
    <2>1. ASSUME NEW w \in Voices, w # v PROVE cache'[w] \in {0, table'[w]}
      BY <1>1, <1>3, <2>1, SyncFacts DEF SyncOf, VoicesBut, StaleVoice, Rows
    <2>2. cache'[v] = table'[v]
      BY <1>1, <1>2, <1>3, SyncFacts DEF Rows
    <2> QED
      BY <2>1, <2>2 DEF VoicesBut
  <1>6. ListsBut(r)'
    <2>1. \A o \in Tags : StaleList(r, o) => StaleList(r, o)'
      BY <1>1, <1>2, <1>4 DEF StaleList, Rewrites
    <2> QED
      BY <1>1, <2>1, SyncFacts DEF SyncOf, ListsBut
  <1>7. DocsBut(r)'
    <2>1. enabled = "yes" => \A w \in Voices : StaleDocs(r, w) => StaleDocs(r, w)'
      BY <1>1, <1>2, <1>4 DEF StaleDocs, Rewrites
    <2> QED
      BY <1>1, <2>1 DEF SyncOf, DocsBut, Docs
  <1>8. ReadInv(r)'
    BY <1>1, <1>2, <1>4 DEF SyncOf, ReadInv
  <1> QED
    BY <1>5, <1>6, <1>7, <1>8 DEF SyncOf

\* The document of a voice takes the row; there is no other of that voice.
LEMMA DocSync ==
  ASSUME IInv, RedisReliable, NEW r \in Requests, Serve(r), PutDoc(r), enabled' = enabled,
         SyncOf(r)
  PROVE  SyncOf(r)'
  <1> DEFINE v == op[r].voice
  <1>1. at[r] = "putDoc" /\ UNCHANGED <<table, cache, list, got>>
    BY DEF PutDoc, Step
  <1>2. v \in Voices /\ op' = op
    BY <1>1, SyncFacts DEF VoicePlaces, Places
  <1>3. at' = [at EXCEPT ![r] = AfterDoc(op[r].kind)] /\ HSetDocs(r, {DocOf(r)}, {})
    BY <1>1, SyncFacts DEF PutDoc, PutDocs, Step
  <1>4. /\ at'[r] \in {"dropLists", "deleteAudio", "done"}
        /\ op[r].kind \in {"create", "update"} => at'[r] = "dropLists"
    BY <1>1, <1>3, SyncFacts DEF AfterDoc
  <1>5. VoicesBut(r)'
    BY <1>1 DEF SyncOf, VoicesBut, StaleVoice, Rewrites
  <1>6. ListsBut(r)'
    <2>1. \A o \in Tags : StaleList(r, o) => StaleList(r, o)'
      BY <1>1, <1>2, <1>4 DEF StaleList, Rewrites
    <2> QED
      BY <1>1, <2>1, SyncFacts DEF SyncOf, ListsBut
  <1>7. DocsBut(r)'
    <2> SUFFICES ASSUME enabled = "yes", NEW d \in Docs
                 PROVE  docs'[d] \in {0, table[d[2]]}
      BY <1>1 DEF DocsBut
    <2>1. CASE d = DocOf(r)
      <3>1. docs'[d] = got[r][v] /\ d[2] = v
        BY <1>3, <2>1 DEF HSetDocs, DocOf
      <3> QED
        BY <1>1, <3>1 DEF SyncOf, ReadInv
    <2>2. CASE d # DocOf(r)
      <3>1. docs'[d] = docs[d]
        BY <1>3, <2>2 DEF HSetDocs
      <3>2. d[2] = v => docs[d] = 0
        BY <2>2 DEF IInv, DocsCarryOwner, DocOf, Docs
      <3> QED
        BY <3>1, <3>2 DEF SyncOf, DocsBut, StaleDocs
    <2> QED
      BY <2>1, <2>2
  <1>8. ReadInv(r)'
    BY <1>4 DEF ReadInv
  <1> QED
    BY <1>5, <1>6, <1>7, <1>8 DEF SyncOf

\* A list takes the rows that were read.
LEMMA ListSync ==
  ASSUME IInv, RedisReliable, NEW r \in Requests, Serve(r), SetList(r), enabled' = enabled,
         SyncOf(r)
  PROVE  SyncOf(r)'
  <1>1. at[r] = "setList" /\ UNCHANGED <<table, cache, docs, got>>
    BY DEF SetList, Step
  <1>2. op[r].user \in Tags /\ list' = [list EXCEPT ![op[r].user] = RowsOf(op[r].user)]
    BY <1>1, SyncFacts DEF SetList, SyncOf, ReadInv
  <1>3. at'[r] \in {"indexRows", "done"}
    BY <1>1, SyncFacts DEF SetList, Step
  <1>4. Synced
    BY <1>1, CalmSynced DEF Calm
  <1>5. ListsInSync'
    BY <1>1, <1>2, <1>4, SyncFacts DEF Synced, ListsInSync
  <1>6. Synced'
    BY <1>1, <1>4, <1>5 DEF Synced, VoicesInSync, DocsInSync
  <1>7. ReadInv(r)'
    BY <1>1, <1>2, <1>3, SyncFacts DEF SyncOf, ReadInv
  <1> QED
    BY <1>6, <1>7 DEF SyncOf, VoicesBut, ListsBut, DocsBut, Synced, VoicesInSync, ListsInSync,
      DocsInSync

\* The documents of a list take the rows that were read.
LEMMA IndexSync ==
  ASSUME IInv, RedisReliable, NEW r \in Requests, Serve(r), IndexRows(r), enabled' = enabled,
         SyncOf(r)
  PROVE  SyncOf(r)'
  <1>1. at[r] = "indexRows" /\ UNCHANGED <<table, cache, list, got>>
    BY DEF IndexRows, Step
  <1>2. at'[r] = "done" /\ HSetDocs(r, RowDocs(r), {})
    BY <1>1, SyncFacts DEF IndexRows, PutDocs, Step
  <1>3. Synced
    BY <1>1, CalmSynced DEF Calm
  <1>4. enabled = "yes" => DocsInSync'
    <2> SUFFICES ASSUME enabled = "yes", NEW d \in Docs
                 PROVE  docs'[d] \in {0, table[d[2]]}
      BY <1>1 DEF DocsInSync
    <2>1. CASE d \in RowDocs(r)
      <3>1. docs'[d] = got[r][d[2]] /\ d[2] \in Voices /\ got[r][d[2]] # 0
        BY <1>2, <2>1 DEF HSetDocs, RowDocs
      <3> QED
        BY <1>1, <3>1 DEF SyncOf, ReadInv, RowsOf
    <2>2. CASE d \notin RowDocs(r)
      BY <1>2, <1>3, <2>2 DEF HSetDocs, Synced, DocsInSync
    <2> QED
      BY <2>1, <2>2
  <1>5. VoicesInSync' /\ ListsInSync'
    BY <1>1, <1>3, SyncFacts DEF Synced, VoicesInSync, ListsInSync
  <1> QED
    BY <1>2, <1>4, <1>5 DEF SyncOf, ReadInv, VoicesBut, ListsBut, DocsBut, VoicesInSync,
      ListsInSync, DocsInSync

\* The lists a write made stale go.
LEMMA DropListsSync ==
  ASSUME IInv, RedisReliable, NEW r \in Requests, Serve(r), DropLists(r), enabled' = enabled,
         SyncOf(r)
  PROVE  SyncOf(r)'
  <1>1. at[r] = "dropLists" /\ UNCHANGED <<table, cache, docs, got>>
    BY DEF DropLists, Step
  <1>2. at'[r] = "done" /\ list' = [list EXCEPT ![op[r].user] = NoList]
    BY <1>1, SyncFacts DEF DropLists, Without, Step
  <1>3. VoicesBut(r)'
    BY <1>1 DEF SyncOf, VoicesBut, StaleVoice, Rewrites
  <1>4. ListsBut(r)'
    <2>1. ASSUME NEW o \in Tags PROVE list'[o] \in {NoList, RowsOf(o)}
      BY <1>2, SyncFacts, <1>1 DEF SyncOf, ListsBut, StaleList
    <2> QED
      BY <1>1, <2>1, SyncFacts DEF ListsBut
  <1>5. DocsBut(r)'
    BY <1>1 DEF SyncOf, DocsBut, StaleDocs, Rewrites
  <1> QED
    BY <1>2, <1>3, <1>4, <1>5 DEF SyncOf, ReadInv

\* After a delete the cached voice and the lists go, then the document.
LEMMA DropVoiceSync ==
  ASSUME IInv, RedisReliable, NEW r \in Requests, Serve(r), DropVoice(r), enabled' = enabled,
         SyncOf(r)
  PROVE  SyncOf(r)'
  <1>1. at[r] = "dropVoice" /\ UNCHANGED <<table, docs, got>>
    BY DEF DropVoice, Step
  <1>2. /\ at'[r] = "dropDoc" /\ cache' = [cache EXCEPT ![op[r].voice] = 0]
        /\ list' = [list EXCEPT ![op[r].user] = NoList] /\ op' = op
    BY <1>1, SyncFacts DEF DropVoice, Without, Step
  <1>3. VoicesBut(r)'
    <2>1. ASSUME NEW w \in Voices PROVE cache'[w] \in {0, table[w]}
      BY <1>1, <1>2, SyncFacts DEF SyncOf, VoicesBut, StaleVoice, Rows
    <2> QED
      BY <1>1, <2>1 DEF VoicesBut
  <1>4. ListsBut(r)'
    <2>1. ASSUME NEW o \in Tags PROVE list'[o] \in {NoList, RowsOf(o)}
      BY <1>2, SyncFacts, <1>1 DEF SyncOf, ListsBut, StaleList
    <2> QED
      BY <1>1, <2>1, SyncFacts DEF ListsBut
  <1>5. DocsBut(r)'
    BY <1>1, <1>2 DEF SyncOf, DocsBut, StaleDocs, Rewrites
  <1> QED
    BY <1>2, <1>3, <1>4, <1>5 DEF SyncOf, ReadInv

\* The document that a delete takes away is the only one of its voice.
LEMMA DropDocSync ==
  ASSUME IInv, OwnInv, RedisReliable, NEW r \in Requests, Serve(r), DropDoc(r),
         enabled' = enabled, SyncOf(r)
  PROVE  SyncOf(r)'
  <1> DEFINE v == op[r].voice
  <1>1. at[r] = "dropDoc" /\ UNCHANGED <<table, cache, list, got>>
    BY DEF DropDoc, Step
  <1>2. at'[r] = "done" /\ docs' = [docs EXCEPT ![<<op[r].user, v>>] = 0]
    BY <1>1, SyncFacts DEF DropDoc, Step
  <1>3. VoicesBut(r)' /\ ListsBut(r)'
    BY <1>1, SyncFacts DEF SyncOf, VoicesBut, ListsBut, StaleVoice, StaleList, Rewrites
  <1>4. DocsBut(r)'
    <2> SUFFICES ASSUME enabled = "yes", NEW d \in Docs
                 PROVE  docs'[d] \in {0, table[d[2]]}
      BY <1>1 DEF DocsBut
    <2>1. CASE d = <<op[r].user, v>>
      BY <1>1, <1>2, <2>1, SyncFacts
    <2>2. CASE d # <<op[r].user, v>>
      <3>1. docs'[d] = docs[d]
        BY <1>2, <2>2, <1>1, SyncFacts
      <3>2. d[2] = v => docs[d] = 0
        BY <1>1, <2>2 DEF IInv, DocsCarryOwner, OwnInv, Docs
      <3> QED
        BY <3>1, <3>2 DEF SyncOf, DocsBut, StaleDocs
    <2> QED
      BY <2>1, <2>2
  <1> QED
    BY <1>2, <1>3, <1>4 DEF SyncOf, ReadInv

\* A call of the one request in progress.
LEMMA ServeSync ==
  ASSUME IInv, OwnInv, SyncInv, NEW r \in Requests, Serve(r), Watch
  PROVE  SyncInv'
  <1> SUFFICES ASSUME RedisReliable, serial'
               PROVE  \/ Active' = {} /\ Synced'
                      \/ Active' = {r} /\ SyncOf(r)'
    BY DEF SyncInv, Watch, RedisReliable
  <1>1. TypeOK /\ OpInv /\ PlaceInv
    BY DEF IInv
  <1>2. /\ op' = op /\ \A q \in Requests \ {r} : at'[q] = at[q]
        /\ at[r] \in Places /\ at[r] \notin Ended \cup {"new"}
        /\ at'[r] # "new"
    BY <1>1, ServeFrame DEF TypeOK
  <1>3. r \in Active /\ serial
    BY <1>2 DEF Active, Watch
  <1>4. Active = {r} /\ SyncOf(r)
    BY <1>3 DEF SyncInv
  <1>5. SyncOf(r)'
    <2>1. CASE at[r] \in Calm \ {"setList", "indexRows"}
      BY <1>4, <2>1, CalmServes
    <2>2. CASE at[r] \in {"cacheVoice", "putDoc", "setList", "indexRows", "dropLists",
                          "dropVoice", "dropDoc"}
      <3>1. /\ enabled' = enabled
            /\ \/ CacheVoice(r) \/ PutDoc(r) \/ SetList(r) \/ IndexRows(r)
               \/ DropLists(r) \/ DropVoice(r) \/ DropDoc(r)
        BY <2>2 DEF Serve, Serves, ReadCache, ReadRow, ReadList, ReadRows, SearchRows, Upload,
          InsertRow, Cleanup, UpdateRow, DeleteAudio, DeleteRow, FindSystem, InsertSystem,
          UploadSystem, DropSystem, UpdateSystem, Search, Step
      <3> QED
        BY <1>4, <3>1, CacheSync, DocSync, ListSync, IndexSync, DropListsSync, DropVoiceSync,
          DropDocSync
    <2> QED
      BY <1>2, <2>1, <2>2 DEF Places, Calm
  <1>6. CASE at'[r] \in Ended
    <2>1. Active' = {}
      BY <1>2, <1>4, <1>6 DEF Active
    <2>2. Synced'
      BY <1>5, <1>6 DEF SyncOf, VoicesBut, ListsBut, DocsBut, StaleVoice, StaleList, StaleDocs,
        Rewrites, Ended, Synced, VoicesInSync, ListsInSync, DocsInSync
    <2> QED
      BY <2>1, <2>2
  <1>7. CASE at'[r] \notin Ended
    <2>1. Active' = {r}
      BY <1>2, <1>4, <1>7 DEF Active
    <2> QED
      BY <1>5, <2>1
  <1> QED
    BY <1>6, <1>7

\* What a request that begins does, to the requests in progress as well.
LEMMA BeginsFrame ==
  ASSUME TypeOK, NEW r \in Requests, Begins(r)
  PROVE  /\ UNCHANGED <<table, cache, list, docs, got>>
         /\ at[r] = "new"
         /\ at'[r] \in {"readRow", "readList", "upload", "updateRow", "readCache",
                        "findSystem", "search"}
         /\ \A q \in Requests \ {r} : at'[q] = at[q] /\ op'[q] = op[q]
         /\ Active' = Active \cup {r}
  <1>1. PICK o : Askable(o) /\ Begin(r, o)
    BY BeginsAskable
  <1>2. o.kind \in AllKinds
    BY <1>1 DEF Askable, Ops
  <1>3. First(o.kind) \in {"readRow", "readList", "upload", "updateRow", "readCache",
                           "findSystem", "search"}
    BY <1>2 DEF First, AllKinds
  <1> HIDE DEF First
  <1>4. /\ at[r] = "new" /\ at'[r] = First(o.kind)
        /\ \A q \in Requests \ {r} : at'[q] = at[q] /\ op'[q] = op[q]
    BY <1>1 DEF Begin, TypeOK
  <1>5. Active' = Active \cup {r}
    BY <1>3, <1>4 DEF Active, Ended
  <1> QED
    BY <1>1, <1>3, <1>4, <1>5 DEF Begin, redis

\* A request that begins beside no other finds Redis in sync.
LEMMA BeginsSync ==
  ASSUME IInv, SyncInv, IsFiniteSet(Active), NEW r \in Requests, Begins(r), UNCHANGED enabled,
         Watch
  PROVE  SyncInv'
  <1> SUFFICES ASSUME RedisReliable, serial'
               PROVE  Active' = {r} /\ SyncOf(r)'
    BY DEF SyncInv, Watch, RedisReliable
  <1>1. TypeOK
    BY DEF IInv
  <1>2. Active = {} /\ Active' = {r}
    <2>1. Active' = Active \cup {r} /\ r \notin Active
      BY <1>1, BeginsFrame DEF Active
    <2>2. IsFiniteSet(Active') /\ Cardinality(Active') = Cardinality(Active) + 1
      BY <2>1, FS_AddElement
    <2>3. Cardinality(Active) \in Nat /\ Cardinality(Active') <= 1
      BY FS_CardinalityType DEF Watch
    <2>4. Cardinality(Active) = 0
      BY <2>2, <2>3
    <2> QED
      BY <2>1, <2>4, FS_EmptySet
  <1>3. Synced
    BY <1>2 DEF SyncInv, Watch
  <1>4. ReadInv(r)'
    BY <1>1, BeginsFrame DEF ReadInv
  <1> QED
    BY <1>1, <1>2, <1>3, <1>4, BeginsFrame, ReadsSync

\* An entry that runs out is not stale.
LEMMA ExpireSync ==
  ASSUME IInv, SyncInv, Expire, UNCHANGED enabled, Watch
  PROVE  SyncInv'
  <1> SUFFICES ASSUME RedisReliable, serial'
               PROVE  \/ Active' = {} /\ Synced'
                      \/ \E q \in Requests : Active' = {q} /\ SyncOf(q)'
    BY DEF SyncInv, Watch, RedisReliable
  <1>1. /\ UNCHANGED <<table, at, op, got>> /\ Active' = Active
        /\ \A o \in Tags : RowsOf(o)' = RowsOf(o)
    BY DEF Expire, ExpireVoice, ExpireList, ExpireDoc, Active, RowsOf
  <1>2. /\ \A v \in Voices : cache'[v] \in {0, cache[v]}
        /\ \A o \in Tags : list'[o] \in {NoList, list[o]}
        /\ \A d \in Docs : docs'[d] \in {0, docs[d]}
    <2>1. cache \in Rows /\ list \in [Tags -> Rows \cup {NoList}] /\ docs \in [Docs -> 0..MaxVersion]
      BY DEF IInv, TypeOK
    <2>2. CASE \E v \in Voices : ExpireVoice(v)
      BY <2>1, <2>2 DEF ExpireVoice, Rows
    <2>3. CASE \E o \in Tags : ExpireList(o)
      BY <2>1, <2>3 DEF ExpireList, Without
    <2>4. CASE \E d \in Docs : ExpireDoc(d)
      BY <2>1, <2>4 DEF ExpireDoc
    <2> QED
      BY <2>2, <2>3, <2>4 DEF Expire
  <1>3. CASE Active = {} /\ Synced
    BY <1>1, <1>2, <1>3 DEF Synced, VoicesInSync, ListsInSync, DocsInSync
  <1>4. ASSUME NEW q \in Requests, Active = {q}, SyncOf(q)
        PROVE  Active' = {q} /\ SyncOf(q)'
    <2>1. VoicesBut(q)'
      BY <1>1, <1>2, <1>4 DEF SyncOf, VoicesBut, StaleVoice, Rewrites
    <2>2. ListsBut(q)'
      BY <1>1, <1>2, <1>4 DEF SyncOf, ListsBut, StaleList, Rewrites
    <2>3. DocsBut(q)'
      BY <1>1, <1>2, <1>4 DEF SyncOf, DocsBut, StaleDocs, Rewrites
    <2>4. ReadInv(q)'
      <3>1. at[q] \in {"setList", "indexRows"} => op[q].user \in Tags
        BY PlaceFacts DEF IInv
      <3> QED
        BY <1>1, <1>4, <3>1 DEF SyncOf, ReadInv
    <2> QED
      BY <1>1, <1>4, <2>1, <2>2, <2>3, <2>4 DEF SyncOf
  <1> QED
    BY <1>3, <1>4 DEF SyncInv, Watch

\* The other steps change no voice for nobody, and finitely many are in progress.
LEMMA OwnKeeps ==
  ASSUME IInv, OwnInv, IsFiniteSet(Active), [Next]_vars
  PROVE  OwnInv' /\ IsFiniteSet(Active')
  <1>1. TypeOK /\ OpInv /\ PlaceInv /\ AudioInv
    BY DEF IInv
  <1>2. ASSUME NEW r \in Requests, Serve(r)
        PROVE  OwnInv' /\ IsFiniteSet(Active')
    <2>1. Active' \subseteq Active
      BY <1>1, <1>2, ServeFrame DEF Active
    <2> QED
      BY <1>1, <1>2, <2>1, ServeOwn, FS_Subset
  <1>3. ASSUME NEW r \in Requests, Begins(r)
        PROVE  OwnInv' /\ IsFiniteSet(Active')
    BY <1>1, <1>3, BeginsFrame, FS_AddElement DEF OwnInv, Rewrites
  <1>4. ASSUME NEW r \in Requests, Crash(r)
        PROVE  OwnInv' /\ IsFiniteSet(Active')
    <2>1. op' = op /\ at'[r] = "failed" /\ \A q \in Requests \ {r} : at'[q] = at[q]
      BY <1>1, <1>4 DEF Crash, TypeOK
    <2>2. Active' \subseteq Active
      BY <2>1 DEF Active, Ended
    <2> QED
      BY <2>1, <2>2, FS_Subset DEF OwnInv, Rewrites
  <1>5. CASE UNCHANGED <<at, op>>
    BY <1>5 DEF OwnInv, Rewrites, Active
  <1> QED
    BY <1>2, <1>3, <1>4, <1>5 DEF Next, Call, vars, Expire, ExpireVoice, ExpireList, ExpireDoc

\* Requests served one at a time leave Redis agreeing with the rows when Redis
\* carries out its commands, for any number of users and voices, in every order
\* of requests and expiries, whatever S3 and the database answer
\* (cached_voice_repo.go:85-150, 293-299).
THEOREM SerialHolds == Spec => []SerialInSync
  <1> DEFINE Inv == OwnInv /\ IsFiniteSet(Active) /\ SyncInv
  <1>1. Init => Inv
    <2> SUFFICES ASSUME Init PROVE Inv
      OBVIOUS
    <2>1. Active = {} /\ \A r \in Requests : at[r] = "new"
      BY DEF Init, Active
    <2>2. OwnInv
      BY <2>1 DEF OwnInv, Rewrites
    <2>3. Synced
      BY DEF Init, Synced, VoicesInSync, ListsInSync, DocsInSync, NoRows
    <2> QED
      BY <2>1, <2>2, <2>3, FS_EmptySet DEF SyncInv
  <1>2. IInv /\ Inv /\ [Next]_vars => Inv'
    <2> SUFFICES ASSUME IInv, Inv, [Next]_vars PROVE SyncInv'
      BY OwnKeeps
    <2>1. CASE UNCHANGED vars
      BY <2>1 DEF vars, redis, SyncInv, Active, Synced, SyncOf, VoicesInSync, ListsInSync,
        DocsInSync, VoicesBut, ListsBut, DocsBut, ReadInv, StaleVoice, StaleList, StaleDocs,
        Rewrites, RowsOf, RedisReliable
    <2>2. ASSUME NEW r \in Requests, Crash(r), Watch PROVE SyncInv'
      BY <2>2 DEF Crash, SyncInv, RedisReliable, Watch
    <2> QED
      BY <2>1, <2>2, ServeSync, BeginsSync, ExpireSync DEF Next, Call
  <1>3. Inv => SerialInSync
    BY DEF SerialInSync, SyncInv, Synced
  <1> HIDE DEF Inv
  <1> QED
    BY <1>1, <1>2, <1>3, Inductive, PTL DEF Spec
=============================================================================
