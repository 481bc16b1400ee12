---------------------------- MODULE AudioLibrary ----------------------------
(***************************************************************************)
(* Listening to audio in the web application: the IndexedDB cache of audio *)
(* blobs with its size cap, the fetches that go through it, and the preview*)
(* of each voice card with its audio player.                               *)
(*                                                                         *)
(* A fetch is one run of handlePlayPause, fetchAudioWithCache or           *)
(* prefetchAudio; the object URL it creates is named by it.  A step is an  *)
(* IndexedDB transaction, a request, or what runs between two awaits.      *)
(***************************************************************************)
EXTENDS Naturals, Sequences, SequencesExt, FiniteSets

CONSTANTS Voices, Objects,
          KeyOf,     \* KeyOf[v]: the S3 key of a voice's audio
          Size,      \* Size[o]: the size of an object's audio
          Cap,       \* CACHE_CAP_BYTES
          MaxFetches \* bound on fetches

ASSUME LibraryAssumption == /\ Voices # {} /\ KeyOf \in [Voices -> Objects]
                            /\ Size \in [Objects -> Nat]
                            /\ Cap \in Nat /\ MaxFetches \in Nat

Fetches == 1..MaxFetches
NoUrl   == 0

VARIABLES stored,   \* the cache: <<o, p>> for objects in it, o accessed no later than p
          hints,    \* voices whose provider key is persisted
          lapsed,   \* history: an eviction was skipped or aborted, and none begun since
          fetch,    \* fetch[i]: where fetch i is
          urls,     \* object URLs that are not revoked
          preview   \* preview[v]: the preview in the card of voice v

libraryVars == <<stored, hints, lapsed, fetch, urls, preview>>

\* kind says who called; a preview's handler is mine unless its preview unmounted
\* before it had its blob.
NoFetch == [at |-> "idle", kind |-> "prefetch", voice |-> CHOOSE v \in Voices : TRUE,
            key |-> CHOOSE o \in Objects : TRUE, mine |-> FALSE, victims |-> {}]

\* ref is objectUrlRef; item the URL the audio element was given, pending that
\* its play promise has not settled, queue the calls that wait for that; shown
\* what the last frame rendered; held what the pointer on the slider stopped.
\* last is history: what the audio was last asked, or did of itself.
Unmounted == [mounted |-> FALSE, ref |-> NoUrl, item |-> NoUrl,
              paused |-> TRUE, pending |-> FALSE, queue |-> <<>>,
              shown |-> [active |-> FALSE, playing |-> FALSE],
              held |-> "no", last |-> "pause"]
Mounted == [Unmounted EXCEPT !.mounted = TRUE]

LibraryInit ==
  /\ stored = {} /\ hints = {} /\ lapsed = FALSE /\ urls = {}
  /\ fetch = [i \in Fetches |-> NoFetch]
  /\ preview = [v \in Voices |-> Unmounted]

-----------------------------------------------------------------------------
(* The audio player (components/ui/audio-player.tsx).                      *)

\* audio.play(), on the current source or on the one the item brings.
Running(p) == [p EXCEPT !.paused = FALSE, !.pending = TRUE]
Loading(p) == [Running(p) EXCEPT !.item = p.ref]
Halted(p)  == [p EXCEPT !.paused = TRUE, !.pending = FALSE]

\* What a call does when it waits no more.  An item is played by a handler that
\* rendered it inactive, so it is never taken for the active one.
Do(p, c) == CASE c = "play"  -> Running(p)
              [] c = "pause" -> Halted(p)
              [] c = "item"  -> Loading(p)

\* The promise settled: the calls that waited for it go on in their order.  The
\* last one decides, and an item among them is loaded.
Resumed(p) == IF p.queue = <<>> THEN [p EXCEPT !.pending = FALSE]
              ELSE [Do(p, Last(p.queue)) EXCEPT
                      !.queue = <<>>, !.item = IF "item" \in ToSet(p.queue) THEN p.ref ELSE @]

\* Mutant: pause does not wait for the play promise.
Call_PauseAtOnce(p, c) ==
  LET q == [p EXCEPT !.last = c]
  IN  CASE c = "pause" -> Resumed(Halted(q))
        [] c # "pause" /\ p.pending -> [q EXCEPT !.queue = Append(@, c)]
        [] OTHER -> Do(q, c)

\* play, play(item) and pause first await the pending play promise.
Call(p, c) ==
  LET q == [p EXCEPT !.last = c]
  IN  IF p.pending THEN [q EXCEPT !.queue = Append(@, c)] ELSE Do(q, c)

Underway(i) == fetch[i].at \notin {"idle", "done"}

\* isLoadingAudio: the handler of a first play has not ended.
IsLoading(v) == \E i \in Fetches : Underway(i) /\ fetch[i].mine /\ fetch[i].voice = v

\* The promise of v settles: the audio plays, or the browser refused to start
\* it.  A handler that awaited it ends, unless its item only starts now.
PlaySettles(v) ==
  LET p == preview[v]
      refused == [p EXCEPT !.paused = TRUE, !.last = IF p.queue = <<>> THEN "pause" ELSE @]
      Ends(q) == [i \in Fetches |->
                    IF fetch[i].at = "playing" /\ fetch[i].voice = v
                       /\ ("item" \in ToSet(p.queue) => ~q.pending)
                    THEN [fetch[i] EXCEPT !.at = "done"] ELSE fetch[i]]
  IN  /\ p.pending
      /\ \E q \in {Resumed(p), Resumed(refused)} :
           preview' = [preview EXCEPT ![v] = q] /\ fetch' = Ends(q)
      /\ UNCHANGED <<stored, hints, lapsed, urls>>

\* Only the preview of v changes, to p.
Shows(v, p) == /\ preview' = [preview EXCEPT ![v] = p]
               /\ UNCHANGED <<stored, hints, lapsed, fetch, urls>>

\* The audio comes to its end.
Ended(v) ==
  LET p == preview[v]
  IN  /\ p.item # NoUrl /\ ~p.paused /\ ~p.pending
      /\ Shows(v, [p EXCEPT !.paused = TRUE, !.last = "pause"])

\* Every animation frame renders the audio element's state.
Frame(v) ==
  LET p == preview[v]
      now == [active |-> p.item # NoUrl, playing |-> ~p.paused]
  IN  p.mounted /\ p.shown # now /\ Shows(v, [p EXCEPT !.shown = now])

\* The space key on the slider, which is enabled once a duration is known.
Space(v) ==
  LET p == preview[v]
  IN  /\ p.shown.active
      /\ Shows(v, Call(p, IF p.shown.playing THEN "pause" ELSE "play"))

\* Dragging the slider pauses the audio, and starts it again if it was playing.
Grab(v) ==
  LET p == preview[v]
  IN  /\ p.shown.active /\ p.held = "no"
      /\ Shows(v, [Call(p, "pause") EXCEPT
                     !.held = IF p.shown.playing THEN "playing" ELSE "paused"])

Release(v) ==
  LET p == [preview[v] EXCEPT !.held = "no"]
  IN  /\ preview[v].held # "no"
      /\ Shows(v, IF preview[v].held = "playing" THEN Call(p, "play") ELSE p)

-----------------------------------------------------------------------------
(* The cache (lib/audio-cache.ts).                                         *)

Cached == {o \in Objects : <<o, o>> \in stored}

\* What was accessed no earlier than o.
Since(o) == {p \in Cached : <<o, p>> \in stored}

Without(S) == {e \in stored : e[1] \notin S /\ e[2] \notin S}

\* A read counts as an access, like a write; both are one transaction.
Touched(o) == Without({o}) \cup ((Cached \cup {o}) \X {o})

\* How many bytes the objects S have.
Bytes(S) == Cardinality(UNION {{o} \X (1..Size[o]) : o \in S})

\* Mutant: one entry too few.
Victims_StopsEarly == {o \in Cached : Bytes(Since(o) \ {o}) > Cap}

\* The entries to evict, the least recently accessed first, until the rest fits.
Victims == {o \in Cached : Bytes(Since(o)) > Cap}

RemoveHint(v) == hints' = hints \ {v}

ClearAudioCache ==
  /\ stored' = {} /\ hints' = {} /\ UNCHANGED <<lapsed, fetch, urls, preview>>

RemoveCachedAudio(o) ==
  /\ o \in Cached
  /\ stored' = Without({o})
  /\ UNCHANGED <<hints, lapsed, fetch, urls, preview>>

-----------------------------------------------------------------------------
(* Fetches (lib/audio-fetch.ts and handlePlayPause of the preview).        *)

At(i, stage) == fetch[i].at = stage
Goes(i, stage) == fetch' = [fetch EXCEPT ![i].at = stage]

Begin(i, call) ==
  /\ At(i, "idle") /\ \A j \in 1..(i - 1) : ~At(j, "idle")
  /\ fetch' = [fetch EXCEPT ![i] = call]
  /\ UNCHANGED <<stored, hints, lapsed, urls, preview>>

\* The button of the preview, disabled while it loads.
PlayPause(v) ==
  LET p == preview[v]
  IN  /\ p.mounted /\ ~IsLoading(v) /\ p.held = "no"
      /\ IF p.shown.active
         THEN Shows(v, Call(p, IF p.shown.playing THEN "pause" ELSE "play"))
         ELSE \E i \in Fetches : Begin(i, [at |-> "hint", kind |-> "preview", voice |-> v,
                                           key |-> KeyOf[v], mine |-> TRUE, victims |-> {}])

Prefetch(o) ==
  \E i \in Fetches : Begin(i, [NoFetch EXCEPT !.at = "lookup", !.key = o])

FetchGeneration(i, o) ==
  Begin(i, [NoFetch EXCEPT !.at = "lookup", !.kind = "generation", !.key = o])

\* The fetch has its blob.  A preview's handler revokes the URL it held before
\* and plays the new one, if there is an audio element left to play it.
Delivered(i) ==
  LET v == fetch[i].voice
      p == preview[v]
      played == Call([p EXCEPT !.ref = i], "item")
  IN  CASE fetch[i].kind = "prefetch" -> Goes(i, "done") /\ UNCHANGED <<urls, preview>>
        [] fetch[i].kind # "prefetch" /\ ~fetch[i].mine ->
             Goes(i, "done") /\ urls' = urls \cup {i} /\ UNCHANGED preview
        [] OTHER -> /\ Goes(i, "playing")
                    /\ urls' = (urls \ {p.ref}) \cup {i}
                    /\ preview' = [preview EXCEPT ![v] = played]

ReadHint(i) ==
  /\ At(i, "hint")
  /\ Goes(i, IF fetch[i].voice \in hints THEN "cached" ELSE "ask")
  /\ UNCHANGED <<stored, hints, lapsed, urls, preview>>

\* getCachedAudioObjectUrl, and the first step of fetchAudioWithCache.
ReadCache(i, stage, missed) ==
  /\ At(i, stage)
  /\ IF fetch[i].key \in Cached
     THEN stored' = Touched(fetch[i].key) /\ Delivered(i)
     ELSE Goes(i, missed) /\ UNCHANGED <<stored, urls, preview>>
  /\ UNCHANGED <<hints, lapsed>>

\* getVoicePlayback: a fresh cached answer, or the RPC; then the provider key is
\* persisted, which may fail unnoticed.
AskUrl(i) ==
  /\ At(i, "ask") /\ Goes(i, "note")
  /\ UNCHANGED <<stored, hints, lapsed, urls, preview>>

NoteHint(i) ==
  /\ At(i, "note") /\ Goes(i, "lookup")
  /\ hints' = hints \cup {fetch[i].voice}
  /\ UNCHANGED <<stored, lapsed, urls, preview>>

Download(i) ==
  /\ At(i, "download") /\ Goes(i, "store")
  /\ UNCHANGED <<stored, hints, lapsed, urls, preview>>

Store(i) ==
  /\ At(i, "store") /\ Goes(i, "weigh")
  /\ stored' = Touched(fetch[i].key)
  /\ UNCHANGED <<hints, lapsed, urls, preview>>

\* enforceCacheCap reads all entries in one transaction and deletes from that
\* reading in another.
Weigh(i) ==
  /\ At(i, "weigh")
  /\ IF Victims = {}
     THEN Delivered(i)
     ELSE /\ fetch' = [fetch EXCEPT ![i].at = "evict", ![i].victims = Victims]
          /\ UNCHANGED <<urls, preview>>
  /\ lapsed' = FALSE
  /\ UNCHANGED <<stored, hints>>

Evict(i) ==
  /\ At(i, "evict")
  /\ stored' = Without(fetch[i].victims)
  /\ Delivered(i)
  /\ UNCHANGED <<hints, lapsed>>

\* A request, or a transaction that cannot be started, ends the fetch; a read that
\* fails counts as a miss, and a key that is not persisted goes unnoticed.
StepFails(i) ==
  /\ \/ fetch[i].at \in {"hint", "cached", "ask", "lookup", "download"} /\ Goes(i, "done")
     \/ fetch[i].at \in {"hint", "cached"} /\ Goes(i, "ask")
     \/ At(i, "lookup") /\ Goes(i, "download")
     \/ At(i, "note") /\ Goes(i, "lookup")
  /\ UNCHANGED <<stored, hints, lapsed, urls, preview>>

\* The blob is had all the same when its access is not written, or it is not put;
\* a put that aborts after its request succeeded goes on to the eviction.
WriteFails(i) ==
  /\ \/ fetch[i].at \in {"cached", "lookup"} /\ fetch[i].key \in Cached /\ Delivered(i)
     \/ At(i, "store") /\ Delivered(i)
     \/ At(i, "store") /\ Goes(i, "weigh") /\ UNCHANGED <<urls, preview>>
  /\ UNCHANGED <<stored, hints, lapsed>>

\* The entries are not read, which counts as an empty cache, or the victims are
\* not deleted: nothing is evicted, and nobody is told.
EvictionFails(i) == /\ fetch[i].at \in {"weigh", "evict"} /\ Delivered(i)
                    /\ lapsed' = TRUE /\ UNCHANGED <<stored, hints>>

FetchFails(i) == StepFails(i) \/ WriteFails(i) \/ EvictionFails(i)

FetchStep(i) ==
  \/ ReadHint(i) \/ ReadCache(i, "cached", "ask") \/ AskUrl(i) \/ NoteHint(i)
  \/ ReadCache(i, "lookup", "download") \/ Download(i) \/ Store(i) \/ Weigh(i) \/ Evict(i)

-----------------------------------------------------------------------------
\* Mutant: nothing is revoked when a preview unmounts.
ShowPreviews_KeepsUrls(S) ==
  LET gone == {v \in Voices : preview[v].mounted} \ S
  IN  /\ preview' = [v \in Voices |-> CASE v \in gone -> Unmounted
                                        [] v \in S /\ ~preview[v].mounted -> Mounted
                                        [] OTHER -> preview[v]]
      /\ fetch' = [i \in Fetches |->
                     CASE fetch[i].voice \in gone /\ At(i, "playing") -> [fetch[i] EXCEPT !.at = "done"]
                       [] fetch[i].voice \in gone /\ fetch[i].kind = "preview" /\ Underway(i)
                            /\ ~At(i, "playing") -> [fetch[i] EXCEPT !.mine = FALSE]
                       [] OTHER -> fetch[i]]
      /\ UNCHANGED urls

\* The page shows the cards of the voices S: a preview that mounts is new, one
\* that unmounts revokes the URL it holds; its handler goes on, without it.
ShowPreviews(S) ==
  LET gone == {v \in Voices : preview[v].mounted} \ S
  IN  /\ preview' = [v \in Voices |-> CASE v \in gone -> Unmounted
                                        [] v \in S /\ ~preview[v].mounted -> Mounted
                                        [] OTHER -> preview[v]]
      /\ urls' = urls \ {preview[v].ref : v \in gone}
      /\ fetch' = [i \in Fetches |->
                     CASE fetch[i].voice \in gone /\ At(i, "playing") -> [fetch[i] EXCEPT !.at = "done"]
                       [] fetch[i].voice \in gone /\ fetch[i].kind = "preview" /\ Underway(i)
                            /\ ~At(i, "playing") -> [fetch[i] EXCEPT !.mine = FALSE]
                       [] OTHER -> fetch[i]]

-----------------------------------------------------------------------------
Stages == {"idle", "hint", "cached", "ask", "note", "lookup", "download", "store",
           "weigh", "evict", "playing", "done"}
Calls == {"play", "pause", "item"}

Handlers == [at : Stages, kind : {"preview", "prefetch", "generation"}, voice : Voices,
             key : Objects, mine : BOOLEAN, victims : SUBSET Objects]
Players == [mounted : BOOLEAN, ref : {NoUrl} \cup Fetches, item : {NoUrl} \cup Fetches,
            paused : BOOLEAN, pending : BOOLEAN, queue : Seq(Calls),
            shown : [active : BOOLEAN, playing : BOOLEAN],
            held : {"no", "paused", "playing"}, last : Calls]

LibraryTypeOK ==
  /\ stored \subseteq Objects \X Objects /\ hints \subseteq Voices /\ lapsed \in BOOLEAN
  /\ fetch \in [Fetches -> Handlers] /\ urls \subseteq Fetches
  /\ preview \in [Voices -> Players]

\* Whenever no fetch is between its put and the end of its eviction, the cache
\* fits its cap, however the transactions of several fetches interleaved and
\* whichever reads and writes failed; only an eviction that could not read the
\* entries, and so was skipped, or that was aborted may leave it over the cap,
\* until the next one reads them (audio-cache.ts:79-114, 160-187).
CacheWithinCap ==
  (~lapsed /\ \A i \in Fetches : fetch[i].at \notin {"weigh", "evict"}) => Bytes(Cached) <= Cap

\* A mounted preview plays from the one URL it holds, which is not revoked, and
\* ends up playing or paused as it was last asked, however play and pause calls
\* overlapped the promises of earlier ones (voice-audio-preview.tsx:89-97,
\* audio-player.tsx:128-184).
PlayerObeys == \A v \in Voices : LET p == preview[v] IN
  ~p.pending => /\ p.item = p.ref /\ (p.ref # NoUrl => p.ref \in urls)
                /\ (p.paused <=> p.last = "pause")

\* No object URL is left unrevoked but those that a mounted preview holds, the
\* generations' (which live as long as the page), and those that a fetch of a
\* preview delivered when the preview was gone (voice-audio-preview.tsx:36-43).
UrlsReleased == \A u \in urls :
  \/ \E v \in Voices : preview[v].ref = u
  \/ fetch[u].kind = "generation"
  \/ fetch[u].kind = "preview" /\ ~fetch[u].mine
=============================================================================
