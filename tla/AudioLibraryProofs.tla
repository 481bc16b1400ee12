-------------------------- MODULE AudioLibraryProofs --------------------------
(***************************************************************************)
(* The safety properties of the audio library, as one component of the     *)
(* web application, for any number of voices, objects and fetches, any     *)
(* sizes and any cap.                                                      *)
(***************************************************************************)
EXTENDS AudioLibrary, TLAPS, FiniteSetTheorems

USE LibraryAssumption DEF LibraryAssumption

-----------------------------------------------------------------------------
(* The library alone: whatever order its handlers and their callers take.  *)

LibraryNext ==
  \/ \E v \in Voices : \/ PlayPause(v) \/ Space(v) \/ Grab(v) \/ Release(v)
                       \/ PlaySettles(v) \/ Ended(v) \/ Frame(v)
  \/ ClearAudioCache
  \/ \E o \in Objects : RemoveCachedAudio(o) \/ Prefetch(o)
  \/ \E i \in Fetches : \/ FetchStep(i) \/ FetchFails(i)
                        \/ \E o \in Objects : FetchGeneration(i, o)
  \/ \E S \in SUBSET Voices : ShowPreviews(S) /\ UNCHANGED <<stored, hints, lapsed>>
  \/ \E v \in Voices : RemoveHint(v) /\ UNCHANGED <<stored, lapsed, fetch, urls, preview>>

LibrarySpec == LibraryInit /\ [][LibraryNext]_libraryVars

-----------------------------------------------------------------------------
(* The inductive invariant.                                                *)

\* The cache is finite and its entries are ordered by their last access.
OrderInv ==
  /\ IsFiniteSet(Cached)
  /\ \A o, p \in Objects : <<o, p>> \in stored => o \in Cached /\ p \in Cached
  /\ \A o, p \in Cached : <<o, p>> \in stored \/ <<p, o>> \in stored
  /\ \A o, p, q \in Objects : <<o, p>> \in stored /\ <<p, q>> \in stored => <<o, q>> \in stored

\* Once no fetch is about to weigh the cache, it fits, or does when one of the
\* evictions that are under way is done.
CapInv ==
  (~lapsed /\ \A i \in Fetches : ~At(i, "weigh")) =>
    \/ Bytes(Cached) <= Cap
    \/ \E i \in Fetches : At(i, "evict") /\ Bytes(Cached \ fetch[i].victims) <= Cap

\* What a player was last asked is what it does, or what it does last of what it
\* still waits to do.
Obedient(p) ==
  /\ p.queue # <<>> => p.pending /\ Last(p.queue) = p.last
  /\ p.pending /\ p.queue = <<>> => ~p.paused /\ p.last # "pause"
  /\ ~p.pending => (p.paused <=> p.last = "pause")
  /\ "item" \notin ToSet(p.queue) => p.item = p.ref

PreviewInv == \A v \in Voices : /\ Obedient(preview[v])
                                /\ ~preview[v].mounted => preview[v] = Unmounted

\* Only the handler of a preview that is mounted is a preview's own.
MineInv == \A i \in Fetches :
  /\ fetch[i].mine => fetch[i].kind = "preview"
  /\ fetch[i].mine /\ Underway(i) => preview[fetch[i].voice].mounted

\* An object URL was delivered; the one a preview holds was delivered to it, and
\* is not revoked.
UrlInv ==
  /\ \A u \in urls : fetch[u].at \in {"playing", "done"}
  /\ \A v \in Voices : preview[v].ref # NoUrl =>
       preview[v].ref \in urls /\ fetch[preview[v].ref].voice = v

PageInv == PreviewInv /\ MineInv /\ UrlInv /\ UrlsReleased

LibraryInv == LibraryTypeOK /\ OrderInv /\ CapInv /\ PageInv

-----------------------------------------------------------------------------
(* Sequences of calls, and sizes.                                          *)

\* A call that is queued is the last of the queue.
LEMMA QueueAppend ==
  ASSUME NEW q \in Seq(Calls), NEW c \in Calls
  PROVE  /\ Append(q, c) \in Seq(Calls) /\ Append(q, c) # <<>>
         /\ Last(Append(q, c)) = c
         /\ ToSet(Append(q, c)) = ToSet(q) \cup {c}
  <1>1. /\ Append(q, c) \in Seq(Calls) /\ Append(q, c) # <<>>
        /\ Len(Append(q, c)) = Len(q) + 1
        /\ DOMAIN Append(q, c) = 1..(Len(q) + 1) /\ DOMAIN q = 1..Len(q) /\ Len(q) \in Nat
        /\ \A n \in 1..Len(q) : Append(q, c)[n] = q[n]
        /\ Append(q, c)[Len(q) + 1] = c
    OBVIOUS
  <1>2. Last(Append(q, c)) = c
    BY <1>1 DEF Last
  <1>3. ToSet(Append(q, c)) \subseteq ToSet(q) \cup {c}
    BY <1>1 DEF ToSet
  <1>4. ToSet(q) \cup {c} \subseteq ToSet(Append(q, c))
    <2>1. Len(q) + 1 \in DOMAIN Append(q, c) /\ DOMAIN q \subseteq DOMAIN Append(q, c)
      BY <1>1
    <2> QED
      BY <1>1, <2>1 DEF ToSet
  <1> QED
    BY <1>1, <1>2, <1>3, <1>4

\* The last call of a queue that is not empty is one of its calls.
LEMMA QueueLast ==
  ASSUME NEW q \in Seq(Calls), q # <<>>
  PROVE  Last(q) \in Calls /\ Last(q) \in ToSet(q)
  <1>1. Len(q) \in DOMAIN q /\ q[Len(q)] \in Calls
    OBVIOUS
  <1> QED
    BY <1>1 DEF Last, ToSet

\* What finitely many objects weigh is a number, and fewer of them weigh no more.
LEMMA BytesMonotonic ==
  ASSUME NEW S \in SUBSET Objects, IsFiniteSet(S), NEW T \in SUBSET S
  PROVE  Bytes(S) \in Nat /\ Bytes(T) \in Nat /\ Bytes(T) <= Bytes(S)
  <1> DEFINE Of(o) == {o} \X (1..Size[o])
             Parts == {Of(o) : o \in S}
             f == [o \in S |-> Of(o)]
  <1>1. f \in Surjection(S, Parts)
    BY DEF Surjection
  <1>2. IsFiniteSet(Parts)
    BY <1>1, FS_Surjection
  <1>3. ASSUME NEW o \in S PROVE IsFiniteSet(Of(o))
    <2>1. 1 \in Int /\ Size[o] \in Int
      OBVIOUS
    <2>2. IsFiniteSet({o})
      BY FS_Singleton
    <2>3. IsFiniteSet(1..Size[o])
      BY <2>1, FS_Interval
    <2> QED
      BY <2>2, <2>3, FS_Product
  <1>4. IsFiniteSet(UNION Parts)
    <2>1. \A P \in Parts : IsFiniteSet(P)
      BY <1>3
    <2> HIDE DEF Parts
    <2> QED
      BY <1>2, <2>1, FS_UNION
  <1>5. UNION {Of(o) : o \in T} \in SUBSET UNION Parts
    OBVIOUS
  <1>6. /\ Bytes(S) = Cardinality(UNION Parts)
        /\ Bytes(T) = Cardinality(UNION {Of(o) : o \in T})
    BY DEF Bytes
  <1> HIDE DEF Parts, Of
  <1> QED
    BY <1>4, <1>5, <1>6, FS_Subset, FS_CardinalityType

\* Among finitely many objects of the cache one was accessed before the others.
LEMMA Earliest ==
  ASSUME LibraryTypeOK, OrderInv, NEW S \in SUBSET Cached, S # {}
  PROVE  \E o \in S : S \subseteq Since(o)
  <1> DEFINE Left(o) == Cached \ Since(o)
             T == {Left(o) : o \in S}
             R == StrictSubsetOrdering(Cached)
  <1>1. T \subseteq FiniteSubsetsOf(Cached) /\ T # {}
    <2>1. IsFiniteSet(Cached)
      BY DEF OrderInv
    <2>2. T \subseteq SUBSET Cached
      OBVIOUS
    <2>3. FiniteSubsetsOf(Cached) = SUBSET Cached
      BY <2>1, FS_FiniteSubsetsOfFinite
    <2> QED
      BY <2>2, <2>3
  <1>2. IsWellFoundedOn(R, FiniteSubsetsOf(Cached))
    BY FS_StrictSubsetOrderingWellFounded
  <1>3. \E x \in T : \A y \in T : <<y, x>> \notin R
    <2> HIDE DEF T, R
    <2> QED
      BY <1>1, <1>2, WFMin
  <1>4. PICK o \in S : \A q \in S : <<Left(q), Left(o)>> \notin R
    BY <1>3
  <1>5. ASSUME NEW q \in S PROVE q \in Since(o)
    <2>1. o \in Cached /\ q \in Cached /\ o \in Objects /\ q \in Objects
      BY DEF Cached
    <2>2. CASE <<o, q>> \in stored
      BY <2>1, <2>2 DEF Since
    <2>3. CASE <<q, o>> \in stored
      <3>1. Since(o) \subseteq Since(q)
        BY <2>1, <2>3 DEF Since, Cached, OrderInv
      <3>2. Left(q) = Left(o)
        <4>1. Left(q) \in SUBSET Cached /\ Left(o) \in SUBSET Cached
          OBVIOUS
        <4>2. Left(q) \subseteq Left(o)
          BY <3>1
        <4>3. <<Left(q), Left(o)>> \notin R
          BY <1>4
        <4> HIDE DEF Left
        <4> QED
          BY <4>1, <4>2, <4>3 DEF StrictSubsetOrdering
      <3>3. q \in Since(q)
        BY <2>1 DEF Since, Cached
      <3> QED
        BY <2>1, <3>2, <3>3
    <2> QED
      BY <2>1, <2>2, <2>3 DEF OrderInv
  <1> QED
    BY <1>5

\* What is not chosen for eviction fits: the earliest of it was not chosen.
LEMMA RestFits ==
  ASSUME LibraryTypeOK, OrderInv
  PROVE  Bytes(Cached \ Victims) <= Cap
  <1> DEFINE S == Cached \ Victims
  <1>1. Cached \in SUBSET Objects /\ S \in SUBSET Cached /\ IsFiniteSet(Cached)
    BY DEF Cached, OrderInv
  <1>2. CASE S = {}
    <2>1. UNION {{o} \X (1..Size[o]) : o \in S} = {}
      BY <1>2
    <2>2. Bytes(S) = Cardinality(UNION {{o} \X (1..Size[o]) : o \in S})
      BY DEF Bytes
    <2> HIDE DEF S
    <2>3. Bytes(S) = 0
      BY <2>1, <2>2, FS_EmptySet
    <2> QED
      BY <2>3 DEF S
  <1>3. CASE S # {}
    <2>1. PICK o \in S : S \subseteq Since(o)
      BY <1>1, <1>3, Earliest
    <2>2. Since(o) \in SUBSET Objects /\ IsFiniteSet(Since(o)) /\ Since(o) \subseteq Cached
      BY <1>1, FS_Subset DEF Since
    <2>3. Bytes(Since(o)) \in Nat /\ Bytes(S) \in Nat /\ Bytes(S) <= Bytes(Since(o))
      BY <2>1, <2>2, BytesMonotonic
    <2>4. ~(Bytes(Since(o)) > Cap)
      BY DEF Victims
    <2> QED
      BY <2>3, <2>4
  <1> QED
    BY <1>2, <1>3

-----------------------------------------------------------------------------
(* The player.                                                             *)

\* Player q holds what p holds for its preview.
SameHolder(p, q) == q.mounted = p.mounted /\ q.ref = p.ref

\* What a call does at once.
LEMMA DoFacts ==
  ASSUME NEW p \in Players, NEW c \in Calls
  PROVE  LET q == Do(p, c)
         IN  /\ q \in Players /\ SameHolder(p, q)
             /\ q.paused = (c = "pause") /\ q.pending = (c # "pause")
             /\ q.item = (IF c = "item" THEN p.ref ELSE p.item)
             /\ q.queue = p.queue /\ q.shown = p.shown /\ q.held = p.held /\ q.last = p.last
  <1>1. CASE c = "play"
    BY <1>1 DEF Do, Running, Players, SameHolder
  <1>2. CASE c = "pause"
    BY <1>2 DEF Do, Halted, Players, SameHolder
  <1>3. CASE c = "item"
    BY <1>3 DEF Do, Loading, Running, Players, SameHolder
  <1> QED
    BY <1>1, <1>2, <1>3 DEF Calls

\* A call to play or to pause keeps the player obedient: it waits, or is obeyed.
LEMMA CallFacts ==
  ASSUME NEW p \in Players, Obedient(p), NEW c \in {"play", "pause"}
  PROVE  Call(p, c) \in Players /\ SameHolder(p, Call(p, c)) /\ Obedient(Call(p, c))
  <1> DEFINE q == [p EXCEPT !.last = c]
  <1>1. c \in Calls /\ q \in Players /\ q.last = c /\ SameHolder(p, q)
        /\ q.queue = p.queue /\ q.item = p.item /\ q.pending = p.pending /\ q.paused = p.paused
    BY DEF Calls, Players, SameHolder
  <1>2. CASE p.pending
    <2>1. PICK r : r = [q EXCEPT !.queue = Append(q.queue, c)]
      OBVIOUS
    <2>2. Call(p, c) = r
      BY <1>2, <2>1 DEF Call
    <2>3. /\ r \in Players /\ r.queue = Append(p.queue, c) /\ r.last = c /\ r.pending
          /\ r.item = p.item /\ SameHolder(p, r)
      <3>1. p.queue \in Seq(Calls)
        BY DEF Players
      <3>2. Append(p.queue, c) \in Seq(Calls)
        BY <1>1, <3>1, QueueAppend
      <3> QED
        BY <1>1, <1>2, <2>1, <3>2 DEF Players, SameHolder
    <2>4. Obedient(r)
      <3>1. /\ r.queue # <<>> /\ Last(r.queue) = c
            /\ ToSet(r.queue) = ToSet(p.queue) \cup {c}
        BY <1>1, <2>3, QueueAppend DEF Players
      <3> QED
        BY <2>3, <3>1 DEF Obedient, SameHolder
    <2> QED
      BY <2>2, <2>3, <2>4
  <1>3. CASE ~p.pending
    <2>1. PICK r : r = Do(q, c)
      OBVIOUS
    <2>2. Call(p, c) = r
      BY <1>3, <2>1 DEF Call
    <2>3. /\ r \in Players /\ SameHolder(q, r) /\ r.paused = (c = "pause")
          /\ r.pending = (c # "pause") /\ r.item = q.item /\ r.queue = q.queue /\ r.last = q.last
      <3> HIDE DEF q
      <3> QED
        BY <1>1, <2>1, DoFacts
    <2>4. q.queue = <<>>
      BY <1>1, <1>3 DEF Obedient
    <2> HIDE DEF q
    <2> QED
      BY <1>1, <1>3, <2>2, <2>3, <2>4 DEF Obedient, SameHolder
  <1> QED
    BY <1>2, <1>3

\* A handler's call to play the URL of fetch i keeps the player obedient.
LEMMA ItemFacts ==
  ASSUME NEW p \in Players, Obedient(p), NEW i \in Fetches
  PROVE  LET r == Call([p EXCEPT !.ref = i], "item")
         IN  r \in Players /\ r.mounted = p.mounted /\ r.ref = i /\ Obedient(r)
  <1> DEFINE q == [p EXCEPT !.ref = i, !.last = "item"]
  <1>1. "item" \in Calls /\ q \in Players /\ q.last = "item" /\ q.mounted = p.mounted
        /\ q.ref = i /\ q.queue = p.queue /\ q.item = p.item /\ q.pending = p.pending
        /\ q.paused = p.paused
    BY DEF Calls, Players
  <1>2. /\ [[p EXCEPT !.ref = i] EXCEPT !.last = "item"] = q
        /\ [p EXCEPT !.ref = i].pending = p.pending
    BY DEF Players
  <1>3. CASE p.pending
    <2>1. PICK r : r = [q EXCEPT !.queue = Append(q.queue, "item")]
      OBVIOUS
    <2>2. Call([p EXCEPT !.ref = i], "item") = r
      BY <1>2, <1>3, <2>1 DEF Call
    <2>3. /\ r \in Players /\ r.queue = Append(p.queue, "item") /\ r.last = "item" /\ r.pending
          /\ r.mounted = p.mounted /\ r.ref = i
      <3>1. p.queue \in Seq(Calls)
        BY DEF Players
      <3>2. Append(p.queue, "item") \in Seq(Calls)
        BY <1>1, <3>1, QueueAppend
      <3> QED
        BY <1>1, <1>3, <2>1, <3>2 DEF Players
    <2>4. Obedient(r)
      <3>1. p.queue \in Seq(Calls) /\ "item" \in Calls /\ r.queue = Append(p.queue, "item")
        BY <1>1, <2>3 DEF Players
      <3>2. /\ r.queue # <<>> /\ Last(r.queue) = "item"
            /\ ToSet(r.queue) = ToSet(p.queue) \cup {"item"}
        BY <3>1, QueueAppend
      <3> QED
        BY <2>3, <3>2 DEF Obedient
    <2> QED
      BY <2>2, <2>3, <2>4
  <1>4. CASE ~p.pending
    <2>1. PICK r : r = Do(q, "item")
      OBVIOUS
    <2>2. Call([p EXCEPT !.ref = i], "item") = r
      BY <1>2, <1>4, <2>1 DEF Call
    <2>3. /\ r \in Players /\ SameHolder(q, r) /\ ~r.paused /\ r.pending
          /\ r.item = q.ref /\ r.queue = q.queue /\ r.last = q.last
      <3> HIDE DEF q
      <3> QED
        BY <1>1, <2>1, DoFacts
    <2>4. q.queue = <<>>
      BY <1>1, <1>4 DEF Obedient
    <2> HIDE DEF q
    <2> QED
      BY <1>1, <2>2, <2>3, <2>4 DEF Obedient, SameHolder
  <1> QED
    BY <1>3, <1>4

\* When the promise settles, the calls that waited for it are obeyed, the last one
\* in the end; without one, the player does what p does by then.
LEMMA ResumedFacts ==
  ASSUME NEW p \in Players, p.pending,
         p.queue # <<>> => Last(p.queue) = p.last,
         p.queue = <<>> => (p.paused <=> p.last = "pause"),
         "item" \notin ToSet(p.queue) => p.item = p.ref
  PROVE  Resumed(p) \in Players /\ SameHolder(p, Resumed(p)) /\ Obedient(Resumed(p))
  <1>1. <<>> \in Seq(Calls) /\ "item" \notin ToSet(<<>>)
    BY DEF ToSet
  <1>2. CASE p.queue = <<>>
    <2>1. PICK r : r = [p EXCEPT !.pending = FALSE]
      OBVIOUS
    <2>2. /\ r \in Players /\ SameHolder(p, r) /\ ~r.pending /\ r.queue = <<>>
          /\ r.item = p.item /\ r.paused = p.paused /\ r.last = p.last
      BY <1>2, <2>1 DEF Players, SameHolder
    <2>3. r.item = r.ref
      BY <1>1, <1>2, <2>2 DEF SameHolder
    <2>4. Obedient(r)
      BY <1>2, <2>2, <2>3 DEF Obedient
    <2>5. Resumed(p) = r
      BY <1>2, <2>1 DEF Resumed
    <2> QED
      BY <2>2, <2>4, <2>5
  <1>3. CASE p.queue # <<>>
    <2>1. PICK c : c = Last(p.queue)
      OBVIOUS
    <2>2. c \in Calls /\ c \in ToSet(p.queue) /\ c = p.last
      BY <1>3, <2>1, QueueLast DEF Players
    <2>3. PICK q : q = Do(p, c)
      OBVIOUS
    <2>4. /\ q \in Players /\ SameHolder(p, q) /\ q.paused = (c = "pause")
          /\ q.pending = (c # "pause") /\ q.last = c
          /\ q.item = (IF c = "item" THEN p.ref ELSE p.item)
      BY <2>2, <2>3, DoFacts
    <2>5. PICK r : r = [q EXCEPT !.queue = <<>>,
                                 !.item = IF "item" \in ToSet(p.queue) THEN p.ref ELSE q.item]
      OBVIOUS
    <2>6. p.ref \in {NoUrl} \cup Fetches
      BY DEF Players
    <2>7. /\ r \in Players /\ SameHolder(p, r) /\ r.paused = q.paused /\ r.pending = q.pending
          /\ r.last = c /\ r.queue = <<>>
          /\ r.item = (IF "item" \in ToSet(p.queue) THEN p.ref ELSE q.item)
      BY <1>1, <2>4, <2>5, <2>6 DEF Players, SameHolder
    <2>8. r.item = r.ref
      BY <2>2, <2>4, <2>7 DEF SameHolder
    <2>9. Obedient(r)
      BY <1>1, <2>4, <2>7, <2>8 DEF Obedient
    <2>10. Resumed(p) = r
      BY <1>3, <2>1, <2>3, <2>5 DEF Resumed
    <2> QED
      BY <2>7, <2>9, <2>10
  <1> QED
    BY <1>2, <1>3

\* A preview that mounts, or that has unmounted, asks nothing of its audio.
LEMMA UnmountedFacts ==
  /\ Unmounted \in Players /\ Obedient(Unmounted) /\ ~Unmounted.mounted /\ Unmounted.ref = NoUrl
  /\ Mounted \in Players /\ Obedient(Mounted) /\ Mounted.mounted /\ Mounted.ref = NoUrl
  <1>1. <<>> \in Seq(Calls) /\ "item" \notin ToSet(<<>>)
    BY DEF ToSet
  <1> QED
    BY <1>1 DEF Unmounted, Mounted, Obedient, Players, Calls

-----------------------------------------------------------------------------
(* The cache.                                                              *)

\* An access puts its object last in the order, and into the cache.
LEMMA TouchedOrder ==
  ASSUME LibraryTypeOK, OrderInv, NEW o \in Objects, stored' = Touched(o)
  PROVE  OrderInv' /\ Cached' = Cached \cup {o} /\ stored' \subseteq Objects \X Objects
  <1>1. Cached \subseteq Objects /\ IsFiniteSet(Cached)
    BY DEF Cached, OrderInv
  <1>2. \A p, q : <<p, q>> \in stored' <=>
          \/ <<p, q>> \in stored /\ p # o /\ q # o
          \/ p \in Cached \cup {o} /\ q = o
    <2>1. \A p, q : <<p, q>> \in Without({o}) <=> <<p, q>> \in stored /\ p # o /\ q # o
      BY DEF Without
    <2> QED
      BY <2>1 DEF Touched
  <1>3. stored' \subseteq Objects \X Objects
    BY <1>1 DEF LibraryTypeOK, Touched, Without
  <1>4. Cached' = Cached \cup {o}
    BY <1>1, <1>2 DEF Cached
  <1>5. IsFiniteSet(Cached')
    BY <1>1, <1>4, FS_AddElement
  <1>6. ASSUME NEW p \in Objects, NEW q \in Objects, <<p, q>> \in stored'
        PROVE  p \in Cached' /\ q \in Cached'
    BY <1>2, <1>4, <1>6 DEF OrderInv
  <1>7. ASSUME NEW p \in Cached', NEW q \in Cached'
        PROVE  <<p, q>> \in stored' \/ <<q, p>> \in stored'
    BY <1>2, <1>4 DEF OrderInv
  <1>8. ASSUME NEW p \in Objects, NEW q \in Objects, NEW r \in Objects,
               <<p, q>> \in stored', <<q, r>> \in stored'
        PROVE  <<p, r>> \in stored'
    <2>1. p \in Cached \cup {o}
      BY <1>4, <1>6, <1>8
    <2> QED
      BY <1>2, <1>8, <2>1 DEF OrderInv
  <1> QED
    BY <1>3, <1>4, <1>5, <1>6, <1>7, <1>8 DEF OrderInv

\* What a removal leaves is ordered as it was.
LEMMA WithoutOrder ==
  ASSUME LibraryTypeOK, OrderInv, NEW S, stored' = Without(S)
  PROVE  OrderInv' /\ Cached' = Cached \ S /\ stored' \subseteq Objects \X Objects
  <1>1. Cached \subseteq Objects /\ IsFiniteSet(Cached)
    BY DEF Cached, OrderInv
  <1>2. \A p, q : <<p, q>> \in stored' <=> <<p, q>> \in stored /\ p \notin S /\ q \notin S
    BY DEF Without
  <1>3. stored' \subseteq Objects \X Objects
    BY DEF LibraryTypeOK, Without
  <1>4. Cached' = Cached \ S
    BY <1>1, <1>2 DEF Cached
  <1>5. IsFiniteSet(Cached')
    BY <1>1, <1>4, FS_Subset
  <1>6. ASSUME NEW p \in Objects, NEW q \in Objects, <<p, q>> \in stored'
        PROVE  p \in Cached' /\ q \in Cached'
    BY <1>2, <1>4, <1>6 DEF OrderInv
  <1>7. ASSUME NEW p \in Cached', NEW q \in Cached'
        PROVE  <<p, q>> \in stored' \/ <<q, p>> \in stored'
    BY <1>2, <1>4 DEF OrderInv
  <1>8. ASSUME NEW p \in Objects, NEW q \in Objects, NEW r \in Objects,
               <<p, q>> \in stored', <<q, r>> \in stored'
        PROVE  <<p, r>> \in stored'
    BY <1>2, <1>8 DEF OrderInv
  <1> QED
    BY <1>3, <1>4, <1>5, <1>6, <1>7, <1>8 DEF OrderInv

\* A cache that does not grow fits, or will, as it did, while no fetch weighs it
\* or ends its eviction.
LEMMA CapKept ==
  ASSUME LibraryTypeOK, OrderInv, CapInv, Cached' \subseteq Cached, lapsed' = lapsed,
         \A j \in Fetches : \/ fetch'[j] = fetch[j]
                            \/ /\ fetch[j].at \notin {"weigh", "evict"}
                               /\ fetch'[j].at \notin {"weigh", "evict"}
  PROVE  CapInv'
  <1> SUFFICES ASSUME ~lapsed', \A i \in Fetches : fetch'[i].at # "weigh"
               PROVE  \/ Bytes(Cached') <= Cap
                      \/ \E i \in Fetches : /\ fetch'[i].at = "evict"
                                            /\ Bytes(Cached' \ fetch'[i].victims) <= Cap
    BY DEF CapInv, At, Bytes
  <1>1. Cached \in SUBSET Objects /\ IsFiniteSet(Cached) /\ Cap \in Nat
    BY DEF Cached, OrderInv
  <1>2. ~lapsed /\ \A i \in Fetches : ~At(i, "weigh")
    BY DEF At
  <1>3. CASE Bytes(Cached) <= Cap
    <2>1. PICK n, m : n = Bytes(Cached') /\ m = Bytes(Cached)
      OBVIOUS
    <2>2. n \in Nat /\ m \in Nat /\ n <= m
      <3>1. Cached' \in SUBSET Cached
        OBVIOUS
      <3> QED
        BY <1>1, <2>1, <3>1, BytesMonotonic
    <2>3. n <= Cap
      BY <1>1, <1>3, <2>1, <2>2
    <2> QED
      BY <2>1, <2>3
  <1>4. CASE \E i \in Fetches : At(i, "evict") /\ Bytes(Cached \ fetch[i].victims) <= Cap
    <2>1. PICK i \in Fetches : At(i, "evict") /\ Bytes(Cached \ fetch[i].victims) <= Cap
      BY <1>4
    <2>2. fetch'[i] = fetch[i]
      BY <2>1 DEF At
    <2>3. /\ Cached' \ fetch[i].victims \in SUBSET (Cached \ fetch[i].victims)
          /\ Cached \ fetch[i].victims \in SUBSET Objects
          /\ IsFiniteSet(Cached \ fetch[i].victims)
      BY <1>1, FS_Subset
    <2>4. PICK n, m : n = Bytes(Cached' \ fetch[i].victims) /\ m = Bytes(Cached \ fetch[i].victims)
      OBVIOUS
    <2>5. n \in Nat /\ m \in Nat /\ n <= m
      BY <2>3, <2>4, BytesMonotonic
    <2>6. n <= Cap
      BY <1>1, <2>1, <2>4, <2>5
    <2>7. Bytes(Cached' \ fetch'[i].victims) <= Cap
      BY <2>2, <2>4, <2>6
    <2>8. fetch'[i].at = "evict"
      BY <2>1, <2>2 DEF At
    <2> QED
      BY <2>7, <2>8
  <1> QED
    BY <1>2, <1>3, <1>4 DEF CapInv

-----------------------------------------------------------------------------
(* The handlers and the previews.                                          *)

PageTypeOK == /\ fetch \in [Fetches -> Handlers] /\ urls \subseteq Fetches
              /\ preview \in [Voices -> Players]

\* A mounted player that goes on obediently, and handlers that end when its promise
\* settles.
LEMMA ShowsKeeps ==
  ASSUME LibraryInv, NEW v \in Voices, NEW q \in Players,
         preview[v].mounted, SameHolder(preview[v], q), Obedient(q),
         preview' = [preview EXCEPT ![v] = q], urls' = urls,
         NEW E \in SUBSET {i \in Fetches : At(i, "playing")},
         fetch' = [i \in Fetches |-> IF i \in E THEN [fetch[i] EXCEPT !.at = "done"] ELSE fetch[i]]
  PROVE  PageTypeOK' /\ PageInv'
  <1>1. /\ fetch \in [Fetches -> Handlers] /\ urls \subseteq Fetches
        /\ preview \in [Voices -> Players]
    BY DEF LibraryInv, LibraryTypeOK
  <1>2. /\ fetch' \in [Fetches -> Handlers]
        /\ \A i \in Fetches : /\ fetch'[i].kind = fetch[i].kind /\ fetch'[i].voice = fetch[i].voice
                              /\ fetch'[i].mine = fetch[i].mine
                              /\ \/ fetch'[i].at = fetch[i].at
                                 \/ fetch[i].at = "playing" /\ fetch'[i].at = "done"
    <2>1. \A h \in Handlers :
            /\ [h EXCEPT !.at = "done"] \in Handlers /\ [h EXCEPT !.at = "done"].kind = h.kind
            /\ [h EXCEPT !.at = "done"].voice = h.voice /\ [h EXCEPT !.at = "done"].mine = h.mine
            /\ [h EXCEPT !.at = "done"].at = "done"
      BY DEF Handlers, Stages
    <2>2. ASSUME NEW i \in Fetches
          PROVE  /\ fetch[i] \in Handlers
                 /\ fetch'[i] = fetch[i] \/ (fetch'[i] = [fetch[i] EXCEPT !.at = "done"]
                                            /\ fetch[i].at = "playing")
      BY <1>1 DEF At
    <2>3. \A i \in Fetches : fetch'[i] \in Handlers
      BY <2>1, <2>2
    <2>4. fetch' = [i \in Fetches |-> fetch'[i]]
      OBVIOUS
    <2>5. fetch' \in [Fetches -> Handlers]
      BY <2>3, <2>4
    <2> QED
      BY <2>1, <2>2, <2>5
  <1>3. /\ preview' \in [Voices -> Players] /\ preview'[v] = q
        /\ \A w \in Voices : w # v => preview'[w] = preview[w]
        /\ \A w \in Voices : /\ preview'[w].mounted = preview[w].mounted
                             /\ preview'[w].ref = preview[w].ref
    BY <1>1 DEF SameHolder
  <1>4. PreviewInv'
    BY <1>3 DEF LibraryInv, PageInv, PreviewInv, SameHolder
  <1>5. MineInv'
    <2>1. \A i \in Fetches : fetch[i].voice \in Voices
      BY <1>1 DEF Handlers
    <2> QED
      BY <1>2, <1>3, <2>1 DEF LibraryInv, PageInv, MineInv, Underway
  <1>6. UrlInv'
    BY <1>1, <1>2, <1>3 DEF LibraryInv, PageInv, UrlInv
  <1>7. UrlsReleased'
    BY <1>1, <1>2, <1>3 DEF LibraryInv, PageInv, UrlsReleased
  <1> QED
    BY <1>1, <1>2, <1>3, <1>4, <1>5, <1>6, <1>7 DEF PageTypeOK, PageInv

\* A fetch that goes on without delivering.
LEMMA GoesKeeps ==
  ASSUME LibraryInv, NEW i \in Fetches, fetch[i].at \notin {"idle", "playing", "done"},
         NEW h \in Handlers, h.kind = fetch[i].kind, h.voice = fetch[i].voice,
         h.mine = fetch[i].mine,
         fetch' = [fetch EXCEPT ![i] = h], urls' = urls, preview' = preview
  PROVE  PageTypeOK' /\ PageInv'
  <1>1. /\ fetch \in [Fetches -> Handlers] /\ urls \subseteq Fetches
        /\ preview \in [Voices -> Players]
    BY DEF LibraryInv, LibraryTypeOK
  <1>2. /\ fetch' \in [Fetches -> Handlers] /\ fetch'[i] = h
        /\ \A j \in Fetches : j # i => fetch'[j] = fetch[j]
    BY <1>1
  <1>3. PreviewInv'
    BY DEF LibraryInv, PageInv, PreviewInv
  <1>4. MineInv'
    BY <1>2 DEF LibraryInv, PageInv, MineInv, Underway
  <1>5. i \notin urls
    BY DEF LibraryInv, PageInv, UrlInv
  <1>6. UrlInv'
    BY <1>1, <1>2, <1>5 DEF LibraryInv, PageInv, UrlInv
  <1>7. UrlsReleased'
    BY <1>1, <1>2, <1>5 DEF LibraryInv, PageInv, UrlsReleased
  <1> QED
    BY <1>1, <1>2, <1>3, <1>4, <1>6, <1>7 DEF PageTypeOK, PageInv

\* A fetch that ends with its blob: it gave it to nobody, to the page, or to the
\* preview that still waits for it.
LEMMA DeliveredKeeps ==
  ASSUME LibraryInv, NEW i \in Fetches, fetch[i].at \notin {"idle", "playing", "done"},
         Delivered(i)
  PROVE  /\ PageTypeOK' /\ PageInv'
         /\ \E stage \in {"playing", "done"} : Goes(i, stage)
  <1>1. /\ fetch \in [Fetches -> Handlers] /\ urls \subseteq Fetches
        /\ preview \in [Voices -> Players]
    BY DEF LibraryInv, LibraryTypeOK
  <1> DEFINE v == fetch[i].voice
             p == preview[v]
             played == Call([p EXCEPT !.ref = i], "item")
  <1>2. v \in Voices /\ p \in Players /\ Obedient(p)
    BY <1>1 DEF Handlers, LibraryInv, PageInv, PreviewInv
  <1>3. i \notin urls /\ i # NoUrl
    BY DEF LibraryInv, PageInv, UrlInv, Fetches, NoUrl
  <1>4. \A j \in Fetches : fetch[j].voice \in Voices
    BY <1>1 DEF Handlers
  <1>5. ASSUME NEW stage \in Stages, Goes(i, stage)
        PROVE  /\ fetch' \in [Fetches -> Handlers] /\ fetch'[i].at = stage
               /\ \A j \in Fetches : /\ fetch'[j].kind = fetch[j].kind
                                     /\ fetch'[j].voice = fetch[j].voice
                                     /\ fetch'[j].mine = fetch[j].mine
                                     /\ j # i => fetch'[j].at = fetch[j].at
    <2>1. fetch' = [fetch EXCEPT ![i] = [fetch[i] EXCEPT !.at = stage]]
      BY <1>5 DEF Goes
    <2>2. [fetch[i] EXCEPT !.at = stage] \in Handlers
      BY <1>1 DEF Handlers
    <2> QED
      BY <1>1, <2>1, <2>2 DEF Handlers
  <1>6. CASE fetch[i].kind = "prefetch"
    <2>1. Goes(i, "done") /\ urls' = urls /\ preview' = preview
      BY <1>6 DEF Delivered
    <2>2. [fetch[i] EXCEPT !.at = "done"] \in Handlers
      BY <1>1 DEF Handlers, Stages
    <2>3. PageTypeOK' /\ PageInv'
      <3>1. PICK h : h = [fetch[i] EXCEPT !.at = "done"]
        OBVIOUS
      <3>2. /\ h \in Handlers /\ h.kind = fetch[i].kind /\ h.voice = fetch[i].voice
            /\ h.mine = fetch[i].mine /\ fetch' = [fetch EXCEPT ![i] = h]
        BY <1>1, <2>1, <2>2, <3>1 DEF Handlers, Goes
      <3> QED
        BY <2>1, <3>2, GoesKeeps
    <2> QED
      BY <2>1, <2>3
  <1>7. CASE fetch[i].kind # "prefetch" /\ ~fetch[i].mine
    <2>1. Goes(i, "done") /\ urls' = urls \cup {i} /\ preview' = preview
      BY <1>7 DEF Delivered
    <2>2. /\ fetch' \in [Fetches -> Handlers] /\ fetch'[i].at = "done"
          /\ \A j \in Fetches : /\ fetch'[j].kind = fetch[j].kind
                                /\ fetch'[j].voice = fetch[j].voice
                                /\ fetch'[j].mine = fetch[j].mine
                                /\ j # i => fetch'[j].at = fetch[j].at
      BY <1>5, <2>1 DEF Stages
    <2>3. PageTypeOK'
      BY <1>1, <2>1, <2>2 DEF PageTypeOK
    <2>4. PreviewInv'
      BY <2>1 DEF LibraryInv, PageInv, PreviewInv
    <2>5. MineInv'
      BY <1>4, <2>1, <2>2 DEF LibraryInv, PageInv, MineInv, Underway
    <2>6. UrlInv'
      BY <1>1, <1>3, <2>1, <2>2 DEF LibraryInv, PageInv, UrlInv
    <2>7. UrlsReleased'
      <3>1. fetch[i].kind = "generation" \/ (fetch[i].kind = "preview" /\ ~fetch[i].mine)
        BY <1>1, <1>7 DEF Handlers
      <3> QED
        BY <1>1, <2>1, <2>2, <3>1 DEF LibraryInv, PageInv, UrlsReleased
    <2> QED
      BY <2>1, <2>3, <2>4, <2>5, <2>6, <2>7 DEF PageInv
  <1>8. CASE fetch[i].kind # "prefetch" /\ fetch[i].mine
    <2>1. /\ Goes(i, "playing") /\ urls' = (urls \ {p.ref}) \cup {i}
          /\ preview' = [preview EXCEPT ![v] = played]
      BY <1>8 DEF Delivered
    <2>2. PICK q : q = played
      OBVIOUS
    <2>3. q \in Players /\ q.mounted = p.mounted /\ q.ref = i /\ Obedient(q)
      BY <1>2, <2>2, ItemFacts
    <2>4. p.mounted
      BY <1>8 DEF LibraryInv, PageInv, MineInv, Underway
    <2>5. /\ preview' \in [Voices -> Players] /\ preview'[v] = q
          /\ \A w \in Voices : w # v => preview'[w] = preview[w]
      BY <1>1, <1>2, <2>1, <2>2, <2>3
    <2>6. /\ fetch' \in [Fetches -> Handlers] /\ fetch'[i].at = "playing"
          /\ \A j \in Fetches : /\ fetch'[j].kind = fetch[j].kind
                                /\ fetch'[j].voice = fetch[j].voice
                                /\ fetch'[j].mine = fetch[j].mine
                                /\ j # i => fetch'[j].at = fetch[j].at
      BY <1>5, <2>1 DEF Stages
    <2>7. PageTypeOK'
      BY <1>1, <2>1, <2>5, <2>6 DEF PageTypeOK
    <2>8. PreviewInv'
      BY <2>3, <2>4, <2>5 DEF LibraryInv, PageInv, PreviewInv
    <2>9. MineInv'
      <3>1. \A w \in Voices : preview'[w].mounted = preview[w].mounted
        BY <2>3, <2>5
      <3>2. /\ \A j \in Fetches : fetch[j].mine => fetch[j].kind = "preview"
            /\ \A j \in Fetches : fetch[j].mine /\ Underway(j) => preview[fetch[j].voice].mounted
        BY DEF LibraryInv, PageInv, MineInv
      <3> QED
        BY <1>4, <2>4, <2>6, <3>1, <3>2 DEF MineInv, Underway
    <2>10. UrlInv'
      <3>1. \A u \in urls' : fetch'[u].at \in {"playing", "done"}
        BY <1>1, <1>3, <2>1, <2>6 DEF LibraryInv, PageInv, UrlInv
      <3>2. ASSUME NEW w \in Voices, preview'[w].ref # NoUrl
            PROVE  preview'[w].ref \in urls' /\ fetch'[preview'[w].ref].voice = w
        <4>1. CASE w = v
          BY <2>1, <2>3, <2>5, <2>6, <4>1
        <4>2. CASE w # v
          <5>1. PICK u : u = preview[w].ref
            OBVIOUS
          <5>2. u \in urls /\ fetch[u].voice = w /\ preview'[w].ref = u /\ u # NoUrl
            BY <2>5, <3>2, <4>2, <5>1 DEF LibraryInv, PageInv, UrlInv
          <5>3. u # p.ref
            BY <1>2, <4>2, <5>2 DEF LibraryInv, PageInv, UrlInv
          <5> QED
            BY <1>1, <2>1, <2>6, <5>2, <5>3
        <4> QED
          BY <4>1, <4>2
      <3> QED
        BY <3>1, <3>2 DEF UrlInv
    <2>11. UrlsReleased'
      <3>1. ASSUME NEW u \in urls'
            PROVE  \/ \E w \in Voices : preview'[w].ref = u
                   \/ fetch'[u].kind = "generation"
                   \/ fetch'[u].kind = "preview" /\ ~fetch'[u].mine
        <4>1. CASE u = i
          BY <1>2, <2>3, <2>5, <4>1
        <4>2. CASE u # i
          <5>1. u \in urls /\ u # p.ref /\ u \in Fetches
            BY <1>1, <2>1, <4>2
          <5>2. \A w \in Voices : preview[w].ref = u => w # v
            BY <5>1
          <5>3. \/ \E w \in Voices : preview[w].ref = u
                \/ fetch[u].kind = "generation"
                \/ fetch[u].kind = "preview" /\ ~fetch[u].mine
            BY <5>1 DEF LibraryInv, PageInv, UrlsReleased
          <5> QED
            BY <2>5, <2>6, <5>1, <5>2, <5>3
        <4> QED
          BY <4>1, <4>2
      <3> QED
        BY <3>1 DEF UrlsReleased
    <2> QED
      BY <2>1, <2>7, <2>8, <2>9, <2>10, <2>11 DEF PageInv
  <1> QED
    BY <1>6, <1>7, <1>8

-----------------------------------------------------------------------------
(* The steps.                                                              *)

\* A step that keeps the pages and the order, and neither adds to the cache nor
\* moves a fetch to or from the weighing or the eviction.
LEMMA LightKeeps ==
  ASSUME LibraryInv, PageTypeOK', PageInv', OrderInv', Cached' \subseteq Cached,
         stored' \subseteq Objects \X Objects, hints' \subseteq Voices, lapsed' = lapsed,
         \A j \in Fetches : \/ fetch'[j] = fetch[j]
                            \/ /\ fetch[j].at \notin {"weigh", "evict"}
                               /\ fetch'[j].at \notin {"weigh", "evict"}
  PROVE  LibraryInv'
  <1>1. LibraryTypeOK'
    BY DEF LibraryInv, LibraryTypeOK, PageTypeOK
  <1>2. CapInv'
    BY CapKept DEF LibraryInv
  <1> QED
    BY <1>1, <1>2 DEF LibraryInv

\* What does not touch the cache does not touch its order.
LEMMA CacheSame ==
  ASSUME LibraryInv, stored' = stored
  PROVE  OrderInv' /\ Cached' = Cached /\ stored' \subseteq Objects \X Objects
  <1>1. Cached' = Cached
    BY DEF Cached
  <1> QED
    BY <1>1 DEF OrderInv, LibraryInv, LibraryTypeOK

\* The library starts empty and silent.
LEMMA InitKeeps ==
  ASSUME LibraryInit
  PROVE  LibraryInv
  <1>1. NoFetch \in Handlers /\ NoFetch.at = "idle" /\ ~NoFetch.mine
    <2>1. (CHOOSE v \in Voices : TRUE) \in Voices
      OBVIOUS
    <2>2. Objects # {}
      OBVIOUS
    <2>3. (CHOOSE o \in Objects : TRUE) \in Objects
      BY <2>2
    <2> QED
      BY <2>1, <2>3 DEF NoFetch, Handlers, Stages
  <1>2. LibraryTypeOK
    BY <1>1, UnmountedFacts DEF LibraryInit, LibraryTypeOK
  <1>3. Cached = {}
    BY DEF LibraryInit, Cached
  <1>4. OrderInv
    BY <1>3, FS_EmptySet DEF LibraryInit, OrderInv
  <1>5. CapInv
    <2>1. Victims = {} /\ Cached \ Victims = Cached
      BY <1>3 DEF Victims
    <2> QED
      BY <1>2, <1>4, <2>1, RestFits DEF CapInv
  <1>6. PageInv
    BY <1>1, UnmountedFacts
    DEF LibraryInit, PageInv, PreviewInv, MineInv, UrlInv, UrlsReleased, Underway
  <1> QED
    BY <1>2, <1>4, <1>5, <1>6 DEF LibraryInv

\* A fetch begins, a preview's own from its mounted card.
LEMMA BeginKeeps ==
  ASSUME LibraryInv, NEW i \in Fetches, NEW h \in Handlers, Begin(i, h),
         h.at \in {"hint", "lookup"}, h.mine => h.kind = "preview" /\ preview[h.voice].mounted
  PROVE  LibraryInv'
  <1>1. /\ fetch \in [Fetches -> Handlers] /\ urls \subseteq Fetches
        /\ preview \in [Voices -> Players]
    BY DEF LibraryInv, LibraryTypeOK
  <1>2. /\ fetch' \in [Fetches -> Handlers] /\ fetch'[i] = h /\ fetch[i].at = "idle"
        /\ \A j \in Fetches : j # i => fetch'[j] = fetch[j]
        /\ UNCHANGED <<stored, hints, lapsed, urls, preview>>
    BY <1>1 DEF Begin, At
  <1>3. i \notin urls
    BY <1>2 DEF LibraryInv, PageInv, UrlInv
  <1>4. PageTypeOK'
    BY <1>1, <1>2 DEF PageTypeOK
  <1>5. PreviewInv'
    BY <1>2 DEF LibraryInv, PageInv, PreviewInv
  <1>6. MineInv'
    BY <1>2 DEF LibraryInv, PageInv, MineInv, Underway
  <1>7. UrlInv'
    BY <1>1, <1>2, <1>3 DEF LibraryInv, PageInv, UrlInv
  <1>8. UrlsReleased'
    BY <1>1, <1>2, <1>3 DEF LibraryInv, PageInv, UrlsReleased
  <1>9. \A j \in Fetches : \/ fetch'[j] = fetch[j]
                           \/ /\ fetch[j].at \notin {"weigh", "evict"}
                              /\ fetch'[j].at \notin {"weigh", "evict"}
    BY <1>2
  <1>10. /\ OrderInv' /\ Cached' = Cached /\ stored' \subseteq Objects \X Objects
         /\ hints' \subseteq Voices
    BY <1>2, CacheSame DEF LibraryInv, LibraryTypeOK
  <1> QED
    BY <1>2, <1>4, <1>5, <1>6, <1>7, <1>8, <1>9, <1>10, LightKeeps DEF PageInv

\* A preview that is mounted goes on obediently.
LEMMA ShowsStep ==
  ASSUME LibraryInv, NEW v \in Voices, NEW q \in Players,
         preview[v].mounted, SameHolder(preview[v], q), Obedient(q), Shows(v, q)
  PROVE  LibraryInv'
  <1>1. UNCHANGED <<stored, hints, lapsed, fetch, urls>> /\ preview' = [preview EXCEPT ![v] = q]
    BY DEF Shows
  <1>2. fetch' = [i \in Fetches |-> IF i \in {} THEN [fetch[i] EXCEPT !.at = "done"] ELSE fetch[i]]
    <2>1. fetch \in [Fetches -> Handlers]
      BY DEF LibraryInv, LibraryTypeOK
    <2> QED
      BY <1>1, <2>1
  <1>3. {} \in SUBSET {i \in Fetches : At(i, "playing")}
    OBVIOUS
  <1>4. PageTypeOK' /\ PageInv'
    BY <1>1, <1>2, <1>3, ShowsKeeps
  <1>5. /\ OrderInv' /\ Cached' = Cached /\ stored' \subseteq Objects \X Objects
        /\ hints' \subseteq Voices
    BY <1>1, CacheSame DEF LibraryInv, LibraryTypeOK
  <1> QED
    BY <1>1, <1>4, <1>5, LightKeeps

\* Changing what is rendered or held does not change what the player does.
LEMMA ShownFacts ==
  ASSUME NEW p \in Players, NEW held \in {"no", "paused", "playing"},
         NEW shown \in [active : BOOLEAN, playing : BOOLEAN]
  PROVE  /\ [p EXCEPT !.held = held] \in Players /\ [p EXCEPT !.shown = shown] \in Players
         /\ SameHolder(p, [p EXCEPT !.held = held]) /\ SameHolder(p, [p EXCEPT !.shown = shown])
         /\ Obedient(p) => /\ Obedient([p EXCEPT !.held = held])
                           /\ Obedient([p EXCEPT !.shown = shown])
  BY DEF Players, SameHolder, Obedient

\* What the user does to a preview.
LEMMA UserKeeps ==
  ASSUME LibraryInv, NEW v \in Voices,
         PlayPause(v) \/ Space(v) \/ Grab(v) \/ Release(v) \/ Ended(v) \/ Frame(v)
  PROVE  LibraryInv'
  <1>1. PICK p : p = preview[v]
    OBVIOUS
  <1>2. /\ p \in Players /\ Obedient(p)
        /\ ~p.mounted => /\ ~p.shown.active /\ p.held = "no" /\ p.item = NoUrl
    BY <1>1 DEF LibraryInv, LibraryTypeOK, PageInv, PreviewInv, Unmounted
  <1>3. ASSUME NEW c \in {"play", "pause"}
        PROVE  Call(p, c) \in Players /\ SameHolder(p, Call(p, c)) /\ Obedient(Call(p, c))
    BY <1>2, CallFacts
  <1>4. CASE p.mounted /\ (Space(v) \/ (PlayPause(v) /\ p.shown.active))
    <2>1. \E c \in {"play", "pause"} : Shows(v, Call(p, c))
      BY <1>1, <1>4 DEF Space, PlayPause
    <2> QED
      BY <1>1, <1>3, <1>4, <2>1, ShowsStep
  <1>5. CASE PlayPause(v) /\ ~p.shown.active
    <2>1. PICK i \in Fetches :
            Begin(i, [at |-> "hint", kind |-> "preview", voice |-> v,
                      key |-> KeyOf[v], mine |-> TRUE, victims |-> {}])
      BY <1>1, <1>5 DEF PlayPause
    <2>2. PICK h : h = [at |-> "hint", kind |-> "preview", voice |-> v,
                        key |-> KeyOf[v], mine |-> TRUE, victims |-> {}]
      OBVIOUS
    <2>3. h \in Handlers /\ h.at = "hint" /\ h.kind = "preview" /\ h.voice = v
      BY <2>2 DEF Handlers, Stages
    <2>4. preview[v].mounted
      BY <1>5 DEF PlayPause
    <2> QED
      BY <2>1, <2>2, <2>3, <2>4, BeginKeeps
  <1>6. CASE p.mounted /\ Grab(v)
    <2>1. PICK q : q = Call(p, "pause")
      OBVIOUS
    <2>2. q \in Players /\ SameHolder(p, q) /\ Obedient(q)
      BY <1>3, <2>1
    <2>3. PICK held \in {"no", "paused", "playing"} : Shows(v, [q EXCEPT !.held = held])
      BY <1>1, <1>6, <2>1 DEF Grab
    <2>4. PICK r : r = [q EXCEPT !.held = held]
      OBVIOUS
    <2>5. [active |-> FALSE, playing |-> FALSE] \in [active : BOOLEAN, playing : BOOLEAN]
      OBVIOUS
    <2>6. r \in Players /\ SameHolder(q, r) /\ Obedient(r)
      BY <2>2, <2>4, <2>5, ShownFacts
    <2>7. SameHolder(p, r)
      BY <2>2, <2>6 DEF SameHolder
    <2> QED
      BY <1>1, <1>6, <2>3, <2>4, <2>6, <2>7, ShowsStep
  <1>7. CASE p.mounted /\ Release(v)
    <2>1. PICK q : q = [p EXCEPT !.held = "no"]
      OBVIOUS
    <2>2. [active |-> FALSE, playing |-> FALSE] \in [active : BOOLEAN, playing : BOOLEAN]
      OBVIOUS
    <2>3. q \in Players /\ SameHolder(p, q) /\ Obedient(q)
      BY <1>2, <2>1, <2>2, ShownFacts
    <2>4. /\ Call(q, "play") \in Players /\ SameHolder(q, Call(q, "play"))
          /\ Obedient(Call(q, "play"))
      BY <2>3, CallFacts
    <2>5. SameHolder(p, Call(q, "play"))
      BY <2>3, <2>4 DEF SameHolder
    <2>6. Shows(v, q) \/ Shows(v, Call(q, "play"))
      BY <1>1, <1>7, <2>1 DEF Release
    <2> QED
      BY <1>1, <1>7, <2>3, <2>4, <2>5, <2>6, ShowsStep
  <1>8. CASE p.mounted /\ Ended(v)
    <2>1. PICK q : q = [p EXCEPT !.paused = TRUE, !.last = "pause"]
      OBVIOUS
    <2>2. ~p.pending /\ Shows(v, q)
      BY <1>1, <1>8, <2>1 DEF Ended
    <2>3. q \in Players /\ SameHolder(p, q) /\ Obedient(q)
      BY <1>2, <2>1, <2>2 DEF Players, Calls, SameHolder, Obedient
    <2> QED
      BY <1>1, <1>8, <2>2, <2>3, ShowsStep
  <1>9. CASE p.mounted /\ Frame(v)
    <2>1. PICK now : now = [active |-> p.item # NoUrl, playing |-> ~p.paused]
      OBVIOUS
    <2>2. now \in [active : BOOLEAN, playing : BOOLEAN]
      BY <2>1
    <2>3. PICK q : q = [p EXCEPT !.shown = now]
      OBVIOUS
    <2>4. Shows(v, q)
      BY <1>1, <1>9, <2>1, <2>3 DEF Frame
    <2>5. q \in Players /\ SameHolder(p, q) /\ Obedient(q)
      <3>1. "no" \in {"no", "paused", "playing"}
        OBVIOUS
      <3> QED
        BY <1>2, <2>2, <2>3, <3>1, ShownFacts
    <2> QED
      BY <1>1, <1>9, <2>4, <2>5, ShowsStep
  <1>10. p.mounted
    BY <1>1, <1>2 DEF PlayPause, Space, Grab, Release, Ended, Frame
  <1> QED
    BY <1>4, <1>5, <1>6, <1>7, <1>8, <1>9, <1>10

\* The promise of a preview settles, well or not.
LEMMA SettlesKeeps ==
  ASSUME LibraryInv, NEW v \in Voices, PlaySettles(v)
  PROVE  LibraryInv'
  <1> DEFINE was == preview[v]
             refusal == [was EXCEPT !.paused = TRUE, !.last = IF was.queue = <<>> THEN "pause" ELSE @]
  <1>0. \E q \in {Resumed(was), Resumed(refusal)} :
          /\ preview' = [preview EXCEPT ![v] = q]
          /\ fetch' = [i \in Fetches |->
                         IF fetch[i].at = "playing" /\ fetch[i].voice = v
                            /\ ("item" \in ToSet(was.queue) => ~q.pending)
                         THEN [fetch[i] EXCEPT !.at = "done"] ELSE fetch[i]]
          /\ UNCHANGED <<stored, hints, lapsed, urls>>
    BY Zenon DEF PlaySettles
  <1>1. PICK p : p = was
    OBVIOUS
  <1>2. /\ p \in Players /\ Obedient(p) /\ p.pending
        /\ ~p.mounted => ~p.pending
    BY <1>1 DEF LibraryInv, LibraryTypeOK, PageInv, PreviewInv, Unmounted, PlaySettles
  <1>3. PICK refused : refused = refusal
    OBVIOUS
  <1>4. PICK q \in {Resumed(p), Resumed(refused)} :
          /\ preview' = [preview EXCEPT ![v] = q]
          /\ fetch' = [i \in Fetches |->
                         IF fetch[i].at = "playing" /\ fetch[i].voice = v
                            /\ ("item" \in ToSet(p.queue) => ~q.pending)
                         THEN [fetch[i] EXCEPT !.at = "done"] ELSE fetch[i]]
          /\ UNCHANGED <<stored, hints, lapsed, urls>>
    <2> HIDE DEF was, refusal
    <2> QED
      BY <1>0, <1>1, <1>3
  <1>5. q \in Players /\ SameHolder(p, q) /\ Obedient(q)
    <2>1. CASE q = Resumed(p)
      BY <1>2, <2>1, ResumedFacts DEF Obedient
    <2>2. CASE q = Resumed(refused)
      <3>1. /\ refused \in Players /\ SameHolder(p, refused) /\ refused.pending /\ refused.paused
            /\ refused.queue = p.queue /\ refused.item = p.item
            /\ refused.last = IF p.queue = <<>> THEN "pause" ELSE p.last
        BY <1>1, <1>2, <1>3 DEF Players, Calls, SameHolder
      <3>2. SameHolder(refused, Resumed(refused)) /\ Resumed(refused) \in Players
            /\ Obedient(Resumed(refused))
        BY <1>2, <3>1, ResumedFacts DEF Obedient, SameHolder
      <3> QED
        BY <2>2, <3>1, <3>2 DEF SameHolder
    <2> QED
      BY <1>4, <2>1, <2>2
  <1>6. PICK E : E = {i \in Fetches : fetch[i].at = "playing" /\ fetch[i].voice = v
                                      /\ ("item" \in ToSet(p.queue) => ~q.pending)}
    OBVIOUS
  <1>7. /\ E \in SUBSET {i \in Fetches : At(i, "playing")}
        /\ fetch' = [i \in Fetches |->
                       IF i \in E THEN [fetch[i] EXCEPT !.at = "done"] ELSE fetch[i]]
    BY <1>4, <1>6 DEF At
  <1>8. PageTypeOK' /\ PageInv'
    BY <1>1, <1>2, <1>4, <1>5, <1>7, ShowsKeeps
  <1>9. \A j \in Fetches : \/ fetch'[j] = fetch[j]
                           \/ /\ fetch[j].at \notin {"weigh", "evict"}
                              /\ fetch'[j].at \notin {"weigh", "evict"}
    <2>1. \A h \in Handlers : [h EXCEPT !.at = "done"].at = "done"
      BY DEF Handlers
    <2>2. \A j \in Fetches : fetch[j] \in Handlers
      BY DEF LibraryInv, LibraryTypeOK
    <2> QED
      BY <1>7, <2>1, <2>2 DEF At
  <1>10. /\ OrderInv' /\ Cached' = Cached /\ stored' \subseteq Objects \X Objects
         /\ hints' \subseteq Voices
    BY <1>4, CacheSame DEF LibraryInv, LibraryTypeOK
  <1> QED
    BY <1>4, <1>8, <1>9, <1>10, LightKeeps

\* Cards come and go: what goes revokes the URL it holds, and its handler is no
\* preview's own from then on.
LEMMA PreviewsKeep ==
  ASSUME LibraryInv, NEW S \in SUBSET Voices, ShowPreviews(S), UNCHANGED <<stored, hints, lapsed>>
  PROVE  LibraryInv'
  <1>1. /\ fetch \in [Fetches -> Handlers] /\ urls \subseteq Fetches
        /\ preview \in [Voices -> Players]
    BY DEF LibraryInv, LibraryTypeOK
  <1>2. PICK gone : gone = {v \in Voices : preview[v].mounted} \ S
    OBVIOUS
  <1>3. /\ preview' = [v \in Voices |-> CASE v \in gone -> Unmounted
                                          [] v \in S /\ ~preview[v].mounted -> Mounted
                                          [] OTHER -> preview[v]]
        /\ urls' = urls \ {preview[v].ref : v \in gone}
        /\ fetch' = [i \in Fetches |->
              CASE fetch[i].voice \in gone /\ At(i, "playing") -> [fetch[i] EXCEPT !.at = "done"]
                [] fetch[i].voice \in gone /\ fetch[i].kind = "preview" /\ Underway(i)
                     /\ ~At(i, "playing") -> [fetch[i] EXCEPT !.mine = FALSE]
                [] OTHER -> fetch[i]]
    BY <1>2 DEF ShowPreviews
  <1>4. ASSUME NEW v \in Voices
        PROVE  \/ v \in gone /\ preview[v].mounted /\ preview'[v] = Unmounted
               \/ v \notin gone /\ ~preview[v].mounted /\ preview'[v] = Mounted
               \/ v \notin gone /\ preview'[v] = preview[v]
    BY <1>2, <1>3
  <1>5. ASSUME NEW i \in Fetches
        PROVE  /\ fetch[i] \in Handlers /\ fetch'[i] \in Handlers
               /\ fetch'[i].kind = fetch[i].kind /\ fetch'[i].voice = fetch[i].voice
               /\ fetch'[i].victims = fetch[i].victims
               /\ \/ /\ fetch[i].voice \in gone /\ fetch[i].at = "playing"
                     /\ fetch'[i].at = "done" /\ fetch'[i].mine = fetch[i].mine
                  \/ /\ fetch[i].voice \in gone /\ fetch[i].kind = "preview" /\ Underway(i)
                     /\ fetch'[i].at = fetch[i].at /\ ~fetch'[i].mine
                  \/ /\ fetch'[i] = fetch[i]
                     /\ fetch[i].voice \in gone /\ fetch[i].kind = "preview" => ~Underway(i)
    <2>1. PICK h : h = fetch[i]
      OBVIOUS
    <2>2. h \in Handlers
      BY <1>1, <2>1
    <2>3. CASE h.voice \in gone /\ h.at = "playing"
      <3>1. fetch'[i] = [h EXCEPT !.at = "done"]
        BY <1>3, <2>1, <2>3 DEF At
      <3> QED
        BY <2>1, <2>2, <2>3, <3>1 DEF Handlers, Stages
    <2>4. CASE h.voice \in gone /\ h.kind = "preview" /\ Underway(i) /\ h.at # "playing"
      <3>1. fetch'[i] = [h EXCEPT !.mine = FALSE]
        BY <1>3, <2>1, <2>4 DEF At
      <3> QED
        BY <2>1, <2>2, <2>4, <3>1 DEF Handlers, Stages
    <2>5. CASE /\ ~(h.voice \in gone /\ h.at = "playing")
               /\ ~(h.voice \in gone /\ h.kind = "preview" /\ Underway(i) /\ h.at # "playing")
      <3>1. fetch'[i] = h
        BY <1>3, <2>1, <2>5 DEF At
      <3> QED
        BY <2>1, <2>2, <2>5, <3>1
    <2> QED
      BY <2>3, <2>4, <2>5
  <1>6. PageTypeOK'
    <2>1. \A v \in Voices : preview'[v] \in Players
      BY <1>1, <1>4, UnmountedFacts
    <2>2. preview' \in [Voices -> Players]
      BY <1>3, <2>1
    <2>3. fetch' \in [Fetches -> Handlers]
      BY <1>3, <1>5
    <2>4. urls' \subseteq Fetches
      BY <1>1, <1>3
    <2> QED
      BY <2>2, <2>3, <2>4 DEF PageTypeOK
  <1>7. PreviewInv'
    BY <1>4, UnmountedFacts DEF LibraryInv, PageInv, PreviewInv
  <1>8. MineInv'
    <2>1. ASSUME NEW i \in Fetches, fetch'[i].mine
          PROVE  /\ fetch'[i].kind = "preview"
                 /\ fetch'[i].at \notin {"idle", "done"} => preview'[fetch'[i].voice].mounted
      <3>1. fetch[i].mine /\ fetch[i].kind = "preview"
        BY <1>5, <2>1 DEF LibraryInv, PageInv, MineInv
      <3>2. ASSUME fetch'[i].at \notin {"idle", "done"}
            PROVE  preview'[fetch'[i].voice].mounted
        <4>1. Underway(i) /\ fetch[i].voice \notin gone /\ fetch[i].voice \in Voices
          BY <1>5, <2>1, <3>1, <3>2 DEF Underway, Handlers
        <4>2. preview[fetch[i].voice].mounted
          BY <3>1, <4>1 DEF LibraryInv, PageInv, MineInv
        <4> QED
          BY <1>4, <1>5, <4>1, <4>2
      <3> QED
        BY <1>5, <3>1, <3>2
    <2> QED
      BY <2>1 DEF MineInv, Underway
  <1>9. UrlInv'
    <2>1. \A u \in urls' : fetch'[u].at \in {"playing", "done"}
      BY <1>1, <1>3, <1>5 DEF LibraryInv, PageInv, UrlInv
    <2>2. ASSUME NEW v \in Voices, preview'[v].ref # NoUrl
          PROVE  preview'[v].ref \in urls' /\ fetch'[preview'[v].ref].voice = v
      <3>1. PICK u : u = preview[v].ref
        OBVIOUS
      <3>2. v \notin gone /\ preview'[v].ref = u /\ u # NoUrl
        BY <1>4, <2>2, <3>1, UnmountedFacts
      <3>3. u \in urls /\ u \in Fetches /\ fetch[u].voice = v
        BY <1>1, <3>1, <3>2 DEF LibraryInv, PageInv, UrlInv
      <3>4. ASSUME NEW w \in gone PROVE preview[w].ref # u
        <4>1. w \in Voices
          BY <1>2
        <4> QED
          BY <3>2, <3>3, <4>1 DEF LibraryInv, PageInv, UrlInv
      <3> QED
        BY <1>3, <1>5, <3>2, <3>3, <3>4
    <2> QED
      BY <2>1, <2>2 DEF UrlInv
  <1>10. UrlsReleased'
    <2>1. ASSUME NEW u \in urls'
          PROVE  \/ \E v \in Voices : preview'[v].ref = u
                 \/ fetch'[u].kind = "generation"
                 \/ fetch'[u].kind = "preview" /\ ~fetch'[u].mine
      <3>1. u \in urls /\ u \in Fetches /\ \A v \in gone : preview[v].ref # u
        BY <1>1, <1>3
      <3>2. CASE \E v \in Voices : preview[v].ref = u
        <4>1. PICK v \in Voices : preview[v].ref = u
          BY <3>2
        <4>2. v \notin gone /\ u # NoUrl
          BY <3>1, <4>1 DEF Fetches, NoUrl
        <4>3. preview[v].mounted
          BY <4>1, <4>2, UnmountedFacts DEF LibraryInv, PageInv, PreviewInv
        <4> QED
          BY <1>4, <4>1, <4>2, <4>3
      <3>3. CASE fetch[u].kind = "generation"
        BY <1>5, <3>1, <3>3
      <3>4. CASE fetch[u].kind = "preview" /\ ~fetch[u].mine
        BY <1>5, <3>1, <3>4
      <3> QED
        BY <3>1, <3>2, <3>3, <3>4 DEF LibraryInv, PageInv, UrlsReleased
    <2> QED
      BY <2>1 DEF UrlsReleased
  <1>11. CapInv'
    <2>1. Cached' = Cached
      BY DEF Cached
    <2>2. \A j \in Fetches : /\ fetch'[j].at = "weigh" <=> fetch[j].at = "weigh"
                             /\ fetch'[j].at = "evict" <=> fetch[j].at = "evict"
                             /\ fetch'[j].victims = fetch[j].victims
      BY <1>5
    <2> QED
      BY <2>1, <2>2 DEF LibraryInv, CapInv, At, Bytes
  <1>12. OrderInv' /\ stored' \subseteq Objects \X Objects /\ hints' \subseteq Voices
         /\ lapsed' \in BOOLEAN
    BY CacheSame DEF LibraryInv, LibraryTypeOK
  <1> QED
    BY <1>6, <1>7, <1>8, <1>9, <1>10, <1>11, <1>12
    DEF LibraryInv, LibraryTypeOK, PageTypeOK, PageInv

\* Clearing the cache, removing one of its entries, and forgetting a voice's key.
LEMMA TidyKeeps ==
  ASSUME LibraryInv,
         \/ ClearAudioCache
         \/ \E o \in Objects : RemoveCachedAudio(o)
         \/ \E v \in Voices : RemoveHint(v) /\ UNCHANGED <<stored, lapsed, fetch, urls, preview>>
  PROVE  LibraryInv'
  <1>1. \E S : stored' = Without(S)
    <2>1. CASE ClearAudioCache
      <3>1. Without(Objects) = {}
        BY DEF LibraryInv, LibraryTypeOK, Without
      <3> QED
        BY <2>1, <3>1 DEF ClearAudioCache
    <2>2. CASE \E o \in Objects : RemoveCachedAudio(o)
      BY <2>2 DEF RemoveCachedAudio
    <2>3. CASE \E v \in Voices :
                 RemoveHint(v) /\ UNCHANGED <<stored, lapsed, fetch, urls, preview>>
      <3>1. Without({}) = stored
        BY DEF Without
      <3> QED
        BY <2>3, <3>1
    <2> QED
      BY <2>1, <2>2, <2>3
  <1>2. /\ UNCHANGED <<lapsed, fetch, urls, preview>> /\ hints' \subseteq hints
    BY DEF ClearAudioCache, RemoveCachedAudio, RemoveHint
  <1>3. OrderInv' /\ Cached' \subseteq Cached /\ stored' \subseteq Objects \X Objects
    <2>1. PICK S : stored' = Without(S)
      BY <1>1
    <2>2. OrderInv' /\ Cached' = Cached \ S /\ stored' \subseteq Objects \X Objects
      BY <2>1, WithoutOrder DEF LibraryInv
    <2> QED
      BY <2>2
  <1>4. PageTypeOK' /\ PageInv'
    BY <1>2 DEF LibraryInv, LibraryTypeOK, PageTypeOK, PageInv, PreviewInv, MineInv, UrlInv,
                UrlsReleased, Underway
  <1>5. hints' \subseteq Voices
    BY <1>2 DEF LibraryInv, LibraryTypeOK
  <1> QED
    BY <1>2, <1>3, <1>4, <1>5, LightKeeps

\* A fetch that leaves its stage for one that is neither the weighing nor the
\* eviction, while the cache keeps its objects.
LEMMA AdvanceKeeps ==
  ASSUME LibraryInv, NEW i \in Fetches,
         fetch[i].at \notin {"idle", "playing", "done", "weigh", "evict"},
         NEW stage \in Stages \ {"weigh", "evict"}, Goes(i, stage),
         PageTypeOK', PageInv', OrderInv', Cached' \subseteq Cached,
         stored' \subseteq Objects \X Objects, hints' \subseteq Voices, lapsed' = lapsed
  PROVE  LibraryInv'
  <1>1. fetch \in [Fetches -> Handlers]
    BY DEF LibraryInv, LibraryTypeOK
  <1>2. \A j \in Fetches : \/ fetch'[j] = fetch[j]
                           \/ /\ fetch[j].at \notin {"weigh", "evict"}
                              /\ fetch'[j].at \notin {"weigh", "evict"}
    BY <1>1 DEF Goes, Handlers
  <1> QED
    BY <1>2, LightKeeps

\* What GoesKeeps says of a fetch that only moves to another stage.
LEMMA StageKeeps ==
  ASSUME LibraryInv, NEW i \in Fetches, fetch[i].at \notin {"idle", "playing", "done"},
         NEW stage \in Stages, Goes(i, stage), urls' = urls, preview' = preview
  PROVE  PageTypeOK' /\ PageInv'
  <1>1. PICK h : h = [fetch[i] EXCEPT !.at = stage]
    OBVIOUS
  <1>2. /\ h \in Handlers /\ h.kind = fetch[i].kind /\ h.voice = fetch[i].voice
        /\ h.mine = fetch[i].mine /\ fetch' = [fetch EXCEPT ![i] = h]
    BY <1>1 DEF LibraryInv, LibraryTypeOK, Handlers, Goes
  <1> QED
    BY <1>2, GoesKeeps

\* A stage that neither reads nor writes the cache.
LEMMA PlainKeeps ==
  ASSUME LibraryInv, NEW i \in Fetches,
         fetch[i].at \notin {"idle", "playing", "done", "weigh", "evict"},
         NEW stage \in Stages \ {"weigh", "evict"}, Goes(i, stage),
         stored' = stored, hints' \subseteq Voices, lapsed' = lapsed, urls' = urls,
         preview' = preview
  PROVE  LibraryInv'
  <1>1. PageTypeOK' /\ PageInv'
    BY StageKeeps
  <1>2. OrderInv' /\ Cached' = Cached /\ stored' \subseteq Objects \X Objects
    BY CacheSame
  <1> QED
    BY <1>1, <1>2, AdvanceKeeps

\* A read of the cache delivers what it finds.
LEMMA ReadKeeps ==
  ASSUME LibraryInv, NEW i \in Fetches, NEW stage \in {"cached", "lookup"},
         NEW missed \in {"ask", "download"}, ReadCache(i, stage, missed)
  PROVE  LibraryInv'
  <1>1. /\ fetch[i].at \notin {"idle", "playing", "done", "weigh", "evict"}
        /\ hints' \subseteq Voices /\ lapsed' = lapsed
    BY DEF ReadCache, At, LibraryInv, LibraryTypeOK
  <1>2. CASE fetch[i].key \in Cached
    <2>1. stored' = Touched(fetch[i].key) /\ Delivered(i)
      BY <1>2 DEF ReadCache
    <2>2. fetch[i].key \in Objects
      BY <1>2 DEF Cached
    <2>3. OrderInv' /\ Cached' = Cached /\ stored' \subseteq Objects \X Objects
      BY <1>2, <2>1, <2>2, TouchedOrder DEF LibraryInv
    <2>4. PageTypeOK' /\ PageInv' /\ \E done \in {"playing", "done"} : Goes(i, done)
      BY <1>1, <2>1, DeliveredKeeps
    <2>5. {"playing", "done"} \subseteq Stages \ {"weigh", "evict"}
      BY DEF Stages
    <2> QED
      BY <1>1, <2>3, <2>4, <2>5, AdvanceKeeps
  <1>3. CASE fetch[i].key \notin Cached
    <2>1. Goes(i, missed) /\ UNCHANGED <<stored, urls, preview>>
      BY <1>3 DEF ReadCache
    <2>2. missed \in Stages \ {"weigh", "evict"}
      BY DEF Stages
    <2> QED
      BY <1>1, <2>1, <2>2, PlainKeeps
  <1> QED
    BY <1>2, <1>3

\* A blob is put: the cache may be over its cap, and the fetch about to weigh it.
LEMMA StoreKeeps ==
  ASSUME LibraryInv, NEW i \in Fetches, Store(i)
  PROVE  LibraryInv'
  <1>1. /\ fetch[i].at = "store" /\ Goes(i, "weigh") /\ stored' = Touched(fetch[i].key)
        /\ UNCHANGED <<hints, lapsed, urls, preview>>
    BY DEF Store, At
  <1>2. fetch \in [Fetches -> Handlers] /\ fetch[i].key \in Objects
    BY DEF LibraryInv, LibraryTypeOK, Handlers
  <1>3. OrderInv' /\ stored' \subseteq Objects \X Objects
    BY <1>1, <1>2, TouchedOrder DEF LibraryInv
  <1>4. PageTypeOK' /\ PageInv'
    BY <1>1, StageKeeps DEF Stages
  <1>5. fetch'[i].at = "weigh"
    BY <1>1, <1>2 DEF Goes, Handlers
  <1>6. CapInv'
    BY <1>5 DEF CapInv, At
  <1> QED
    BY <1>1, <1>3, <1>4, <1>6 DEF LibraryInv, LibraryTypeOK, PageTypeOK

\* The cache is weighed: it fits, or will without the victims.
LEMMA WeighKeeps ==
  ASSUME LibraryInv, NEW i \in Fetches, Weigh(i)
  PROVE  LibraryInv'
  <1>1. /\ fetch[i].at = "weigh" /\ fetch[i].at \notin {"idle", "playing", "done"}
        /\ lapsed' = FALSE /\ UNCHANGED <<stored, hints>>
    BY DEF Weigh, At
  <1>2. OrderInv' /\ Cached' = Cached /\ stored' \subseteq Objects \X Objects
    BY <1>1, CacheSame
  <1>3. Bytes(Cached \ Victims) <= Cap
    BY RestFits DEF LibraryInv
  <1>4. fetch \in [Fetches -> Handlers] /\ fetch[i] \in Handlers
    BY DEF LibraryInv, LibraryTypeOK
  <1>5. CASE Victims = {}
    <2>1. Delivered(i)
      BY <1>5 DEF Weigh
    <2>2. PageTypeOK' /\ PageInv'
      BY <1>1, <2>1, DeliveredKeeps
    <2>3. Cached \ Victims = Cached'
      BY <1>2, <1>5
    <2>4. Bytes(Cached') <= Cap
      BY <1>3, <2>3
    <2>5. CapInv'
      BY <2>4 DEF CapInv, Bytes
    <2> QED
      BY <1>1, <1>2, <2>2, <2>5 DEF LibraryInv, LibraryTypeOK, PageTypeOK
  <1>6. CASE Victims # {}
    <2>1. PICK h : h = [fetch[i] EXCEPT !.at = "evict", !.victims = Victims]
      OBVIOUS
    <2>2. fetch' = [fetch EXCEPT ![i] = h] /\ urls' = urls /\ preview' = preview
      BY <1>6, <2>1 DEF Weigh
    <2>3. Victims \in SUBSET Objects
      BY DEF Victims, Cached
    <2>4. /\ h \in Handlers /\ h.kind = fetch[i].kind /\ h.voice = fetch[i].voice
          /\ h.mine = fetch[i].mine /\ h.at = "evict" /\ h.victims = Victims
      BY <1>4, <2>1, <2>3 DEF Handlers, Stages
    <2>5. PageTypeOK' /\ PageInv'
      BY <1>1, <2>2, <2>4, GoesKeeps
    <2>6. fetch'[i] = h
      BY <1>4, <2>2
    <2>7. PICK S : S = Cached \ Victims
      OBVIOUS
    <2>8. Bytes(S) <= Cap /\ Cached' \ fetch'[i].victims = S /\ fetch'[i].at = "evict"
      BY <1>2, <1>3, <2>4, <2>6, <2>7
    <2>9. Bytes(Cached' \ fetch'[i].victims) <= Cap
      BY <2>8
    <2>10. CapInv'
      BY <2>8, <2>9 DEF CapInv, At, Bytes
    <2> QED
      BY <1>1, <1>2, <2>5, <2>10 DEF LibraryInv, LibraryTypeOK, PageTypeOK
  <1> QED
    BY <1>5, <1>6

\* The victims go: another fetch may have touched them since, or removed them.
LEMMA EvictKeeps ==
  ASSUME LibraryInv, NEW i \in Fetches, Evict(i)
  PROVE  LibraryInv'
  <1>1. /\ fetch[i].at = "evict" /\ fetch[i].at \notin {"idle", "playing", "done"}
        /\ stored' = Without(fetch[i].victims) /\ Delivered(i) /\ UNCHANGED <<hints, lapsed>>
    BY DEF Evict, At
  <1>2. /\ OrderInv' /\ Cached' = Cached \ fetch[i].victims
        /\ stored' \subseteq Objects \X Objects
    BY <1>1, WithoutOrder DEF LibraryInv
  <1>3. PageTypeOK' /\ PageInv' /\ \E done \in {"playing", "done"} : Goes(i, done)
    BY <1>1, DeliveredKeeps
  <1>4. fetch \in [Fetches -> Handlers]
    BY DEF LibraryInv, LibraryTypeOK
  <1>5. /\ \A j \in Fetches : j # i => fetch'[j] = fetch[j]
        /\ fetch'[i].at \notin {"weigh", "evict"}
    BY <1>3, <1>4 DEF Goes, Handlers
  <1>6. CapInv'
    <2> SUFFICES ASSUME ~lapsed', \A j \in Fetches : fetch'[j].at # "weigh"
                 PROVE  \/ Bytes(Cached') <= Cap
                        \/ \E j \in Fetches : /\ fetch'[j].at = "evict"
                                              /\ Bytes(Cached' \ fetch'[j].victims) <= Cap
      BY DEF CapInv, At, Bytes
    <2>1. ~lapsed /\ \A j \in Fetches : fetch[j].at # "weigh"
      BY <1>1, <1>5
    <2>2. \/ Bytes(Cached) <= Cap
          \/ \E j \in Fetches : fetch[j].at = "evict" /\ Bytes(Cached \ fetch[j].victims) <= Cap
      BY <2>1 DEF LibraryInv, CapInv, At
    <2>3. Cached \in SUBSET Objects /\ IsFiniteSet(Cached) /\ Cap \in Nat
      BY DEF LibraryInv, Cached, OrderInv
    <2>4. CASE Bytes(Cached) <= Cap
      <3>1. PICK n, m : n = Bytes(Cached') /\ m = Bytes(Cached)
        OBVIOUS
      <3>2. Cached' \in SUBSET Cached
        BY <1>2
      <3>3. n \in Nat /\ m \in Nat /\ n <= m
        BY <2>3, <3>1, <3>2, BytesMonotonic
      <3>4. n <= Cap
        BY <2>3, <2>4, <3>1, <3>3
      <3> QED
        BY <3>1, <3>4
    <2>5. CASE \E j \in Fetches : fetch[j].at = "evict" /\ Bytes(Cached \ fetch[j].victims) <= Cap
      <3>1. PICK j \in Fetches : fetch[j].at = "evict" /\ Bytes(Cached \ fetch[j].victims) <= Cap
        BY <2>5
      <3>2. CASE j = i
        BY <1>2, <3>1, <3>2
      <3>3. CASE j # i
        <4>1. fetch'[j] = fetch[j]
          BY <1>5, <3>3
        <4>2. /\ Cached' \ fetch[j].victims \in SUBSET (Cached \ fetch[j].victims)
              /\ Cached \ fetch[j].victims \in SUBSET Objects
              /\ IsFiniteSet(Cached \ fetch[j].victims)
          BY <1>2, <2>3, FS_Subset
        <4>3. PICK n, m : /\ n = Bytes(Cached' \ fetch[j].victims)
                          /\ m = Bytes(Cached \ fetch[j].victims)
          OBVIOUS
        <4>4. n \in Nat /\ m \in Nat /\ n <= m
          BY <4>2, <4>3, BytesMonotonic
        <4>5. n <= Cap
          BY <2>3, <3>1, <4>3, <4>4
        <4>6. Bytes(Cached' \ fetch'[j].victims) <= Cap
          BY <4>1, <4>3, <4>5
        <4>7. fetch'[j].at = "evict"
          BY <3>1, <4>1
        <4> QED
          BY <4>6, <4>7
      <3> QED
        BY <3>2, <3>3
    <2> QED
      BY <2>2, <2>4, <2>5
  <1> QED
    BY <1>1, <1>2, <1>3, <1>6 DEF LibraryInv, LibraryTypeOK, PageTypeOK

\* A fetch goes on.
LEMMA FetchKeeps ==
  ASSUME LibraryInv, NEW i \in Fetches, FetchStep(i)
  PROVE  LibraryInv'
  <1>1. /\ hints \subseteq Voices /\ fetch[i].voice \in Voices
        /\ {"cached", "ask", "note", "lookup", "store"} \subseteq Stages \ {"weigh", "evict"}
    BY DEF LibraryInv, LibraryTypeOK, Handlers, Stages
  <1>2. CASE ReadHint(i)
    <2>1. \E stage \in {"cached", "ask"} : Goes(i, stage)
      BY <1>2 DEF ReadHint
    <2> QED
      BY <1>1, <1>2, <2>1, PlainKeeps DEF ReadHint, At
  <1>3. CASE AskUrl(i)
    BY <1>1, <1>3, PlainKeeps DEF AskUrl, At
  <1>4. CASE NoteHint(i)
    BY <1>1, <1>4, PlainKeeps DEF NoteHint, At
  <1>5. CASE Download(i)
    BY <1>1, <1>5, PlainKeeps DEF Download, At
  <1>6. CASE ReadCache(i, "cached", "ask") \/ ReadCache(i, "lookup", "download")
    BY <1>6, ReadKeeps
  <1>7. CASE Store(i)
    BY <1>7, StoreKeeps
  <1>8. CASE Weigh(i)
    BY <1>8, WeighKeeps
  <1>9. CASE Evict(i)
    BY <1>9, EvictKeeps
  <1> QED
    BY <1>2, <1>3, <1>4, <1>5, <1>6, <1>7, <1>8, <1>9 DEF FetchStep

\* A fetch that goes to weigh the cache without its blob in it.
LEMMA AbortedPutKeeps ==
  ASSUME LibraryInv, NEW i \in Fetches, At(i, "store"), Goes(i, "weigh"),
         UNCHANGED <<stored, hints, lapsed, urls, preview>>
  PROVE  LibraryInv'
  <1>1. PageTypeOK' /\ PageInv'
    BY StageKeeps DEF Stages, At
  <1>2. OrderInv' /\ Cached' = Cached /\ stored' \subseteq Objects \X Objects
    BY CacheSame
  <1>3. fetch'[i].at = "weigh"
    BY DEF LibraryInv, LibraryTypeOK, Goes, Handlers
  <1>4. CapInv'
    BY <1>3 DEF CapInv, At
  <1> QED
    BY <1>1, <1>2, <1>4 DEF LibraryInv, LibraryTypeOK, PageTypeOK

\* A stage of a fetch fails.
LEMMA FailsKeep ==
  ASSUME LibraryInv, NEW i \in Fetches, FetchFails(i)
  PROVE  LibraryInv'
  <1>1. /\ hints \subseteq Voices /\ fetch \in [Fetches -> Handlers]
        /\ {"done", "ask", "lookup", "download", "playing"} \subseteq Stages \ {"weigh", "evict"}
    BY DEF LibraryInv, LibraryTypeOK, Stages
  <1>2. CASE StepFails(i)
    <2>1. /\ fetch[i].at \in {"hint", "cached", "ask", "note", "lookup", "download"}
          /\ \E stage \in {"done", "ask", "lookup", "download"} : Goes(i, stage)
          /\ UNCHANGED <<stored, hints, lapsed, urls, preview>>
      BY <1>2 DEF StepFails, At
    <2> QED
      BY <1>1, <2>1, PlainKeeps
  <1>3. CASE /\ fetch[i].at \in {"cached", "lookup", "store"} /\ Delivered(i)
             /\ UNCHANGED <<stored, hints, lapsed>>
    <2>1. fetch[i].at \notin {"idle", "playing", "done", "weigh", "evict"}
      BY <1>3
    <2>2. PageTypeOK' /\ PageInv' /\ \E done \in {"playing", "done"} : Goes(i, done)
      BY <1>3, <2>1, DeliveredKeeps
    <2>3. OrderInv' /\ Cached' = Cached /\ stored' \subseteq Objects \X Objects
      BY <1>3, CacheSame
    <2> QED
      BY <1>1, <1>3, <2>1, <2>2, <2>3, AdvanceKeeps
  <1>4. CASE WriteFails(i)
    BY <1>3, <1>4, AbortedPutKeeps DEF WriteFails, At
  <1>5. CASE EvictionFails(i)
    <2>1. PageTypeOK' /\ PageInv'
      BY <1>5, DeliveredKeeps DEF EvictionFails
    <2>2. OrderInv' /\ Cached' = Cached /\ stored' \subseteq Objects \X Objects
      BY <1>5, CacheSame DEF EvictionFails
    <2>3. CapInv'
      BY <1>5 DEF EvictionFails, CapInv
    <2> QED
      BY <1>5, <2>1, <2>2, <2>3 DEF EvictionFails, LibraryInv, LibraryTypeOK, PageTypeOK
  <1> QED
    BY <1>2, <1>4, <1>5 DEF FetchFails

\* Every step of the library keeps the invariant.
LEMMA NextKeeps ==
  ASSUME LibraryInv, [LibraryNext]_libraryVars
  PROVE  LibraryInv'
  <1>1. ASSUME NEW v \in Voices,
               PlayPause(v) \/ Space(v) \/ Grab(v) \/ Release(v) \/ Ended(v) \/ Frame(v)
        PROVE  LibraryInv'
    BY <1>1, UserKeeps
  <1>2. ASSUME NEW v \in Voices, PlaySettles(v) PROVE LibraryInv'
    BY <1>2, SettlesKeeps
  <1>3. CASE \/ ClearAudioCache
             \/ \E o \in Objects : RemoveCachedAudio(o)
             \/ \E v \in Voices : RemoveHint(v) /\ UNCHANGED <<stored, lapsed, fetch, urls, preview>>
    BY <1>3, TidyKeeps
  <1>4. ASSUME NEW o \in Objects, Prefetch(o) PROVE LibraryInv'
    <2>1. PICK h : h = [NoFetch EXCEPT !.at = "lookup", !.key = o]
      OBVIOUS
    <2>2. h \in Handlers /\ h.at = "lookup" /\ ~h.mine
      BY <2>1 DEF NoFetch, Handlers, Stages
    <2> QED
      BY <1>4, <2>1, <2>2, BeginKeeps DEF Prefetch
  <1>5. ASSUME NEW i \in Fetches, NEW o \in Objects, FetchGeneration(i, o) PROVE LibraryInv'
    <2>1. PICK h : h = [NoFetch EXCEPT !.at = "lookup", !.kind = "generation", !.key = o]
      OBVIOUS
    <2>2. h \in Handlers /\ h.at = "lookup" /\ ~h.mine
      BY <2>1 DEF NoFetch, Handlers, Stages
    <2> QED
      BY <1>5, <2>1, <2>2, BeginKeeps DEF FetchGeneration
  <1>6. ASSUME NEW i \in Fetches, FetchStep(i) \/ FetchFails(i) PROVE LibraryInv'
    BY <1>6, FetchKeeps, FailsKeep
  <1>7. ASSUME NEW S \in SUBSET Voices, ShowPreviews(S), UNCHANGED <<stored, hints, lapsed>>
        PROVE  LibraryInv'
    BY <1>7, PreviewsKeep
  <1>8. CASE UNCHANGED libraryVars
    <2>1. UNCHANGED <<stored, hints, lapsed, fetch, urls, preview>>
      BY <1>8 DEF libraryVars
    <2>2. OrderInv' /\ Cached' = Cached /\ stored' \subseteq Objects \X Objects
      BY <2>1, CacheSame
    <2>3. PageTypeOK' /\ PageInv'
      BY <2>1 DEF LibraryInv, LibraryTypeOK, PageTypeOK, PageInv, PreviewInv, MineInv, UrlInv,
                  UrlsReleased, Underway
    <2> QED
      BY <2>1, <2>2, <2>3, LightKeeps DEF LibraryInv, LibraryTypeOK
  <1> QED
    BY <1>1, <1>2, <1>3, <1>4, <1>5, <1>6, <1>7, <1>8 DEF LibraryNext

-----------------------------------------------------------------------------
(* The theorems.  WebAppProofs carries them over to the whole application. *)

\* What the cache, the fetches, the object URLs and the players know of each
\* other holds in every state.
THEOREM LibraryInductive == LibrarySpec => []LibraryInv
  BY InitKeeps, NextKeeps, PTL DEF LibrarySpec

\* The invariant says that the cache fits once no fetch weighs or evicts.
LEMMA InvFits ==
  ASSUME LibraryInv
  PROVE  CacheWithinCap
  BY DEF LibraryInv, CapInv, CacheWithinCap, At

\* The invariant says that a player whose promise is settled does what it was asked.
LEMMA InvObeys ==
  ASSUME LibraryInv
  PROVE  PlayerObeys
  <1>1. SUFFICES ASSUME NEW v \in Voices, ~preview[v].pending
                 PROVE  /\ preview[v].item = preview[v].ref
                        /\ preview[v].ref # NoUrl => preview[v].ref \in urls
                        /\ preview[v].paused <=> preview[v].last = "pause"
    BY DEF PlayerObeys
  <1>2. Obedient(preview[v])
    BY DEF LibraryInv, PageInv, PreviewInv
  <1>3. preview[v].queue = <<>> /\ "item" \notin ToSet(<<>>)
    BY <1>1, <1>2 DEF Obedient, ToSet
  <1>4. preview[v].ref # NoUrl => preview[v].ref \in urls
    BY DEF LibraryInv, PageInv, UrlInv
  <1> QED
    BY <1>1, <1>2, <1>3, <1>4 DEF Obedient

\* However the transactions of several fetches interleave and whichever of them fail,
\* the cache fits its cap whenever no fetch is between its put and the end of its
\* eviction, unless the last eviction was skipped, having read nothing, or aborted.
THEOREM CacheFits == LibrarySpec => []CacheWithinCap
  BY LibraryInductive, InvFits, PTL

\* However play and pause calls overlap the promises of earlier ones, a player
\* ends up as it was last asked, on a URL that is not revoked.
THEOREM PlayersObey == LibrarySpec => []PlayerObeys
  BY LibraryInductive, InvObeys, PTL

\* No object URL is left unrevoked but those that a preview holds, the
\* generations' and those delivered to a preview that was gone.
THEOREM NoUrlLeaks == LibrarySpec => []UrlsReleased
  <1>1. LibraryInv => UrlsReleased
    BY DEF LibraryInv, PageInv
  <1> QED
    BY <1>1, LibraryInductive, PTL
=============================================================================
