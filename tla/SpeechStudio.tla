----------------------------- MODULE SpeechStudio -----------------------------
(***************************************************************************)
(* Making speech in the web application: the form that asks for a          *)
(* generation, its submission, the page of one generation that polls its   *)
(* status, and the audio that appears there when it is completed.          *)
(*                                                                         *)
(* The generation service is the JobLifecycle it implements for the jobs   *)
(* that it accepts (see GenerationJobs); the row of a refused job is marked*)
(* by the handler that refused it and by a worker that got it all the same.*)
(* A submission is named by the job it asks for.  React renders after every*)
(* step: Render says what becomes of the form.                             *)
(***************************************************************************)
EXTENDS VoiceStudio

CONSTANTS Jobs, BuiltIn,   \* the built-in voices, in their order
          ObjectOf,        \* ObjectOf[j]: the S3 key of the audio of job j
          None             \* no voice, no job, no form

ASSUME SpeechAssumption == /\ BuiltIn \in Seq(Voices) /\ ObjectOf \in [Jobs -> Objects]
                           /\ None \notin Voices \cup Jobs

VARIABLES status, playable, \* the service's jobs
          stray,       \* refused jobs that a worker got and has not ended
          page,        \* the page that is shown
          requested,   \* the voice its URL names
          viewed,      \* the job its URL names
          builtin,     \* the built-in voices are loaded
          speech,      \* the mounted form
          submission,  \* submission[j]: the submit handler that asks for job j
          generation,  \* generation[j]: the query of job j
          playback,    \* playback[j]: the queries of its audio
          wave         \* the waveform player of the page

jobVars == <<status, playable, stray>>
speechVars == <<jobVars, page, requested, viewed, builtin, speech, submission,
                generation, playback, wave>>

Service == INSTANCE JobLifecycle

Pages == {"dashboard", "voices", "speech", "detail"}
Active == {"queued", "processing"}

\* job is the submission of this form, touched that the user changed it; the form
\* of another key is another form.
NoSpeech == [key |-> None, text |-> Blank, voice |-> None, job |-> None, touched |-> FALSE]
NoSubmission == [at |-> "idle", voice |-> None, text |-> Blank]
NoGeneration == [seen |-> "none", fetching |-> "no", answer |-> "none"]
NoPlayback == [at |-> "none", by |-> NoUrl, retried |-> FALSE]
NoWave == [at |-> "none", playing |-> FALSE]

SpeechInit ==
  /\ Service!Init /\ stray = {}
  /\ page = "dashboard" /\ requested = None /\ viewed = None /\ builtin = FALSE
  /\ speech = NoSpeech /\ wave = NoWave
  /\ submission = [j \in Jobs |-> NoSubmission]
  /\ generation = [j \in Jobs |-> NoGeneration]
  /\ playback = [j \in Jobs |-> NoPlayback]

-----------------------------------------------------------------------------
(* The form (text-to-speech-view.tsx, text-to-speech-form.tsx).            *)

Ids(rows) == [n \in DOMAIN rows |-> rows[n].id]

\* allVoices: the user's voices, then the built-in ones.
AllVoices == Ids(list.shown) \o (IF builtin THEN BuiltIn ELSE <<>>)

\* The voice asked for, if it is listed, or the first one.
Resolved(v) == CASE v \in ToSet(AllVoices) -> v
                 [] v \notin ToSet(AllVoices) /\ AllVoices # <<>> -> Head(AllVoices)
                 [] OTHER -> None

\* The key of the form: its default voice, or the generation of the page.
FormKey == CASE page = "speech" -> Resolved(requested)
             [] page = "detail" /\ generation[viewed].seen # "none" /\ ~ListPending /\ builtin
                  -> viewed
             [] OTHER -> None

\* A form mounts with its default values.
FreshForm == IF page = "detail" /\ FormKey # None
             THEN [NoSpeech EXCEPT !.key = viewed, !.text = submission[viewed].text,
                                   !.voice = Resolved(submission[viewed].voice)]
             ELSE [NoSpeech EXCEPT !.key = FormKey, !.voice = FormKey]

\* Mutant: the form has no key.
Render_NoKey == UNCHANGED speech

\* A form keeps its values as long as its key stays the same; one that was not
\* touched follows its default values.
Render == speech' = IF FormKey' = speech.key /\ speech.touched THEN speech ELSE FreshForm'

Writing == page = "speech" \/ (page = "detail" /\ FormKey # None)
Submitting == speech.job # None /\ submission[speech.job].at \notin {"idle", "done", "refused"}

\* Only the form changes: its fields are disabled while it submits.
Fill(s) == /\ Writing /\ ~Submitting /\ speech' = [s EXCEPT !.touched = TRUE]
           /\ UNCHANGED <<jobVars, page, requested, viewed, builtin, generation,
                          playback, wave>>

TypeSpeech(t) == speech.text # t /\ Fill([speech EXCEPT !.text = t]) /\ UNCHANGED submission

PickVoice(v) == /\ v \in ToSet(AllVoices) /\ speech.voice # v
                /\ Fill([speech EXCEPT !.voice = v]) /\ UNCHANGED submission

\* Generate, which is disabled on the page of a completed generation.
Generate(j) ==
  /\ submission[j].at = "idle" /\ j = CHOOSE k \in Jobs : submission[k].at = "idle"
  /\ speech.text # Blank /\ speech.voice \in ToSet(AllVoices)
  /\ ~(page = "detail" /\ generation[viewed].seen = "completed")
  /\ Fill([speech EXCEPT !.job = j])
  /\ submission' = [submission EXCEPT ![j] = [at |-> "playback", voice |-> speech.voice,
                                              text |-> speech.text]]

-----------------------------------------------------------------------------
(* A submission, from the press to the push of its page.                   *)

Submits(j, from, to) == submission[j].at = from /\ submission' = [submission EXCEPT ![j].at = to]
RestOfSubmit == UNCHANGED <<page, requested, viewed, builtin, speech, generation, playback, wave>>

Exists(v) == Has(catalogue, v) \/ v \in ToSet(BuiltIn)

KeyServed(j) ==
  /\ Submits(j, "playback", "generate") /\ Exists(submission[j].voice)
  /\ UNCHANGED jobVars /\ RestOfSubmit

JobAccepted(j) ==
  Submits(j, "generate", "refetch") /\ Service!Submit(j) /\ UNCHANGED stray /\ RestOfSubmit

\* The provider key is not had: the voice is gone, or its service not reached.
KeyRefused(j) ==
  Submits(j, "playback", "done") /\ UNCHANGED jobVars /\ RestOfSubmit

\* The generation service refuses the job, whose row was inserted or was not; or
\* it accepted the job and its answer is lost.
JobRefused(j) == /\ \/ Submits(j, "generate", "refused") /\ UNCHANGED <<status, playable>>
                    \/ Submits(j, "generate", "refused") /\ Service!Submit(j)
                    \/ Submits(j, "generate", "done") /\ Service!Submit(j)
                 /\ UNCHANGED stray /\ RestOfSubmit

\* The row is inserted and PUBLISH returns an error, before or after a worker got
\* the job; then the handler marks the row, or fails to, and refuses the job.
PublishFails(j) == /\ Submits(j, "generate", "undo") /\ Service!Submit(j)
                   /\ stray' \in {stray, stray \cup {j}} /\ RestOfSubmit

Undo(j) == /\ Submits(j, "undo", "refused")
           /\ status' \in {status, [status EXCEPT ![j] = "failed"]}
           /\ UNCHANGED <<playable, stray>> /\ RestOfSubmit

\* The list of generations, invalidated by the mutation and by its caller, is
\* fetched, or is not: the handler pushes the page of the job, from any page.
Pushes(j) == Submits(j, "refetch", "done")

\* The service refused the job, or is about to.
Refuses(j) == submission[j].at \in {"undo", "refused"}

\* The jobs that were accepted go their way.
ServiceStep ==
  /\ \E j \in Jobs : ~Refuses(j) /\ (Service!Begin(j) \/ Service!Fail(j) \/ Service!Succeed(j))
  /\ UNCHANGED <<stray, submission>> /\ RestOfSubmit

\* A worker begins a refused job, if its row is not marked yet, and ends it: its
\* updates have no condition on the status.
StrayStep ==
  /\ \E j \in stray :
       \/ Service!Begin(j) /\ UNCHANGED stray
       \/ /\ status[j] # "queued" /\ stray' = stray \ {j}
          /\ \/ status' = [status EXCEPT ![j] = "failed"] /\ UNCHANGED playable
             \/ status' = [status EXCEPT ![j] = "completed"] /\ playable' = playable \cup {j}
  /\ UNCHANGED submission /\ RestOfSubmit

-----------------------------------------------------------------------------
(* The page of a generation (text-to-speech-details-view.tsx,              *)
(* use-generations.ts).                                                    *)

Viewing(j) == page = "detail" /\ viewed = j

Query(j, g) ==
  /\ generation' = [generation EXCEPT ![j] = g]
  /\ UNCHANGED <<jobVars, page, requested, viewed, builtin, submission, playback, wave>>

\* Mutant: only a queued job is polled.
Poll_Queued(j) ==
  /\ Viewing(j) /\ generation[j].seen = "queued" /\ generation[j].fetching = "no"
  /\ Query(j, [generation[j] EXCEPT !.fetching = "sent"]) /\ Render

\* refetchInterval: as long as the data says the job is active.
Poll(j) ==
  /\ Viewing(j) /\ generation[j].seen \in Active /\ generation[j].fetching = "no"
  /\ Query(j, [generation[j] EXCEPT !.fetching = "sent"]) /\ Render

\* What GetGeneration answers: the status, and whether there is a key, which a
\* completed job has and a failed one only if it was marked once more, withdrawn.
Answer(j) == IF status[j] = "failed" /\ j \in playable THEN "withdrawn" ELSE status[j]

ServeGeneration(j) ==
  /\ generation[j].fetching = "sent"
  /\ Query(j, [generation[j] EXCEPT !.fetching = "served", !.answer = Answer(j)]) /\ Render

ShowGeneration(j) ==
  /\ generation[j].fetching = "served"
  /\ Query(j, [NoGeneration EXCEPT !.seen = generation[j].answer]) /\ Render

\* The fetch and its retry fail; the data, if any, stays.
GenerationFails(j) ==
  /\ generation[j].fetching # "no"
  /\ Query(j, [generation[j] EXCEPT !.fetching = "no", !.answer = "none"]) /\ Render

\* Only the audio of j changes.
Audio(j, a) ==
  /\ playback' = [playback EXCEPT ![j] = a]
  /\ UNCHANGED <<jobVars, page, requested, viewed, builtin, speech, submission,
                 generation, wave>>

\* The playback URL of a generation with a key is asked for, then its audio
\* fetched through the cache, as a fetch of AudioLibrary.
AskPlayback(j) == /\ Viewing(j) /\ generation[j].seen \in {"completed", "withdrawn"}
                  /\ playback[j].at = "none"
                  /\ Audio(j, [playback[j] EXCEPT !.at = "asking"])

PlaybackServed(j) == /\ playback[j].at = "asking"
                     /\ Audio(j, [playback[j] EXCEPT !.at = "known"])

FetchAudio(j, i) == /\ Viewing(j) /\ playback[j].at = "known" /\ FetchGeneration(i, ObjectOf[j])
                    /\ Audio(j, [playback[j] EXCEPT !.at = "fetching", !.by = i])

AudioServed(j) == /\ playback[j].at = "fetching" /\ playback[j].by \in urls
                  /\ Audio(j, [playback[j] EXCEPT !.at = "ready"])

\* A query that fails is retried once.
PlaybackFails(j) ==
  LET again == IF playback[j].at = "asking" THEN "asking" ELSE "known"
  IN  /\ \/ playback[j].at = "asking"
         \/ playback[j].at = "fetching" /\ At(playback[j].by, "done") /\ playback[j].by \notin urls
      /\ Audio(j, IF playback[j].retried THEN [playback[j] EXCEPT !.at = "failed"]
                  ELSE [playback[j] EXCEPT !.at = again, !.retried = TRUE, !.by = NoUrl])

\* The player loads the object URL, plays and pauses.
Wave(w) == /\ wave' = w
           /\ UNCHANGED <<jobVars, page, requested, viewed, builtin, speech, submission,
                          generation, playback>>

\* The panel is rendered when there is a source.  What the user played before the
\* audio element had that source may be paused when it gets it.
WaveLoads == /\ FormKey # None /\ page = "detail" /\ playback[viewed].at = "ready"
             /\ wave.at = "none" /\ Wave([wave EXCEPT !.at = "loading"])
WaveEnds(at) == /\ wave.at = "loading"
                /\ \E kept \in {FALSE, wave.playing} : Wave([at |-> at, playing |-> kept])
WaveReady == WaveEnds("ready")

\* The audio is not loaded or not decoded, which is only logged.
WaveFails == WaveEnds("failed")

\* The play button, which is there with the panel, loaded or not.
TogglePlayPause == wave.at # "none" /\ Wave([wave EXCEPT !.playing = ~@])
WaveFinishes == wave.playing /\ Wave([wave EXCEPT !.playing = FALSE])

-----------------------------------------------------------------------------
\* The built-in voices are there.
LoadBuiltIn ==
  /\ ~builtin /\ page # "dashboard" /\ builtin' = TRUE
  /\ UNCHANGED <<jobVars, page, requested, viewed, submission, generation, playback, wave>>
  /\ Render

\* The router shows page p, with what its URL names.  The page of a generation
\* fetches it if there is no data or the data is old; failed audio queries start
\* again.
Shown(p, v, j) ==
  /\ page' = p /\ requested' = v /\ viewed' = j /\ wave' = NoWave
  /\ generation' \in
       IF p # "detail" \/ generation[j].fetching # "no" THEN {generation}
       ELSE {[generation EXCEPT ![j].fetching = "sent"]}
            \cup (IF generation[j].seen # "none" THEN {generation} ELSE {})
  /\ playback' = IF p = "detail" /\ playback[j].at = "failed"
                 THEN [playback EXCEPT ![j] = NoPlayback] ELSE playback
  /\ UNCHANGED <<jobVars, builtin>>

\* What goes on by itself for job j.
JobStep(j) ==
  \/ KeyServed(j) \/ JobAccepted(j) \/ Undo(j)
  \/ Poll(j) \/ ServeGeneration(j) \/ ShowGeneration(j)
  \/ AskPlayback(j) \/ PlaybackServed(j) \/ AudioServed(j)

Statuses == {"none", "failed", "completed"} \cup Active
Answers == Statuses \cup {"withdrawn"}
SpeechForms == [key : Voices \cup Jobs \cup {None}, text : Texts, voice : Voices \cup {None},
                job : Jobs \cup {None}, touched : BOOLEAN]
Submissions == [at : {"idle", "playback", "generate", "undo", "refetch", "done", "refused"},
                voice : Voices \cup {None}, text : Texts]
Queries == [seen : Answers, fetching : {"no", "sent", "served"}, answer : Answers]
Playbacks == [at : {"none", "asking", "known", "fetching", "ready", "failed"},
              by : {NoUrl} \cup Fetches, retried : BOOLEAN]
Waves == [at : {"none", "loading", "ready", "failed"}, playing : BOOLEAN]

SpeechTypeOK ==
  /\ status \in [Jobs -> Statuses] /\ playable \subseteq Jobs /\ stray \subseteq Jobs
  /\ page \in Pages /\ requested \in Voices \cup {None} /\ viewed \in Jobs \cup {None}
  /\ page = "detail" => viewed # None
  /\ form.open => page = "voices"
  /\ builtin \in BOOLEAN
  /\ speech \in SpeechForms /\ speech.key = FormKey
  /\ submission \in [Jobs -> Submissions] /\ generation \in [Jobs -> Queries]
  /\ playback \in [Jobs -> Playbacks] /\ wave \in Waves
=============================================================================
