-------------------------------- MODULE WebApp --------------------------------
(***************************************************************************)
(* The web application of a signed-in user: the pages between which the    *)
(* router goes, with the audio library, the voice studio and the speech    *)
(* studio on them.  A page that is left unmounts its components; what they *)
(* started goes on.  WebSession models the session itself.                 *)
(***************************************************************************)
EXTENDS SpeechStudio

CONSTANTS Budgets,  \* what the user may do: how many gestures of each kind
          MaxFaults \* bound on failing requests and transactions

Kinds == {"go", "listen", "tidy", "edit", "form", "speak"}

ASSUME WebAssumption == /\ Budgets \subseteq [Kinds -> Nat] /\ MaxFaults \in Nat

VARIABLES budget, faults

webVars == <<libraryVars, studioVars, speechVars, budget, faults>>

Init == /\ LibraryInit /\ StudioInit /\ SpeechInit
        /\ budget \in Budgets /\ faults = 0

\* The voices whose cards the page shows.
Listed == IF page = "voices" THEN ToSet(AllVoices) ELSE {}

\* Every page but the dashboard observes the list of voices.
Observed == page # "dashboard"

-----------------------------------------------------------------------------
(* The router.                                                             *)

\* The router shows another page: what was on the one before unmounts.
Visit(p, v, j) ==
  /\ Shown(p, v, j)
  /\ IF page = "voices" THEN LeaveStudio ELSE UNCHANGED <<catalogue, known, card, mutation, form,
                                                          take, recorder>>
  /\ IF p = "dashboard" THEN UNCHANGED list ELSE ObserveList
  /\ ShowPreviews(Listed') /\ UNCHANGED <<stored, hints, lapsed>>
  /\ speech' = FreshForm'

Sidebar == \E p \in {"dashboard", "voices", "speech"} : page # p /\ Visit(p, None, None)

\* The dashboard's text box and its quick actions: nobody reads the text that
\* their links carry.
TryText     == page = "dashboard" /\ Visit("speech", None, None)
QuickAction == page = "dashboard" /\ Visit("speech", None, None)

UseVoice == \E v \in Listed : Visit("speech", v, None)

OpenGeneration == \E j \in Jobs :
  /\ status[j] # "none" /\ page \in {"speech", "detail"} /\ viewed # j
  /\ Visit("detail", None, j)

Go == /\ UNCHANGED submission
      /\ Sidebar \/ TryText \/ QuickAction \/ UseVoice \/ OpenGeneration

\* A submission pushes the page of its job, wherever the user is by then; the page
\* that is shown already stays mounted.
Push(j) == /\ Pushes(j)
           /\ IF Viewing(j) THEN /\ RestOfSubmit
                                 /\ UNCHANGED <<jobVars, libraryVars, studioVars>>
              ELSE Visit("detail", None, j)

-----------------------------------------------------------------------------
(* What the user does.                                                     *)

Listen == /\ NoDialog
          /\ \E v \in Voices : PlayPause(v) \/ Space(v) \/ Grab(v) \/ Release(v)
          /\ UNCHANGED <<studioVars, speechVars>>

\* What the library exports for the caller of useAudioCache and prefetchAudio.
Tidy == /\ ClearAudioCache \/ (\E o \in Objects : RemoveCachedAudio(o) \/ Prefetch(o))
        /\ UNCHANGED <<studioVars, speechVars>>

Edit == /\ page = "voices"
        /\ \E v \in Voices : \/ OpenEdit(v) \/ CancelEdit(v) \/ SaveEdit(v)
                             \/ (\E t \in Texts : TypeEdit(v, t))
                             \/ OpenDelete(v) \/ CancelDelete(v) \/ ConfirmDelete(v)
        /\ UNCHANGED <<libraryVars, speechVars>>

FillIn == /\ page = "voices"
          /\ \/ OpenForm \/ CloseForm \/ SwitchTab \/ ChooseFile \/ ClearFile \/ SubmitForm
             \/ (\E t \in Texts : TypeForm(t))
             \/ Record \/ Stop \/ ResetRecording
          /\ UNCHANGED <<libraryVars, speechVars>>

Speak == /\ \/ (\E t \in Texts : TypeSpeech(t)) \/ (\E v \in Voices : PickVoice(v))
            \/ (\E j \in Jobs : Generate(j)) \/ TogglePlayPause
         /\ UNCHANGED <<libraryVars, studioVars>>

Does(kind, Gesture) == /\ budget[kind] > 0 /\ Gesture
                       /\ budget' = [budget EXCEPT ![kind] = @ - 1] /\ UNCHANGED faults

User == \/ Does("go", Go) \/ Does("listen", Listen) \/ Does("tidy", Tidy)
        \/ Does("edit", Edit) \/ Does("form", FillIn) \/ Does("speak", Speak)

-----------------------------------------------------------------------------
(* What goes on by itself.                                                 *)

\* The query of the list changed: the form of the page follows it, and the player
\* is gone with the form while a list that failed is being loaded again.
PageFollows ==
  /\ UNCHANGED <<libraryVars, jobVars, page, requested, viewed, builtin, submission,
                 generation, playback>>
  /\ Render
  /\ wave' = IF FormKey' = None THEN NoWave ELSE wave

\* The list is rendered: previews and the form follow it.
ListShown == /\ ShowList
             /\ UNCHANGED <<jobVars, page, requested, viewed, builtin, submission,
                            generation, playback, wave>>
             /\ ShowPreviews(Listed') /\ UNCHANGED <<stored, hints, lapsed>>
             /\ Render

BuiltInShown == /\ UNCHANGED studioVars /\ LoadBuiltIn
                /\ ShowPreviews(Listed') /\ UNCHANGED <<stored, hints, lapsed>>

LibraryStep == /\ \/ \E v \in Voices : PlaySettles(v) \/ Ended(v) \/ Frame(v)
                  \/ \E i \in Fetches : FetchStep(i)
               /\ UNCHANGED <<studioVars, speechVars>>

KeyForgotten == /\ \E i \in Mutations : DeleteSettles(i)
                /\ UNCHANGED <<stored, lapsed, fetch, urls, preview, speechVars>>

AudioFetched == /\ \E j \in Jobs, i \in Fetches : FetchAudio(j, i)
                /\ UNCHANGED studioVars

\* A change of a voice or a job that is gone is refused; a fetch that failed
\* fails the query.
Refused == /\ \/ /\ \E i \in Mutations : /\ mutation[i].kind # "create"
                                         /\ ~Has(catalogue, mutation[i].voice)
                                         /\ MutationFails(i)
                 /\ UNCHANGED speechVars
              \/ /\ \E j \in Jobs : \/ /\ submission[j].at = "playback"
                                       /\ ~Exists(submission[j].voice) /\ KeyRefused(j)
                                    \/ playback[j].at = "fetching" /\ PlaybackFails(j)
                 /\ UNCHANGED studioVars
           /\ UNCHANGED libraryVars

Fails == /\ faults < MaxFaults /\ faults' = faults + 1
         /\ \/ /\ \E i \in Fetches : FetchFails(i)
               /\ UNCHANGED <<studioVars, speechVars>>
            \/ ListFails /\ PageFollows
            \/ /\ \/ \E i \in Mutations : MutationFails(i)
                  \/ \E i \in Takes : StartFails(i)
               /\ UNCHANGED <<libraryVars, speechVars>>
            \/ /\ UNCHANGED <<libraryVars, studioVars>>
               /\ \/ \E j \in Jobs : \/ KeyRefused(j) \/ JobRefused(j) \/ PublishFails(j)
                                     \/ GenerationFails(j) \/ PlaybackFails(j)
                  \/ WaveFails

Progress(j) == UNCHANGED <<libraryVars, studioVars>> /\ JobStep(j)

WaveStep == WaveLoads \/ WaveReady

ByItself ==
  \/ ListShown \/ BuiltInShown \/ LibraryStep \/ KeyForgotten \/ AudioFetched \/ Refused
  \/ StudioStep(Observed) /\ PageFollows
  \/ \E j \in Jobs : Progress(j) \/ Push(j)
  \/ (ServiceStep \/ StrayStep \/ WaveStep \/ WaveFinishes) /\ UNCHANGED <<libraryVars, studioVars>>

Next == \/ User
        \/ Fails /\ UNCHANGED budget
        \/ ByItself /\ UNCHANGED <<budget, faults>>

\* Requests are answered, timers fire and promises settle: what concerns the page
\* of a generation goes on.
Fairness ==
  /\ \A j \in Jobs : WF_webVars(Progress(j) /\ UNCHANGED <<budget, faults>>)
  /\ \A j \in Jobs : WF_webVars(/\ \E i \in Fetches : FetchAudio(j, i)
                                /\ UNCHANGED <<studioVars, budget, faults>>)
  /\ \A i \in Fetches : WF_webVars(/\ FetchStep(i)
                                   /\ UNCHANGED <<studioVars, speechVars, budget, faults>>)
  /\ WF_webVars(Refused /\ UNCHANGED <<budget, faults>>)
  /\ WF_webVars(ServeList /\ PageFollows /\ UNCHANGED <<budget, faults>>)
  /\ WF_webVars((ListShown \/ BuiltInShown) /\ UNCHANGED <<budget, faults>>)
  /\ WF_webVars(WaveStep /\ UNCHANGED <<libraryVars, studioVars, budget, faults>>)

Spec == Init /\ [][Next]_webVars /\ Fairness

-----------------------------------------------------------------------------
TypeOK == /\ LibraryTypeOK /\ StudioTypeOK /\ SpeechTypeOK
          /\ budget \in [Kinds -> Nat] /\ faults \in 0..MaxFaults

\* Whatever the order in which the user goes from page to page and handlers end:
\* no object URL of a preview stays unrevoked and no microphone stays on, apart
\* from what the code never releases: the URL a handler delivers after its preview
\* is gone, and a recording that was left or started twice
\* (voice-audio-preview.tsx:36-43, 89-92; use-audio-recorder.ts:30-44).
ResourcesReleased == UrlsReleased /\ MicReleased

\* The user's own change of this kind succeeded in this step.
Succeeds(kind, v) == \E i \in Mutations :
  /\ mutation[i].mine /\ mutation[i].kind = kind /\ (kind = "create" \/ mutation[i].voice = v)
  /\ mutation[i].at # "rpc" /\ mutation[i].at # mutation'[i].at

\* An edit dialog stays as it is until its update succeeded or its voice is no
\* longer listed.
CardsKept == \A v \in Voices : card[v].edit =>
  \/ card'[v].edit /\ card'[v].draft = card[v].draft
  \/ Succeeds("update", v) \/ ~Has(list'.shown, v)

\* The create form stays as it is until it succeeded, or a recording became its file.
FormValuesKept == form.open =>
  \/ form' = form
  \/ \E v \in Voices : Succeeds("create", v)
  \/ \E i \in Takes : /\ take[i].at = "encoding" /\ take'[i].at = "done"
                      /\ form' = [form EXCEPT !.file = "recorded"]

\* The speech form stays as it is until its default voice is another one, or a list of
\* voices that had failed is loaded again.
SpeechKept == speech.touched =>
  \/ speech' = speech
  \/ page = "speech" /\ (Resolved(requested))' # Resolved(requested)
  \/ page = "detail" /\ ListPending'

\* What the user typed, chose or opened goes by itself only with the success of
\* the change it was for, when its page is left, when its voice is no longer
\* listed, when the default voice of the form changes, when the page of a generation
\* loads a list of voices that had failed, or, for a file, when a recording ends: a
\* refused or failed request, a refetch and another handler leave it alone
\* (voice-card.tsx:108-134, voice-create-form.tsx:250-275,
\* text-to-speech-view.tsx:23-41, text-to-speech-details-view.tsx:44-46).
InputKept == [][budget' = budget /\ page' = page /\ viewed' = viewed =>
                  CardsKept /\ FormValuesKept /\ SpeechKept]_webVars

\* "Audio will appear here automatically when processing completes": on the page
\* of a job that is still shown active, the player gets ready once the job is
\* completed, unless the user leaves, fetching the audio failed twice or it could not
\* be loaded.  A refused job may be seen marked failed just before its worker
\* completes it, and is not polled any more (text-to-speech-details-view.tsx:113-117,
\* use-generations.ts:46-57, use-wavesurfer.ts:73-83).
AudioAppears == \A j \in Jobs :
  (/\ Viewing(j) /\ FormKey = j /\ generation[j].seen \in Active
   /\ status[j] = "completed" /\ ~Refuses(j))
    ~> (~Viewing(j) \/ wave.at \in {"ready", "failed"} \/ playback[j].at = "failed")
=============================================================================
