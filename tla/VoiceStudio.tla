----------------------------- MODULE VoiceStudio -----------------------------
(***************************************************************************)
(* Managing voices in the web application: the list of the user's voices   *)
(* in the query cache, the mutations that create, update and delete voices *)
(* and then fetch the list again, the edit and delete dialogs of the voice *)
(* cards, and the form that creates a voice from a file or a recording.    *)
(*                                                                         *)
(* The voice service is a catalogue that answers one request after another;*)
(* VoiceCatalog models what it really does.  A text stands for all that is *)
(* typed into a form; Blank is one its validation refuses.                 *)
(***************************************************************************)
EXTENDS AudioLibrary

CONSTANTS Texts, Blank,
          InitialRows,      \* the rows of the user's voices at the start
          MaxMutations, MaxTakes, MaxRecorders  \* bounds

ASSUME StudioAssumption == /\ Blank \in Texts /\ InitialRows \in Seq([id : Voices, text : Texts])
                           /\ MaxMutations \in Nat /\ MaxTakes \in Nat
                           /\ MaxRecorders \in Nat

Mutations == 1..MaxMutations
Takes     == 1..MaxTakes
Recorders == 1..MaxRecorders
NoTake    == 0

VARIABLES catalogue, \* the service's rows, newest first
          known,     \* ids ever given to a voice
          list,      \* the query of the user's voices
          card,      \* card[v]: the dialogs of the card of v
          mutation,  \* mutation[i]: one create, update or delete
          form,      \* the create form
          take,      \* take[i]: one run of startRecording
          recorder   \* recorder[n]: the refs and state of the n-th VoiceRecorder

studioVars == <<catalogue, known, list, card, mutation, form, take, recorder>>

Row(v, t) == [id |-> v, text |-> t]
Has(rows, v) == \E n \in DOMAIN rows : rows[n].id = v
Place(rows, v) == CHOOSE n \in DOMAIN rows : rows[n].id = v
TextIn(rows, v) == rows[Place(rows, v)].text

\* fetching: no request, one under way, or its answer in rows.
\* stale: an invalidation found the query without an observer.
NoList == [loaded |-> FALSE, stale |-> FALSE, shown |-> <<>>, fetching |-> "no", rows |-> <<>>]

NoCard == [edit |-> FALSE, draft |-> Blank, confirm |-> FALSE]

\* mine: the card or form that started it is still mounted.
NoMutation == [at |-> "idle", kind |-> "create", voice |-> CHOOSE v \in Voices : TRUE,
               text |-> Blank, mine |-> FALSE]

\* here is the recorder that is mounted, of the made ones that ever were.
NoForm == [open |-> FALSE, tab |-> "upload", file |-> "none", text |-> Blank,
           here |-> 0, made |-> 0]

\* beside: another start of its recorder was unfinished; heard: the form its
\* recording goes to is still open.
NoRecording == [at |-> "idle", of |-> 0, mic |-> FALSE, beside |-> FALSE, heard |-> FALSE]
NoRefs == [stream |-> NoTake, recorder |-> NoTake, recording |-> FALSE, error |-> FALSE]

StudioInit ==
  /\ catalogue = InitialRows
  /\ known = {InitialRows[n].id : n \in DOMAIN InitialRows}
  /\ list = NoList
  /\ card = [v \in Voices |-> NoCard]
  /\ mutation = [i \in Mutations |-> NoMutation]
  /\ form = NoForm
  /\ take = [i \in Takes |-> NoRecording]
  /\ recorder = [n \in Recorders |-> NoRefs]

-----------------------------------------------------------------------------
(* The list of voices (use-voices.ts).                                     *)

\* The page that lists the voices is shown: data older than its staleTime is
\* fetched again, and so is data that was invalidated.
ObserveList ==
  list' \in IF list.fetching # "no" THEN {list}
            ELSE {[list EXCEPT !.fetching = "sent"]}
                 \cup (IF list.loaded /\ ~list.stale THEN {list} ELSE {})

\* isPending: there is no data yet, nor an error.
ListPending == ~list.loaded /\ list.fetching # "no"

\* invalidateQueries: a fetch under way starts again, unless it is the first one,
\* which it joins; without an observer the data is only marked.
Invalidated(observed) ==
  CASE ~observed -> [list EXCEPT !.stale = TRUE]
    [] observed /\ ~list.loaded /\ list.fetching # "no" -> list
    [] OTHER -> [list EXCEPT !.fetching = "sent", !.rows = <<>>]

ServeList ==
  /\ list.fetching = "sent"
  /\ list' = [list EXCEPT !.fetching = "served", !.rows = catalogue]
  /\ UNCHANGED <<catalogue, known, card, mutation, form, take, recorder>>

\* The cards of voices that are no longer listed go, with their dialogs.
ShowList ==
  LET Gone == {v \in Voices : ~Has(list.rows, v)}
  IN  /\ list.fetching = "served"
      /\ list' = [NoList EXCEPT !.loaded = TRUE, !.shown = list.rows]
      /\ card' = [v \in Voices |-> IF v \in Gone THEN NoCard ELSE card[v]]
      /\ mutation' = [i \in Mutations |->
                        IF mutation[i].kind # "create" /\ mutation[i].voice \in Gone
                        THEN [mutation[i] EXCEPT !.mine = FALSE] ELSE mutation[i]]
      /\ UNCHANGED <<catalogue, known, form, take, recorder>>

\* The fetch and its retry fail: what is shown stays.
ListFails ==
  /\ list.fetching # "no"
  /\ list' = [list EXCEPT !.fetching = "no", !.rows = <<>>]
  /\ UNCHANGED <<catalogue, known, card, mutation, form, take, recorder>>

-----------------------------------------------------------------------------
(* Mutations (use-create-voice.ts, use-update-voice.ts, use-delete-voice.ts).*)

Unsettled(i) == mutation[i].at \notin {"idle", "done"}

\* isPending of the card's or the form's mutation.
IsPending(kind, v) == \E i \in Mutations :
  Unsettled(i) /\ mutation[i].mine /\ mutation[i].kind = kind
               /\ (kind # "create" => mutation[i].voice = v)

Mutate(kind, v, t) ==
  \E i \in Mutations :
    /\ mutation[i].at = "idle" /\ \A j \in 1..(i - 1) : mutation[j].at # "idle"
    /\ mutation' = [mutation EXCEPT ![i] =
         [at |-> "rpc", kind |-> kind, voice |-> v, text |-> t, mine |-> TRUE]]

Reaches(i, stage) == mutation' = [mutation EXCEPT ![i].at = stage]

\* What the service's rows become when voice v is created, updated or deleted.
RowsAfter(kind, v, t) ==
  CASE kind = "create" -> <<Row(v, t)>> \o catalogue
    [] kind = "update" -> [catalogue EXCEPT ![Place(catalogue, v)] = Row(v, t)]
    [] kind = "delete" -> RemoveAt(catalogue, Place(catalogue, v))

\* The service did it; onSuccess invalidates the list.
MutationServed(i, observed) ==
  \E v \in Voices :
    LET m == mutation[i]
    IN  /\ m.at = "rpc"
        /\ IF m.kind = "create" THEN v \notin known ELSE v = m.voice /\ Has(catalogue, v)
        /\ known' = known \cup {v}
        /\ catalogue' = RowsAfter(m.kind, v, m.text)
        /\ Reaches(i, "refetch")
        /\ list' = Invalidated(observed)
        /\ UNCHANGED <<card, form, take, recorder>>

\* What the user is rid of when the mutation succeeded: the edit dialog closes,
\* the create form is reset, the delete dialog, if it was opened again, closes.
Settled(m) ==
  /\ card' = IF ~m.mine \/ m.kind = "create" THEN card
             ELSE IF m.kind = "update" THEN [card EXCEPT ![m.voice].edit = FALSE]
             ELSE [card EXCEPT ![m.voice].confirm = FALSE]
  /\ form' = IF m.mine /\ m.kind = "create"
             THEN [form EXCEPT !.text = Blank, !.file = "none"] ELSE form

\* The invalidated list was fetched, or nothing was: mutateAsync resolves, after
\* a delete's onSettled.
MutationSettles(i, observed) ==
  LET m == mutation[i]
  IN  /\ m.at = "refetch" /\ (list.fetching = "no" \/ ~observed)
      /\ IF m.kind = "delete" THEN Reaches(i, "forget") /\ UNCHANGED <<card, form>>
         ELSE Reaches(i, "done") /\ Settled(m)
      /\ UNCHANGED <<catalogue, known, list, take, recorder>>

\* Mutant: what follows the await is done after an error, too.
MutationFails_Closes(i) ==
  LET m == mutation[i]
  IN  /\ m.at = "rpc"
      /\ IF m.kind = "delete" THEN Reaches(i, "refused") /\ UNCHANGED <<card, form>>
         ELSE Reaches(i, "done") /\ Settled(m)
      /\ UNCHANGED <<catalogue, known, list, take, recorder>>

\* The request fails or is refused: the dialog or form stays as it is.  A delete
\* has its onSettled all the same.
MutationFails(i) ==
  /\ mutation[i].at = "rpc"
  /\ Reaches(i, IF mutation[i].kind = "delete" THEN "refused" ELSE "done")
  /\ UNCHANGED <<catalogue, known, list, card, form, take, recorder>>

\* onSettled of a delete removes the voice's persisted provider key; the dialog
\* closes unless the delete was refused.
DeleteSettles(i) ==
  /\ mutation[i].at \in {"forget", "refused"} /\ Reaches(i, "done")
  /\ IF mutation[i].at = "forget" THEN Settled(mutation[i]) ELSE UNCHANGED <<card, form>>
  /\ RemoveHint(mutation[i].voice)
  /\ UNCHANGED <<catalogue, known, list, take, recorder>>

-----------------------------------------------------------------------------
(* The dialogs of a card (voice-card.tsx).                                 *)

\* Only the dialogs of v change, to c.
Card(v, c) == /\ list.loaded /\ Has(list.shown, v)
              /\ card' = [card EXCEPT ![v] = c]
              /\ UNCHANGED <<catalogue, known, list, form, take, recorder>>

NoDialog == ~form.open /\ \A v \in Voices : ~card[v].edit /\ ~card[v].confirm

\* A dialog is modal: nothing behind it can be clicked.
OpenEdit(v) == /\ NoDialog
               /\ Card(v, [card[v] EXCEPT !.edit = TRUE, !.draft = TextIn(list.shown, v)])
               /\ UNCHANGED mutation

TypeEdit(v, t) == /\ card[v].edit /\ card[v].draft # t
                  /\ Card(v, [card[v] EXCEPT !.draft = t]) /\ UNCHANGED mutation

\* Cancel, also while the update is pending.
CancelEdit(v) == /\ card[v].edit
                 /\ Card(v, [card[v] EXCEPT !.edit = FALSE]) /\ UNCHANGED mutation

SaveEdit(v) == /\ card[v].edit /\ ~IsPending("update", v) /\ card[v].draft # Blank
               /\ Card(v, card[v]) /\ Mutate("update", v, card[v].draft)

OpenDelete(v) == /\ NoDialog /\ Card(v, [card[v] EXCEPT !.confirm = TRUE])
                 /\ UNCHANGED mutation

CancelDelete(v) == /\ card[v].confirm
                   /\ Card(v, [card[v] EXCEPT !.confirm = FALSE]) /\ UNCHANGED mutation

\* The action of an alert dialog closes it.
ConfirmDelete(v) == /\ card[v].confirm /\ ~IsPending("delete", v)
                    /\ Card(v, [card[v] EXCEPT !.confirm = FALSE])
                    /\ Mutate("delete", v, Blank)

-----------------------------------------------------------------------------
(* The create form (voice-create-form.tsx, voice-create-dialog.tsx).       *)

\* Only the form changes.
Form(f) == form' = f /\ UNCHANGED <<catalogue, known, list, card, take, recorder>>

OpenForm == /\ NoDialog /\ Form([form EXCEPT !.open = TRUE]) /\ UNCHANGED mutation

\* The form unmounts: it forgets its values, and nothing hears what is still to
\* come for it.  Its recorder, if it has one, unmounts without releasing anything.
LeaveForm ==
  /\ form' = [NoForm EXCEPT !.made = form.made]
  /\ mutation' = [i \in Mutations |-> IF mutation[i].kind = "create"
                                      THEN [mutation[i] EXCEPT !.mine = FALSE] ELSE mutation[i]]
  /\ take' = [i \in Takes |-> [take[i] EXCEPT !.heard = FALSE]]

CloseForm == /\ form.open /\ LeaveForm
             /\ UNCHANGED <<catalogue, known, list, card, recorder>>

\* The recorder is the content of its tab: it mounts and unmounts with it.
SwitchTab ==
  /\ form.open
  /\ \/ /\ form.tab = "upload" /\ form.made < MaxRecorders
        /\ Form([form EXCEPT !.tab = "record", !.here = form.made + 1, !.made = @ + 1])
     \/ /\ form.tab = "record"
        /\ Form([form EXCEPT !.tab = "upload", !.here = 0])
  /\ UNCHANGED mutation

ChooseFile == /\ form.open /\ form.tab = "upload" /\ form.file = "none"
              /\ Form([form EXCEPT !.file = "chosen"]) /\ UNCHANGED mutation

ClearFile == /\ form.open /\ form.tab = "upload" /\ form.file # "none"
             /\ Form([form EXCEPT !.file = "none"]) /\ UNCHANGED mutation

TypeForm(t) == /\ form.open /\ form.text # t
               /\ Form([form EXCEPT !.text = t]) /\ UNCHANGED mutation

SubmitForm == /\ form.open /\ form.text # Blank /\ form.file # "none"
              /\ \A v \in Voices : ~IsPending("create", v)
              /\ Form(form) /\ Mutate("create", CHOOSE v \in Voices : TRUE, form.text)

-----------------------------------------------------------------------------
(* The recorder (voice-recorder.tsx, use-audio-recorder.ts).               *)

\* cleanup: the recorder in the ref is destroyed, the stream in the ref stopped.
Cleaned(n) ==
  [i \in Takes |->
     [take[i] EXCEPT !.mic = @ /\ i # recorder[n].stream,
                     !.at = IF i = recorder[n].recorder /\ @ = "recording" THEN "done" ELSE @]]

Took == UNCHANGED <<catalogue, known, list, card, mutation>>

Starting(n) == {i \in Takes : take[i].of = n /\ take[i].at \in {"asking", "importing"}}

\* Record stays enabled until the recording began, so it may be pressed again.
Record ==
  LET n == form.here
  IN  /\ form.open /\ n # 0 /\ form.file = "none"
      /\ ~recorder[n].error /\ ~recorder[n].recording
      /\ \E i \in Takes :
           /\ take[i].at = "idle" /\ \A j \in 1..(i - 1) : take[j].at # "idle"
           /\ take' = [j \in Takes |->
                CASE j = i -> [at |-> "asking", of |-> n, mic |-> FALSE,
                               beside |-> Starting(n) # {}, heard |-> TRUE]
                  [] j \in Starting(n) -> [take[j] EXCEPT !.beside = TRUE]
                  [] OTHER -> take[j]]
      /\ UNCHANGED <<form, recorder>> /\ Took

\* getUserMedia gave a stream.
Granted(i) ==
  /\ take[i].at = "asking"
  /\ take' = [take EXCEPT ![i].at = "importing", ![i].mic = TRUE]
  /\ recorder' = [recorder EXCEPT ![take[i].of].stream = i]
  /\ UNCHANGED form /\ Took

\* recordrtc is there; a recorder records, even if its component is gone.
Imported(i) ==
  /\ take[i].at = "importing"
  /\ take' = [take EXCEPT ![i].at = "recording"]
  /\ recorder' = [recorder EXCEPT ![take[i].of].recorder = i, ![take[i].of].recording = TRUE]
  /\ UNCHANGED form /\ Took

\* Access is denied, or the import or the recorder fails.
StartFails(i) ==
  LET n == take[i].of
  IN  /\ take[i].at \in {"asking", "importing"}
      /\ take' = [Cleaned(n) EXCEPT ![i].at = "done"]
      /\ recorder' = [recorder EXCEPT ![n] = [@ EXCEPT !.stream = NoTake, !.recorder = NoTake,
                                                       !.error = TRUE]]
      /\ UNCHANGED form /\ Took

Stop ==
  LET n == form.here
  IN  /\ form.open /\ n # 0 /\ form.file = "none" /\ ~recorder[n].error /\ recorder[n].recording
      /\ recorder[n].recorder # NoTake /\ take[recorder[n].recorder].at = "recording"
      /\ take' = [take EXCEPT ![recorder[n].recorder].at = "encoding"]
      /\ UNCHANGED <<form, recorder>> /\ Took

\* The blob is there: it becomes the form's file, whatever the form has by then.
Encoded(i) ==
  LET n == take[i].of
  IN  /\ take[i].at = "encoding"
      /\ take' = [Cleaned(n) EXCEPT ![i].at = "done"]
      /\ recorder' = [recorder EXCEPT ![n] = [@ EXCEPT !.stream = NoTake, !.recorder = NoTake,
                                                       !.recording = FALSE]]
      /\ form' = IF take[i].heard THEN [form EXCEPT !.file = "recorded"] ELSE form
      /\ Took

\* Try again after an error, or re-record, which drops the file.
ResetRecording ==
  LET n == form.here
  IN  /\ form.open /\ n # 0 /\ (recorder[n].error \/ form.file # "none")
      /\ take' = Cleaned(n)
      /\ recorder' = [recorder EXCEPT ![n] = NoRefs]
      /\ form' = IF recorder[n].error THEN form ELSE [form EXCEPT !.file = "none"]
      /\ Took

-----------------------------------------------------------------------------
\* What goes on by itself.
StudioStep(observed) ==
  \/ ServeList
  \/ \E i \in Mutations : MutationServed(i, observed) \/ MutationSettles(i, observed)
  \/ \E i \in Takes : Granted(i) \/ Imported(i) \/ Encoded(i)

\* The page is left, with all its cards and its form.
LeaveStudio ==
  /\ card' = [v \in Voices |-> NoCard]
  /\ form' = [NoForm EXCEPT !.made = form.made]
  /\ mutation' = [i \in Mutations |-> [mutation[i] EXCEPT !.mine = FALSE]]
  /\ take' = [i \in Takes |-> [take[i] EXCEPT !.heard = FALSE]]
  /\ UNCHANGED <<catalogue, known, recorder>>

Rows == [id : Voices, text : Texts]
Lists == [loaded : BOOLEAN, stale : BOOLEAN, shown : Seq(Rows),
          fetching : {"no", "sent", "served"}, rows : Seq(Rows)]
Cards == [edit : BOOLEAN, draft : Texts, confirm : BOOLEAN]
Changes == [at : {"idle", "rpc", "refetch", "forget", "refused", "done"},
            kind : {"create", "update", "delete"}, voice : Voices, text : Texts, mine : BOOLEAN]
CreateForms == [open : BOOLEAN, tab : {"upload", "record"},
                file : {"none", "chosen", "recorded"}, text : Texts,
                here : 0..MaxRecorders, made : 0..MaxRecorders]
Recordings == [at : {"idle", "asking", "importing", "recording", "encoding", "done"},
               of : 0..MaxRecorders, mic : BOOLEAN, beside : BOOLEAN, heard : BOOLEAN]
Refs == [stream : Takes \cup {NoTake}, recorder : Takes \cup {NoTake},
         recording : BOOLEAN, error : BOOLEAN]

StudioTypeOK ==
  /\ catalogue \in Seq(Rows) /\ known \subseteq Voices /\ list \in Lists
  /\ card \in [Voices -> Cards] /\ mutation \in [Mutations -> Changes]
  /\ form \in CreateForms /\ take \in [Takes -> Recordings]
  /\ recorder \in [Recorders -> Refs]

\* The microphone is on only while a recording starts, runs or is encoded, except
\* for what the recorder of a tab or a form that was left never releases, and for
\* a start that another start of the same recorder overtook
\* (use-audio-recorder.ts:30-44, 78-141).
MicReleased == \A i \in Takes : take[i].mic =>
  \/ take[i].at \in {"importing", "recording", "encoding"}
  \/ take[i].of # form.here
  \/ take[i].beside
=============================================================================
