----------------------------- MODULE WebAppProofs -----------------------------
(***************************************************************************)
(* The safety properties of the web application for any number of voices,  *)
(* texts, objects, jobs, mutations and recordings, any budgets and faults. *)
(*                                                                         *)
(* Its types are inductive by themselves.  With them, every step of it is  *)
(* one of the audio library or leaves it alone, so that what               *)
(* AudioLibraryProofs shows of the library alone holds on its pages, and   *)
(* in the same way one of the service that JobLifecycle describes.  The    *)
(* microphone, the queries of the jobs and the forms have inductive        *)
(* invariants of their own: MicInv, JobInv and TouchedInv.                 *)
(***************************************************************************)
EXTENDS WebApp, AudioLibraryProofs, SequenceTheorems

-----------------------------------------------------------------------------
(* The microphone.                                                         *)

\* A recording of the recorder that is mounted, which no other start overtook.
Alone(i) == take[i].of = form.here /\ ~take[i].beside

\* The recorders that were made are counted, and a recording belongs to one.
MadeInv ==
  /\ form.here <= form.made
  /\ \A i \in Takes : /\ take[i].at # "idle" => take[i].of \in 1..form.made
                      /\ take[i].at \in {"idle", "asking"} => ~take[i].mic
  /\ \A n \in Recorders : recorder[n].recorder # NoTake =>
       take[recorder[n].recorder].of = n /\ take[recorder[n].recorder].at # "idle"

\* The stream of a recording that has the microphone is the one its recorder would
\* stop; nothing else starts as long as it has it, or is about to.
AloneInv ==
  \A i \in Takes : Alone(i) =>
    /\ take[i].mic => /\ take[i].at \in {"importing", "recording", "encoding"}
                      /\ recorder[form.here].stream = i
                      /\ take[i].at # "importing" => recorder[form.here].recording
    /\ take[i].mic \/ take[i].at \in {"asking", "importing"} =>
         \A k \in Takes : take[k].of = form.here /\ take[k].at \in {"asking", "importing"} => k = i

MicInv == MadeInv /\ AloneInv

\* Nothing records at the start.
LEMMA MicInit ==
  ASSUME Init
  PROVE  MicInv
  BY DEF Init, StudioInit, NoForm, NoRecording, NoRefs, MicInv, MadeInv, AloneInv, Alone

\* Nothing happens to the recordings, but perhaps another recorder is mounted, or none.
Quiet ==
  /\ UNCHANGED recorder
  /\ \A i \in Takes : /\ take'[i].at = take[i].at /\ take'[i].of = take[i].of
                      /\ take'[i].mic = take[i].mic /\ take'[i].beside = take[i].beside
  /\ \/ form'.here \in {form.here, 0} /\ form'.made = form.made
     \/ form'.here = form.made + 1 /\ form'.made = form.made + 1

\* Mounting or unmounting a recorder takes no microphone.
LEMMA QuietKeeps ==
  ASSUME StudioTypeOK, MicInv, Quiet
  PROVE  MicInv'
  <1>1. form.here \in 0..MaxRecorders /\ form.made \in 0..MaxRecorders
    BY DEF StudioTypeOK, CreateForms
  <1>2. PICK here \in Nat, made \in Nat : here = form.here /\ made = form.made /\ here <= made
    BY <1>1 DEF MicInv, MadeInv
  <1>3. \/ form'.here \in {here, 0} /\ form'.made = made
        \/ form'.here = made + 1 /\ form'.made = made + 1
    BY <1>2 DEF Quiet
  <1>4. \A i \in Takes : take[i].of \in Nat
    BY DEF StudioTypeOK, Recordings
  <1>5. MadeInv'
    <2>1. form'.here <= form'.made
      BY <1>2, <1>3
    <2>2. ASSUME NEW i \in Takes, take'[i].at # "idle" PROVE take'[i].of \in 1..form'.made
      <3>1. take'[i].of = take[i].of /\ take[i].of \in 1..made
        BY <1>2, <2>2 DEF Quiet, MicInv, MadeInv
      <3> QED
        BY <1>2, <1>3, <3>1
    <2>3. \A i \in Takes : take'[i].at \in {"idle", "asking"} => ~take'[i].mic
      BY DEF Quiet, MicInv, MadeInv
    <2>4. \A n \in Recorders : recorder'[n].recorder # NoTake =>
            take'[recorder'[n].recorder].of = n /\ take'[recorder'[n].recorder].at # "idle"
      BY DEF Quiet, MicInv, MadeInv, StudioTypeOK, Refs
    <2> QED
      BY <2>1, <2>2, <2>3, <2>4 DEF MadeInv
  <1>6. ASSUME NEW i \in Takes, Alone(i)', form'.here # form.here
        PROVE  take'[i].at = "idle" /\ ~take'[i].mic
    <2>1. take'[i].of = form'.here /\ take'[i].of = take[i].of /\ take'[i].at = take[i].at
          /\ take'[i].mic = take[i].mic
      BY <1>6 DEF Alone, Quiet
    <2>2. take[i].of = 0 \/ take[i].of = made + 1
      BY <1>2, <1>3, <1>6, <2>1
    <2>3. take[i].of \notin 1..made
      BY <1>2, <2>2
    <2> QED
      BY <1>2, <2>1, <2>3 DEF MicInv, MadeInv
  <1>7. AloneInv'
    <2>1. CASE form'.here = form.here
      BY <2>1 DEF Quiet, MicInv, AloneInv, Alone
    <2>2. CASE form'.here # form.here
      BY <1>6, <2>2 DEF AloneInv
    <2> QED
      BY <2>1, <2>2
  <1> QED
    BY <1>5, <1>7 DEF MicInv

\* A recording belongs to a recorder that was made.
LEMMA OfRecorders ==
  ASSUME StudioTypeOK, MicInv
  PROVE  /\ form.here \in 0..MaxRecorders /\ form.made \in 0..MaxRecorders
         /\ form.here <= form.made
         /\ \A i \in Takes : take[i].at # "idle" => take[i].of \in Recorders
         /\ form.here # 0 => form.here \in Recorders
         /\ \A n \in Recorders : recorder[n].recorder \in Takes \cup {NoTake}
  <1>1. form.here \in 0..MaxRecorders /\ form.made \in 0..MaxRecorders /\ form.here <= form.made
    BY DEF StudioTypeOK, CreateForms, MicInv, MadeInv
  <1>2. \A i \in Takes : take[i].at # "idle" => take[i].of \in 1..form.made
    BY DEF MicInv, MadeInv
  <1>3. 1..form.made \subseteq Recorders
    BY <1>1, StudioAssumption DEF StudioAssumption, Recorders
  <1>4. form.here # 0 => form.here \in Recorders
    BY <1>1 DEF Recorders
  <1>5. \A n \in Recorders : recorder[n].recorder \in Takes \cup {NoTake}
    BY DEF StudioTypeOK, Refs
  <1> QED
    BY <1>1, <1>2, <1>3, <1>4, <1>5

\* A start takes an idle recording, and asks for the microphone before it has it.
LEMMA RecordKeeps ==
  ASSUME StudioTypeOK, MicInv, Record
  PROVE  MicInv'
  <1>1. PICK n : n = form.here
    OBVIOUS
  <1>2. PICK i \in Takes : /\ take[i].at = "idle"
                           /\ take' = [j \in Takes |->
                                CASE j = i -> [at |-> "asking", of |-> n, mic |-> FALSE,
                                               beside |-> Starting(n) # {}, heard |-> TRUE]
                                  [] j \in Starting(n) -> [take[j] EXCEPT !.beside = TRUE]
                                  [] OTHER -> take[j]]
    BY <1>1 DEF Record
  <1>3. n # 0 /\ ~recorder[n].recording /\ UNCHANGED <<form, recorder>>
    BY <1>1 DEF Record
  <1>4. n \in Recorders /\ n \in 1..form.made
    BY <1>1, <1>3, OfRecorders DEF Recorders
  <1>5. /\ take'[i].at = "asking" /\ take'[i].of = n /\ ~take'[i].mic
        /\ ~take'[i].beside => Starting(n) = {}
    <2>1. take'[i] = [at |-> "asking", of |-> n, mic |-> FALSE,
                      beside |-> Starting(n) # {}, heard |-> TRUE]
      <3>1. i \notin Starting(n)
        BY <1>2 DEF Starting
      <3> QED
        BY <1>2, <3>1
    <2>2. CASE Starting(n) = {}
      BY <2>1, <2>2
    <2>3. CASE Starting(n) # {}
      <3>1. take'[i] = [at |-> "asking", of |-> n, mic |-> FALSE, beside |-> TRUE, heard |-> TRUE]
        BY <2>1, <2>3, Zenon
      <3> QED
        BY <3>1
    <2> QED
      BY <2>2, <2>3
  <1>6. \A j \in Takes \ {i} : /\ take'[j].at = take[j].at /\ take'[j].of = take[j].of
                               /\ take'[j].mic = take[j].mic
                               /\ ~take'[j].beside => ~take[j].beside /\ j \notin Starting(n)
    <2>1. ASSUME NEW j \in Takes \ {i}
          PROVE  /\ j \in Starting(n) => take'[j] = [take[j] EXCEPT !.beside = TRUE]
                 /\ j \notin Starting(n) => take'[j] = take[j]
      BY <1>2
    <2>2. \A j \in Takes : take[j] \in Recordings
      BY DEF StudioTypeOK
    <2> QED
      BY <2>1, <2>2 DEF Recordings
  <1>7. MadeInv'
    <2>1. \A j \in Takes : /\ take'[j].at # "idle" => take'[j].of \in 1..form.made
                           /\ take'[j].at \in {"idle", "asking"} => ~take'[j].mic
      BY <1>4, <1>5, <1>6 DEF MicInv, MadeInv
    <2>2. \A m \in Recorders : recorder[m].recorder # NoTake =>
            take'[recorder[m].recorder].of = m /\ take'[recorder[m].recorder].at # "idle"
      BY <1>2, <1>6, OfRecorders DEF MicInv, MadeInv
    <2> QED
      BY <1>3, <2>1, <2>2 DEF MicInv, MadeInv
  <1>8. ASSUME NEW j \in Takes, j # i, Alone(j)'
        PROVE  ~take'[j].mic /\ take'[j].at \notin {"asking", "importing"}
    <2>1. Alone(j) /\ j \notin Starting(n)
      BY <1>3, <1>6, <1>8 DEF Alone
    <2>2. take[j].of = n /\ take[j].at \notin {"asking", "importing"}
      BY <1>1, <2>1 DEF Alone, Starting
    <2>3. ~take[j].mic
      BY <1>1, <1>3, <2>1, <2>2 DEF MicInv, AloneInv
    <2> QED
      BY <1>6, <1>8, <2>2, <2>3
  <1>9. ASSUME Alone(i)', NEW k \in Takes, take'[k].of = n, take'[k].at \in {"asking", "importing"}
        PROVE  k = i
    <2>1. Starting(n) = {}
      BY <1>5, <1>9 DEF Alone
    <2> QED
      BY <1>6, <1>9, <2>1 DEF Starting
  <1>10. AloneInv'
    BY <1>1, <1>3, <1>5, <1>8, <1>9 DEF AloneInv
  <1> QED
    BY <1>7, <1>10 DEF MicInv

\* A take goes on: it has the microphone, or records, or stops.
LEMMA GrantedKeeps ==
  ASSUME StudioTypeOK, MicInv, NEW i \in Takes, Granted(i)
  PROVE  MicInv'
  <1>1. PICK n \in Recorders : n = take[i].of /\ take[i].at = "asking"
    BY OfRecorders DEF Granted
  <1>2. /\ take'[i].at = "importing" /\ take'[i].mic /\ take'[i].of = n
        /\ take'[i].beside = take[i].beside
    BY <1>1 DEF Granted, StudioTypeOK, Recordings
  <1>3. \A j \in Takes \ {i} : take'[j] = take[j]
    BY DEF Granted, StudioTypeOK
  <1>4. /\ recorder'[n].stream = i /\ UNCHANGED form
        /\ \A m \in Recorders \ {n} : recorder'[m] = recorder[m]
        /\ \A m \in Recorders : recorder'[m].recorder = recorder[m].recorder
    BY <1>1 DEF Granted, StudioTypeOK, Refs
  <1>5. MadeInv'
    BY <1>1, <1>2, <1>3, <1>4, OfRecorders DEF MicInv, MadeInv
  <1>6. AloneInv'
    <2>1. ASSUME Alone(i)', NEW k \in Takes, take'[k].of = n, take'[k].at \in {"asking", "importing"}
          PROVE  k = i
      <3>1. Alone(i) /\ form.here = n
        BY <1>1, <1>2, <1>4, <2>1 DEF Alone
      <3>2. k # i => take[k].of = n /\ take[k].at \in {"asking", "importing"}
        BY <1>3, <2>1
      <3> QED
        BY <1>1, <3>1, <3>2 DEF MicInv, AloneInv
    <2>2. ASSUME Alone(i)' PROVE form'.here = n
      BY <1>2, <2>2 DEF Alone
    <2>3. ASSUME NEW j \in Takes, j # i, Alone(j)',
                 take[j].mic \/ take[j].at \in {"asking", "importing"}
          PROVE  /\ n # form.here /\ recorder'[form.here] = recorder[form.here]
                 /\ take'[i].of # form.here
      <3>1. Alone(j)
        BY <1>3, <1>4, <2>3 DEF Alone
      <3>2. n # form.here
        BY <1>1, <2>3, <3>1 DEF MicInv, AloneInv
      <3>3. take[j].of \in Recorders /\ take[j].of = form.here
        BY <2>3, <3>1, OfRecorders DEF Alone, MicInv, MadeInv
      <3> QED
        BY <1>2, <1>4, <3>2, <3>3
    <2>4. ASSUME NEW j \in Takes, j # i, Alone(j)'
          PROVE  Alone(j) /\ take'[j] = take[j]
      BY <1>3, <1>4, <2>4 DEF Alone
    <2>5. ASSUME NEW j \in Takes, j # i, Alone(j)'
          PROVE  /\ take'[j].mic => /\ take'[j].at \in {"importing", "recording", "encoding"}
                                    /\ recorder'[form'.here].stream = j
                                    /\ take'[j].at # "importing" => recorder'[form'.here].recording
                 /\ take'[j].mic \/ take'[j].at \in {"asking", "importing"} =>
                      \A k \in Takes : take'[k].of = form'.here
                                      /\ take'[k].at \in {"asking", "importing"} => k = j
      BY <1>3, <1>4, <2>3, <2>4, <2>5 DEF MicInv, AloneInv
    <2> QED
      BY <1>2, <1>4, <2>1, <2>2, <2>5 DEF AloneInv
  <1> QED
    BY <1>5, <1>6 DEF MicInv

\* The recorder of a stream that was granted is made, and records.
LEMMA ImportedKeeps ==
  ASSUME StudioTypeOK, MicInv, NEW i \in Takes, Imported(i)
  PROVE  MicInv'
  <1>1. PICK n \in Recorders : n = take[i].of /\ take[i].at = "importing"
    BY OfRecorders DEF Imported
  <1>2. /\ take'[i].at = "recording" /\ take'[i].of = n
        /\ take'[i].mic = take[i].mic /\ take'[i].beside = take[i].beside
    BY <1>1 DEF Imported, StudioTypeOK, Recordings
  <1>3. \A j \in Takes \ {i} : take'[j] = take[j]
    BY DEF Imported, StudioTypeOK
  <1>4. /\ recorder'[n].recorder = i /\ recorder'[n].recording
        /\ recorder'[n].stream = recorder[n].stream /\ UNCHANGED form
        /\ \A m \in Recorders \ {n} : recorder'[m] = recorder[m]
    BY <1>1 DEF Imported, StudioTypeOK, Refs
  <1>5. MadeInv'
    <2>1. \A m \in Recorders : recorder'[m].recorder # NoTake =>
            take'[recorder'[m].recorder].of = m /\ take'[recorder'[m].recorder].at # "idle"
      BY <1>1, <1>2, <1>3, <1>4, OfRecorders DEF MicInv, MadeInv
    <2>2. \A j \in Takes : /\ take'[j].at # "idle" => take'[j].of \in 1..form.made
                           /\ take'[j].at \in {"idle", "asking"} => ~take'[j].mic
      BY <1>1, <1>2, <1>3 DEF MicInv, MadeInv
    <2> QED
      BY <1>4, <2>1, <2>2 DEF MicInv, MadeInv
  <1>6. AloneInv'
    <2>1. ASSUME Alone(i)'
          PROVE  /\ Alone(i) /\ form'.here = n
                 /\ \A k \in Takes : take'[k].of # n \/ take'[k].at \notin {"asking", "importing"}
                 /\ take[i].mic => recorder[n].stream = i
      <3>1. Alone(i) /\ form.here = n
        BY <1>1, <1>2, <1>4, <2>1 DEF Alone
      <3> QED
        BY <1>1, <1>2, <1>3, <1>4, <3>1 DEF MicInv, AloneInv
    <2>2. ASSUME NEW j \in Takes, j # i, Alone(j)',
                 take[j].mic \/ take[j].at \in {"asking", "importing"}
          PROVE  /\ n # form.here /\ recorder'[form.here] = recorder[form.here]
                 /\ take'[i].of # form.here
      <3>1. Alone(j)
        BY <1>3, <1>4, <2>2 DEF Alone
      <3>2. n # form.here
        BY <1>1, <2>2, <3>1 DEF MicInv, AloneInv
      <3>3. take[j].of \in Recorders /\ take[j].of = form.here
        BY <2>2, <3>1, OfRecorders DEF Alone, MicInv, MadeInv
      <3> QED
        BY <1>2, <1>4, <3>2, <3>3
    <2>3. ASSUME NEW j \in Takes, j # i, Alone(j)'
          PROVE  Alone(j) /\ take'[j] = take[j]
      BY <1>3, <1>4, <2>3 DEF Alone
    <2>4. ASSUME NEW j \in Takes, j # i, Alone(j)'
          PROVE  /\ take'[j].mic => /\ take'[j].at \in {"importing", "recording", "encoding"}
                                    /\ recorder'[form'.here].stream = j
                                    /\ take'[j].at # "importing" => recorder'[form'.here].recording
                 /\ take'[j].mic \/ take'[j].at \in {"asking", "importing"} =>
                      \A k \in Takes : take'[k].of = form'.here
                                      /\ take'[k].at \in {"asking", "importing"} => k = j
      BY <1>3, <1>4, <2>2, <2>3, <2>4 DEF MicInv, AloneInv
    <2> QED
      BY <1>2, <1>4, <2>1, <2>4 DEF AloneInv
  <1> QED
    BY <1>5, <1>6 DEF MicInv

\* A stop leaves the microphone on until the file is encoded.
LEMMA StopKeeps ==
  ASSUME StudioTypeOK, MicInv, Stop
  PROVE  MicInv'
  <1>1. PICK i \in Takes : take[i].at = "recording" /\ take' = [take EXCEPT ![i].at = "encoding"]
    BY OfRecorders DEF Stop
  <1>2. /\ take'[i].at = "encoding" /\ take'[i].of = take[i].of
        /\ take'[i].mic = take[i].mic /\ take'[i].beside = take[i].beside
        /\ \A j \in Takes \ {i} : take'[j] = take[j]
    BY <1>1 DEF StudioTypeOK, Recordings
  <1>3. UNCHANGED <<form, recorder>>
    BY DEF Stop
  <1>4. MadeInv'
    BY <1>1, <1>2, <1>3, OfRecorders DEF MicInv, MadeInv
  <1>5. AloneInv'
    BY <1>1, <1>2, <1>3 DEF MicInv, AloneInv, Alone
  <1> QED
    BY <1>4, <1>5 DEF MicInv

\* A recorder is cleaned up: the microphone of its stream is off, and a recording of
\* it may be done.
LEMMA CleanKeeps ==
  ASSUME StudioTypeOK, MicInv, NEW n \in Recorders,
         form'.here = form.here, form'.made = form.made,
         recorder'[n].recorder = NoTake, \A m \in Recorders \ {n} : recorder'[m] = recorder[m],
         \A j \in Takes : /\ take'[j].of = take[j].of /\ take'[j].beside = take[j].beside
                          /\ take'[j].mic => take[j].mic /\ j # recorder[n].stream
                          /\ \/ take'[j].at = take[j].at
                             \/ take[j].at # "idle" /\ take[j].of = n /\ take'[j].at = "done"
  PROVE  MicInv'
  <1>1. MadeInv'
    BY OfRecorders DEF MicInv, MadeInv
  <1>2. ASSUME NEW j \in Takes, Alone(j)'
        PROVE  /\ take'[j].mic => /\ take'[j].at \in {"importing", "recording", "encoding"}
                                  /\ recorder'[form'.here].stream = j
                                  /\ take'[j].at # "importing" => recorder'[form'.here].recording
               /\ take'[j].mic \/ take'[j].at \in {"asking", "importing"} =>
                    \A k \in Takes : take'[k].of = form'.here
                                    /\ take'[k].at \in {"asking", "importing"} => k = j
    <2>1. Alone(j)
      BY <1>2 DEF Alone
    <2>2. CASE form.here = n
      <3>1. ~take'[j].mic
        BY <2>1, <2>2 DEF MicInv, AloneInv
      <3> QED
        BY <2>1, <3>1 DEF MicInv, AloneInv
    <2>3. CASE form.here # n
      <3>1. take'[j].at = take[j].at
        BY <2>1, <2>3 DEF Alone
      <3>2. ASSUME take'[j].mic PROVE recorder'[form'.here] = recorder[form.here]
        <4>1. take[j].at # "idle" /\ take[j].of = form.here
          BY <2>1, <3>2 DEF MicInv, MadeInv, Alone
        <4> QED
          BY <2>3, <4>1, OfRecorders
      <3> QED
        BY <2>1, <3>1, <3>2 DEF MicInv, AloneInv
    <2> QED
      BY <2>2, <2>3
  <1> QED
    BY <1>1, <1>2 DEF MicInv, AloneInv

-----------------------------------------------------------------------------
USE WebAssumption, StudioAssumption, SpeechAssumption
    DEF WebAssumption, StudioAssumption, SpeechAssumption

-----------------------------------------------------------------------------
(* Lists of voices.                                                        *)

\* A voice that is listed has a place in the list and a text there.
LEMMA PlaceFacts ==
  ASSUME NEW rows \in Seq(Rows), NEW v \in Voices, Has(rows, v)
  PROVE  /\ Place(rows, v) \in 1..Len(rows)
         /\ TextIn(rows, v) \in Texts
  <1>1. DOMAIN rows = 1..Len(rows) /\ \A n \in 1..Len(rows) : rows[n] \in Rows
    BY ElementOfSeq, LenProperties
  <1>2. Place(rows, v) \in DOMAIN rows
    BY DEF Has, Place
  <1>3. rows[Place(rows, v)] \in Rows
    BY <1>1, <1>2
  <1> QED
    BY <1>1, <1>2, <1>3 DEF TextIn, Rows

\* The rows after a change are rows.
LEMMA RowsAfterFacts ==
  ASSUME NEW v \in Voices, NEW t \in Texts, NEW kind \in {"create", "update", "delete"},
         catalogue \in Seq(Rows), kind # "create" => Has(catalogue, v)
  PROVE  RowsAfter(kind, v, t) \in Seq(Rows)
  <1>1. Row(v, t) \in Rows
    BY DEF Row, Rows
  <1>2. CASE kind = "create"
    <2>1. <<Row(v, t)>> \in Seq(Rows)
      BY <1>1
    <2> QED
      BY <1>2, <2>1, ConcatProperties DEF RowsAfter
  <1>3. CASE kind = "update"
    <2>1. Place(catalogue, v) \in 1..Len(catalogue)
      BY <1>3, PlaceFacts
    <2>2. [catalogue EXCEPT ![Place(catalogue, v)] = Row(v, t)] \in Seq(Rows)
      BY <1>1, <2>1, ExceptSeq
    <2> QED
      BY <1>3, <2>2 DEF RowsAfter
  <1>4. CASE kind = "delete"
    <2>1. Place(catalogue, v) \in 1..Len(catalogue) /\ Len(catalogue) \in Nat
      BY <1>4, PlaceFacts, LenProperties
    <2>2. PICK n \in Nat, m \in Nat : n = Place(catalogue, v) /\ m = Len(catalogue) /\ n \in 1..m
      BY <2>1
    <2>3. \A k \in 1..m : catalogue[k] \in Rows
      BY <2>2, ElementOfSeq
    <2>4. SubSeq(catalogue, 1, n - 1) \in Seq(Rows)
      BY <2>2, <2>3, SubSeqProperties
    <2>5. SubSeq(catalogue, n + 1, m) \in Seq(Rows)
      BY <2>2, <2>3, SubSeqProperties
    <2>6. SubSeq(catalogue, 1, n - 1) \o SubSeq(catalogue, n + 1, m) \in Seq(Rows)
      BY <2>4, <2>5, ConcatProperties
    <2> QED
      BY <1>4, <2>2, <2>6 DEF RowsAfter, RemoveAt
  <1> QED
    BY <1>2, <1>3, <1>4

\* The voices offered are the listed ones, and then those that are built in.
LEMMA AllVoicesFacts ==
  ASSUME NEW rows \in Seq(Rows)
  PROVE  /\ Ids(rows) \o BuiltIn \in Seq(Voices)
         /\ Ids(rows) \o <<>> \in Seq(Voices)
  <1>1. DOMAIN rows = 1..Len(rows) /\ Len(rows) \in Nat /\ \A n \in 1..Len(rows) : rows[n] \in Rows
    BY ElementOfSeq, LenProperties
  <1>2. Ids(rows) \in [1..Len(rows) -> Voices]
    BY <1>1 DEF Ids, Rows
  <1>3. Ids(rows) \in Seq(Voices)
    BY <1>1, <1>2, IsASeq
  <1>4. <<>> \in Seq(Voices)
    OBVIOUS
  <1> QED
    BY <1>3, <1>4, ConcatProperties

-----------------------------------------------------------------------------
(* The types of the voice studio.                                          *)

\* A list may be empty.
LEMMA NoRows == <<>> \in Seq(Rows)
  BY EmptySeq

\* What a page is mounted with has its type.
LEMMA DefaultsTyped ==
  /\ NoList \in Lists /\ NoCard \in Cards /\ NoMutation \in Changes
  /\ NoForm \in CreateForms /\ NoRecording \in Recordings /\ NoRefs \in Refs
  <1>1. NoList \in Lists
    <2>1. PICK e \in Seq(Rows) : e = <<>>
      BY NoRows
    <2>2. NoList = [loaded |-> FALSE, stale |-> FALSE, shown |-> e, fetching |-> "no", rows |-> e]
      BY <2>1 DEF NoList
    <2> QED
      BY <2>2 DEF Lists
  <1>2. NoCard \in Cards /\ NoMutation \in Changes
    <2>1. PICK w \in Voices : w = CHOOSE v \in Voices : TRUE
      BY LibraryAssumption DEF LibraryAssumption
    <2>2. NoMutation \in Changes
      BY <2>1 DEF NoMutation, Changes
    <2> QED
      BY <2>2 DEF NoCard, Cards
  <1>3. NoForm \in CreateForms /\ NoRecording \in Recordings /\ NoRefs \in Refs
    BY DEF NoForm, CreateForms, NoRecording, Recordings, NoRefs, Refs, NoTake
  <1> QED
    BY <1>1, <1>2, <1>3

\* The voice studio starts with what it may hold.
LEMMA StudioInitTyped ==
  ASSUME StudioInit
  PROVE  StudioTypeOK
  <1>1. DOMAIN InitialRows = 1..Len(InitialRows)
        /\ \A n \in 1..Len(InitialRows) : InitialRows[n] \in Rows
    BY ElementOfSeq, LenProperties DEF Rows
  <1>2. known \subseteq Voices
    BY <1>1 DEF StudioInit, Rows
  <1> QED
    BY <1>2, DefaultsTyped DEF StudioInit, StudioTypeOK, Rows

\* Invalidating a list, observed or not, makes a list.
LEMMA InvalidatedTyped ==
  ASSUME list \in Lists, NEW observed \in BOOLEAN
  PROVE  Invalidated(observed) \in Lists
  <1>1. [list EXCEPT !.stale = TRUE] \in Lists
    BY DEF Lists
  <1>2. [list EXCEPT !.fetching = "sent", !.rows = <<>>] \in Lists
    BY EmptySeq DEF Lists
  <1> QED
    BY <1>1, <1>2 DEF Invalidated

\* A change whose card or form is gone is a change still.
LEMMA DisownedTyped ==
  ASSUME mutation \in [Mutations -> Changes], NEW i \in Mutations
  PROVE  mutation[i] \in Changes /\ [mutation[i] EXCEPT !.mine = FALSE] \in Changes
  BY DEF Changes

\* What becomes of the list.
LEMMA ListSteps ==
  ASSUME StudioTypeOK, ServeList \/ ShowList \/ ListFails
  PROVE  StudioTypeOK' /\ form' = form
  <1>1. CASE ServeList
    <2>1. list' \in Lists
      BY <1>1 DEF StudioTypeOK, ServeList, Lists
    <2> QED
      BY <1>1, <2>1 DEF StudioTypeOK, ServeList
  <1>2. CASE ListFails
    <2>1. list \in Lists /\ list' = [list EXCEPT !.fetching = "no", !.rows = <<>>]
      BY <1>2 DEF StudioTypeOK, ListFails
    <2>2. list' \in Lists
      BY <2>1, NoRows DEF Lists
    <2> QED
      BY <1>2, <2>2 DEF StudioTypeOK, ListFails
  <1>3. CASE ShowList
    <2>1. list' \in Lists
      BY <1>3, DefaultsTyped DEF StudioTypeOK, ShowList, Lists, NoList
    <2>2. card' \in [Voices -> Cards]
      BY <1>3, DefaultsTyped DEF StudioTypeOK, ShowList
    <2>3. mutation' \in [Mutations -> Changes]
      BY <1>3, DisownedTyped DEF StudioTypeOK, ShowList
    <2> QED
      BY <1>3, <2>1, <2>2, <2>3 DEF StudioTypeOK, ShowList
  <1> QED
    BY <1>1, <1>2, <1>3

\* A mutation that goes on to its next stage is still one.
LEMMA ReachesTyped ==
  ASSUME mutation \in [Mutations -> Changes], NEW i \in Mutations,
         NEW stage \in {"refetch", "forget", "refused", "done"}, Reaches(i, stage)
  PROVE  mutation' \in [Mutations -> Changes]
  BY DEF Reaches, Changes

\* A mutation that settles may close its dialog or its form, and no more.
LEMMA SettledTyped ==
  ASSUME StudioTypeOK, NEW m \in Changes, Settled(m)
  PROVE  /\ card' \in [Voices -> Cards] /\ form' \in CreateForms
         /\ form'.open = form.open /\ form'.here = form.here /\ form'.made = form.made
  <1>1. card' \in [Voices -> Cards]
    <2>1. card \in [Voices -> Cards] /\ m.voice \in Voices
      BY DEF StudioTypeOK, Changes
    <2>2. \/ card' = card
          \/ card' = [card EXCEPT ![m.voice] = [card[m.voice] EXCEPT !.edit = FALSE]]
          \/ card' = [card EXCEPT ![m.voice] = [card[m.voice] EXCEPT !.confirm = FALSE]]
      BY DEF Settled
    <2>3. /\ [card[m.voice] EXCEPT !.edit = FALSE] \in Cards
          /\ [card[m.voice] EXCEPT !.confirm = FALSE] \in Cards
      BY <2>1 DEF Cards
    <2> QED
      BY <2>1, <2>2, <2>3
  <1>2. /\ form' \in CreateForms
        /\ form'.open = form.open /\ form'.here = form.here /\ form'.made = form.made
    BY DEF StudioTypeOK, Settled, CreateForms
  <1> QED
    BY <1>1, <1>2

\* What becomes of a change.
LEMMA ChangeSteps ==
  ASSUME StudioTypeOK, NEW i \in Mutations, NEW observed \in BOOLEAN,
         \/ MutationServed(i, observed) \/ MutationSettles(i, observed)
         \/ MutationFails(i) \/ DeleteSettles(i)
  PROVE  StudioTypeOK' /\ form'.open = form.open
  <1>1. mutation[i] \in Changes
    BY DEF StudioTypeOK
  <1>2. CASE MutationServed(i, observed)
    <2>1. PICK v \in Voices :
            /\ IF mutation[i].kind = "create" THEN v \notin known
               ELSE v = mutation[i].voice /\ Has(catalogue, v)
            /\ known' = known \cup {v}
            /\ catalogue' = RowsAfter(mutation[i].kind, v, mutation[i].text)
      BY <1>2 DEF MutationServed
    <2>2. Reaches(i, "refetch") /\ list' = Invalidated(observed)
          /\ UNCHANGED <<card, form, take, recorder>>
      BY <1>2 DEF MutationServed
    <2>3. catalogue' \in Seq(Rows)
      BY <1>1, <2>1, RowsAfterFacts DEF StudioTypeOK, Changes
    <2>4. mutation' \in [Mutations -> Changes]
      BY <2>2, ReachesTyped DEF StudioTypeOK
    <2>5. list' \in Lists
      BY <2>2, InvalidatedTyped DEF StudioTypeOK
    <2> QED
      BY <2>1, <2>2, <2>3, <2>4, <2>5 DEF StudioTypeOK
  <1>3. CASE MutationSettles(i, observed)
    <2>1. mutation' \in [Mutations -> Changes]
      BY <1>3, ReachesTyped DEF MutationSettles, StudioTypeOK
    <2>2. /\ card' \in [Voices -> Cards] /\ form' \in CreateForms
          /\ form'.open = form.open
      BY <1>1, <1>3, SettledTyped DEF MutationSettles, StudioTypeOK
    <2> QED
      BY <1>3, <2>1, <2>2 DEF MutationSettles, StudioTypeOK
  <1>4. CASE MutationFails(i)
    <2>1. mutation' \in [Mutations -> Changes]
      BY <1>4, ReachesTyped DEF MutationFails, StudioTypeOK
    <2> QED
      BY <1>4, <2>1 DEF MutationFails, StudioTypeOK
  <1>5. CASE DeleteSettles(i)
    <2>1. mutation' \in [Mutations -> Changes]
      BY <1>5, ReachesTyped DEF DeleteSettles, StudioTypeOK
    <2>2. /\ card' \in [Voices -> Cards] /\ form' \in CreateForms
          /\ form'.open = form.open
      BY <1>1, <1>5, SettledTyped DEF DeleteSettles, StudioTypeOK
    <2> QED
      BY <1>5, <2>1, <2>2 DEF DeleteSettles, StudioTypeOK
  <1> QED
    BY <1>2, <1>3, <1>4, <1>5

\* Starting a mutation takes an idle one.
LEMMA MutateTyped ==
  ASSUME mutation \in [Mutations -> Changes], NEW kind \in {"create", "update", "delete"},
         NEW v \in Voices, NEW t \in Texts, Mutate(kind, v, t)
  PROVE  mutation' \in [Mutations -> Changes]
  BY DEF Mutate, Changes

\* A change to one card keeps the types.
LEMMA CardTyped ==
  ASSUME StudioTypeOK, NEW v \in Voices, NEW c \in Cards, Card(v, c),
         mutation' \in [Mutations -> Changes]
  PROVE  StudioTypeOK'
  BY DEF StudioTypeOK, Card

\* What the user does in the dialogs of the cards.
LEMMA EditTyped ==
  ASSUME StudioTypeOK, NEW v \in Voices,
         \/ OpenEdit(v) \/ CancelEdit(v) \/ SaveEdit(v)
         \/ \E t \in Texts : TypeEdit(v, t)
         \/ OpenDelete(v) \/ CancelDelete(v) \/ ConfirmDelete(v)
  PROVE  StudioTypeOK' /\ UNCHANGED <<form, list>>
  <1> DEFINE Open == [card[v] EXCEPT !.edit = TRUE, !.draft = TextIn(list.shown, v)]
  <1>1. card[v] \in Cards /\ mutation \in [Mutations -> Changes]
    BY DEF StudioTypeOK
  <1>2. ASSUME NEW b \in BOOLEAN
        PROVE  /\ [card[v] EXCEPT !.edit = b] \in Cards
               /\ [card[v] EXCEPT !.confirm = b] \in Cards
    BY <1>1 DEF Cards
  <1>3. ASSUME NEW t \in Texts
        PROVE  [card[v] EXCEPT !.draft = t] \in Cards
    BY <1>1 DEF Cards
  <1>4. CASE OpenEdit(v)
    <2>1. Has(list.shown, v) /\ list.shown \in Seq(Rows)
      BY <1>4 DEF OpenEdit, Card, StudioTypeOK, Lists
    <2>2. TextIn(list.shown, v) \in Texts
      BY <2>1, PlaceFacts
    <2>3. Open \in Cards
      BY <1>1, <2>2 DEF Cards
    <2>4. Card(v, Open) /\ UNCHANGED mutation
      BY <1>4 DEF OpenEdit
    <2> HIDE DEF Open
    <2>5. StudioTypeOK'
      BY <1>1, <2>3, <2>4, CardTyped
    <2> QED
      BY <2>4, <2>5 DEF Card
  <1>5. CASE CancelEdit(v)
    <2>1. Card(v, [card[v] EXCEPT !.edit = FALSE]) /\ UNCHANGED mutation
      BY <1>5 DEF CancelEdit
    <2> QED
      BY <1>1, <1>2, <2>1, CardTyped DEF Card
  <1>6. ASSUME NEW t \in Texts, TypeEdit(v, t)
        PROVE  StudioTypeOK' /\ UNCHANGED <<form, list>>
    <2>1. Card(v, [card[v] EXCEPT !.draft = t]) /\ UNCHANGED mutation
      BY <1>6 DEF TypeEdit
    <2> QED
      BY <1>1, <1>3, <2>1, CardTyped DEF Card
  <1>7. CASE SaveEdit(v)
    <2>1. Card(v, card[v]) /\ Mutate("update", v, card[v].draft)
      BY <1>7 DEF SaveEdit
    <2>2. mutation' \in [Mutations -> Changes]
      BY <1>1, <2>1, MutateTyped DEF Cards
    <2> QED
      BY <1>1, <2>1, <2>2, CardTyped DEF Card
  <1>8. CASE OpenDelete(v) \/ CancelDelete(v)
    <2>1. PICK b \in BOOLEAN : Card(v, [card[v] EXCEPT !.confirm = b]) /\ UNCHANGED mutation
      BY <1>8 DEF OpenDelete, CancelDelete
    <2> QED
      BY <1>1, <1>2, <2>1, CardTyped DEF Card
  <1>9. CASE ConfirmDelete(v)
    <2>1. Card(v, [card[v] EXCEPT !.confirm = FALSE]) /\ Mutate("delete", v, Blank)
      BY <1>9 DEF ConfirmDelete
    <2>2. mutation' \in [Mutations -> Changes]
      BY <1>1, <2>1, MutateTyped
    <2> QED
      BY <1>2, <2>1, <2>2, CardTyped DEF Card
  <1> QED
    BY <1>4, <1>5, <1>6, <1>7, <1>8, <1>9

-----------------------------------------------------------------------------
(* The types of the create form and of its recordings.                     *)

\* A change to the create form keeps the types.
LEMMA FormTyped ==
  ASSUME StudioTypeOK, NEW f \in CreateForms, Form(f), mutation' \in [Mutations -> Changes]
  PROVE  StudioTypeOK'
  BY DEF StudioTypeOK, Form

\* What the user does in the form but for its recorder.
LEMMA FillInTyped ==
  ASSUME StudioTypeOK,
         \/ OpenForm \/ SwitchTab \/ ChooseFile \/ ClearFile \/ SubmitForm
         \/ \E t \in Texts : TypeForm(t)
  PROVE  StudioTypeOK' /\ UNCHANGED <<list, take, recorder>>
  <1>1. form \in CreateForms /\ mutation \in [Mutations -> Changes]
    BY DEF StudioTypeOK
  <1>2. CASE OpenForm
    <2>1. [form EXCEPT !.open = TRUE] \in CreateForms
      BY <1>1 DEF CreateForms
    <2> QED
      BY <1>1, <1>2, <2>1, FormTyped DEF OpenForm, Form
  <1>3. CASE SwitchTab
    <2> DEFINE Bounds == 0..MaxRecorders
    <2>1. 0 \in Bounds /\ form.made \in Bounds
      BY <1>1 DEF CreateForms
    <2>2. form.made < MaxRecorders => form.made + 1 \in Bounds
      BY <2>1
    <2>3. CreateForms = [open : BOOLEAN, tab : {"upload", "record"},
                         file : {"none", "chosen", "recorded"}, text : Texts,
                         here : Bounds, made : Bounds]
      BY DEF CreateForms
    <2> HIDE DEF Bounds
    <2>4. [form EXCEPT !.tab = "upload", !.here = 0] \in CreateForms
      BY <1>1, <2>1, <2>3
    <2>5. form.made < MaxRecorders =>
            [form EXCEPT !.tab = "record", !.here = form.made + 1, !.made = @ + 1] \in CreateForms
      BY <1>1, <2>2, <2>3
    <2> QED
      BY <1>1, <1>3, <2>4, <2>5, FormTyped DEF SwitchTab, Form
  <1>4. CASE ChooseFile \/ ClearFile
    <2>1. /\ [form EXCEPT !.file = "chosen"] \in CreateForms
          /\ [form EXCEPT !.file = "none"] \in CreateForms
      BY <1>1 DEF CreateForms
    <2> QED
      BY <1>1, <1>4, <2>1, FormTyped DEF ChooseFile, ClearFile, Form
  <1>5. CASE SubmitForm
    <2>1. PICK w \in Voices : w = CHOOSE v \in Voices : TRUE
      BY LibraryAssumption DEF LibraryAssumption
    <2>2. form.text \in Texts /\ Mutate("create", w, form.text)
      BY <1>1, <1>5, <2>1 DEF SubmitForm, CreateForms
    <2>3. mutation' \in [Mutations -> Changes]
      BY <1>1, <2>2, MutateTyped
    <2> QED
      BY <1>1, <1>5, <2>3, FormTyped DEF SubmitForm, Form
  <1>6. ASSUME NEW t \in Texts, TypeForm(t)
        PROVE  StudioTypeOK' /\ UNCHANGED <<list, take, recorder>>
    <2>1. [form EXCEPT !.text = t] \in CreateForms
      BY <1>1 DEF CreateForms
    <2> QED
      BY <1>1, <1>6, <2>1, FormTyped DEF TypeForm, Form
  <1> QED
    BY <1>2, <1>3, <1>4, <1>5, <1>6

\* The form or its page is left.
LEMMA LeaveTyped ==
  ASSUME StudioTypeOK
  PROVE  /\ CloseForm => StudioTypeOK' /\ ~form'.open /\ UNCHANGED list
         /\ LeaveStudio /\ list' \in Lists => StudioTypeOK' /\ ~form'.open
  <1>1. [NoForm EXCEPT !.made = form.made] \in CreateForms
    <2>1. form.made \in 0..MaxRecorders /\ NoForm \in CreateForms
      BY DefaultsTyped DEF StudioTypeOK, CreateForms
    <2> QED
      BY <2>1 DEF CreateForms
  <1>2. ~[NoForm EXCEPT !.made = form.made].open
    BY DEF NoForm
  <1>3. [i \in Takes |-> [take[i] EXCEPT !.heard = FALSE]] \in [Takes -> Recordings]
    BY DEF StudioTypeOK, Recordings
  <1>4. ASSUME CloseForm PROVE StudioTypeOK' /\ ~form'.open /\ UNCHANGED list
    <2>1. mutation' \in [Mutations -> Changes]
      BY <1>4, DisownedTyped DEF CloseForm, LeaveForm, StudioTypeOK
    <2> QED
      BY <1>1, <1>2, <1>3, <1>4, <2>1 DEF CloseForm, LeaveForm, StudioTypeOK
  <1>5. ASSUME LeaveStudio, list' \in Lists PROVE StudioTypeOK' /\ ~form'.open
    <2>1. mutation' \in [Mutations -> Changes]
      BY <1>5, DisownedTyped DEF LeaveStudio, StudioTypeOK
    <2>2. card' \in [Voices -> Cards]
      BY <1>5, DefaultsTyped DEF LeaveStudio
    <2> QED
      BY <1>1, <1>2, <1>3, <1>5, <2>1, <2>2 DEF LeaveStudio, StudioTypeOK
  <1> QED
    BY <1>4, <1>5

\* A recorder that cleans up leaves recordings.
LEMMA CleanedTyped ==
  ASSUME take \in [Takes -> Recordings], NEW n
  PROVE  Cleaned(n) \in [Takes -> Recordings]
  <1>1. ASSUME NEW i \in Takes
        PROVE  Cleaned(n)[i] \in Recordings
    BY DEF Cleaned, Recordings
  <1> QED
    BY <1>1 DEF Cleaned

\* What the user does at the recorder, and what becomes of a recording.
LEMMA RecorderTyped ==
  ASSUME StudioTypeOK,
         \/ Record \/ Stop \/ ResetRecording
         \/ \E i \in Takes : Granted(i) \/ Imported(i) \/ Encoded(i) \/ StartFails(i)
  PROVE  StudioTypeOK' /\ UNCHANGED list /\ form'.open = form.open
  <1>1. /\ form \in CreateForms /\ take \in [Takes -> Recordings]
        /\ recorder \in [Recorders -> Refs]
    BY DEF StudioTypeOK
  <1>2. ASSUME NEW f, f = form \/ f = [form EXCEPT !.file = "recorded"]
                               \/ f = [form EXCEPT !.file = "none"]
        PROVE  f \in CreateForms /\ f.open = form.open
    BY <1>1, <1>2 DEF CreateForms
  <1>3. ASSUME take' \in [Takes -> Recordings], recorder' \in [Recorders -> Refs], Took,
               \/ form' = form \/ form' = [form EXCEPT !.file = "recorded"]
                               \/ form' = [form EXCEPT !.file = "none"]
        PROVE  StudioTypeOK' /\ UNCHANGED list /\ form'.open = form.open
    BY <1>2, <1>3 DEF StudioTypeOK, Took
  <1>4. ASSUME NEW n, NEW i \in Takes, NEW g, g \in [Takes -> Recordings],
               NEW stage \in {"importing", "recording", "encoding", "done"}
        PROVE  /\ [g EXCEPT ![i].at = stage] \in [Takes -> Recordings]
               /\ [g EXCEPT ![i].at = stage, ![i].mic = TRUE] \in [Takes -> Recordings]
    BY <1>4 DEF Recordings
  <1>5. CASE Record
    <2>1. PICK i \in Takes : take' = [j \in Takes |->
                CASE j = i -> [at |-> "asking", of |-> form.here, mic |-> FALSE,
                               beside |-> Starting(form.here) # {}, heard |-> TRUE]
                  [] j \in Starting(form.here) -> [take[j] EXCEPT !.beside = TRUE]
                  [] OTHER -> take[j]]
      BY <1>5 DEF Record
    <2>2. take' \in [Takes -> Recordings]
      BY <1>1, <2>1 DEF Recordings, CreateForms
    <2> QED
      BY <1>1, <1>3, <1>5, <2>2 DEF Record
  <1>6. CASE Stop
    <2>1. PICK i : take' = [take EXCEPT ![i].at = "encoding"]
      BY <1>6 DEF Stop
    <2>2. take' \in [Takes -> Recordings]
      BY <1>1, <2>1 DEF Recordings
    <2> QED
      BY <1>1, <1>3, <1>6, <2>2 DEF Stop
  <1>7. CASE ResetRecording
    <2>1. take' \in [Takes -> Recordings]
      BY <1>1, <1>7, CleanedTyped DEF ResetRecording
    <2>2. recorder' \in [Recorders -> Refs]
      BY <1>1, <1>7, DefaultsTyped DEF ResetRecording
    <2> QED
      BY <1>3, <1>7, <2>1, <2>2 DEF ResetRecording
  <1>8. ASSUME NEW i \in Takes, Granted(i)
        PROVE  StudioTypeOK' /\ UNCHANGED list /\ form'.open = form.open
    <2>1. take' \in [Takes -> Recordings]
      BY <1>1, <1>4, <1>8 DEF Granted
    <2>2. recorder' \in [Recorders -> Refs]
      BY <1>1, <1>8 DEF Granted, Refs
    <2> QED
      BY <1>3, <1>8, <2>1, <2>2 DEF Granted
  <1>9. ASSUME NEW i \in Takes, Imported(i)
        PROVE  StudioTypeOK' /\ UNCHANGED list /\ form'.open = form.open
    <2>1. take' \in [Takes -> Recordings]
      BY <1>1, <1>4, <1>9 DEF Imported
    <2>2. recorder' \in [Recorders -> Refs]
      BY <1>1, <1>9 DEF Imported, Refs
    <2> QED
      BY <1>3, <1>9, <2>1, <2>2 DEF Imported
  <1>10. ASSUME NEW i \in Takes, Encoded(i)
         PROVE  StudioTypeOK' /\ UNCHANGED list /\ form'.open = form.open
    <2>1. take' \in [Takes -> Recordings]
      BY <1>1, <1>4, <1>10, CleanedTyped DEF Encoded
    <2>2. recorder' \in [Recorders -> Refs]
      BY <1>1, <1>10 DEF Encoded, Refs, NoTake
    <2> QED
      BY <1>3, <1>10, <2>1, <2>2 DEF Encoded
  <1>11. ASSUME NEW i \in Takes, StartFails(i)
         PROVE  StudioTypeOK' /\ UNCHANGED list /\ form'.open = form.open
    <2>1. take' \in [Takes -> Recordings]
      BY <1>1, <1>4, <1>11, CleanedTyped DEF StartFails
    <2>2. \A r \in Refs : [r EXCEPT !.stream = NoTake, !.recorder = NoTake, !.error = TRUE] \in Refs
      BY DEF Refs
    <2>3. recorder' \in [Recorders -> Refs]
      BY <1>1, <1>11, <2>2 DEF StartFails
    <2> QED
      BY <1>3, <1>11, <2>1, <2>3 DEF StartFails
  <1> QED
    BY <1>5, <1>6, <1>7, <1>8, <1>9, <1>10, <1>11

-----------------------------------------------------------------------------
(* The types of the speech studio, and the key of its form.                *)

USE DEF jobVars

\* All that SpeechTypeOK says but for the form.
SiteTypeOK ==
  /\ status \in [Jobs -> Statuses] /\ playable \subseteq Jobs /\ stray \subseteq Jobs
  /\ page \in Pages /\ requested \in Voices \cup {None} /\ viewed \in Jobs \cup {None}
  /\ page = "detail" => viewed # None
  /\ form.open => page = "voices"
  /\ builtin \in BOOLEAN
  /\ submission \in [Jobs -> Submissions] /\ generation \in [Jobs -> Queries]
  /\ playback \in [Jobs -> Playbacks] /\ wave \in Waves

FormTypeOK == speech \in SpeechForms /\ speech.key = FormKey

\* The speech studio's types are those of the site and of its form.
LEMMA SpeechSplits == SpeechTypeOK <=> SiteTypeOK /\ FormTypeOK
  BY DEF SpeechTypeOK, SiteTypeOK, FormTypeOK

\* The voices offered are voices.
LEMMA VoicesTyped ==
  ASSUME list \in Lists
  PROVE  AllVoices \in Seq(Voices)
  <1>1. list.shown \in Seq(Rows)
    BY DEF Lists
  <1> QED
    BY <1>1, AllVoicesFacts DEF AllVoices

\* So are those offered after a step.
LEMMA VoicesTypedNext ==
  ASSUME list' \in Lists
  PROVE  AllVoices' \in Seq(Voices)
  <1>1. list'.shown \in Seq(Rows)
    BY DEF Lists
  <1> QED
    BY <1>1, AllVoicesFacts DEF AllVoices

\* What is listed in a sequence of voices is a voice, the first in particular.
LEMMA ListedTyped ==
  ASSUME NEW a \in Seq(Voices), NEW v
  PROVE  /\ ToSet(a) \subseteq Voices
         /\ a # <<>> => Head(a) \in Voices
  <1>1. DOMAIN a = 1..Len(a) /\ \A n \in 1..Len(a) : a[n] \in Voices
    BY ElementOfSeq, LenProperties
  <1>2. ToSet(a) \subseteq Voices
    BY <1>1 DEF ToSet
  <1> QED
    BY <1>2, HeadTailProperties

\* A form that mounts has the key of its page.
LEMMA FreshNext ==
  ASSUME list' \in Lists, SiteTypeOK'
  PROVE  FreshForm' \in SpeechForms /\ FreshForm'.key = FormKey'
  <1>1. PICK a \in Seq(Voices) : a = AllVoices'
    BY VoicesTypedNext
  <1>2. ToSet(a) \subseteq Voices /\ (a # <<>> => Head(a) \in Voices)
    BY ListedTyped
  <1>3. Resolved(requested)' \in Voices \cup {None}
    BY <1>1, <1>2 DEF Resolved
  <1>4. FormKey' \in Voices \cup Jobs \cup {None}
        /\ (page' = "detail" /\ FormKey' # None => FormKey' = viewed')
        /\ (page' # "detail" => FormKey' \in Voices \cup {None})
    BY <1>3 DEF FormKey, SiteTypeOK
  <1>5. CASE page' = "detail" /\ FormKey' # None
    <2>1. viewed' \in Jobs
      BY <1>5 DEF SiteTypeOK
    <2>2. submission'[viewed'] \in Submissions
      BY <2>1 DEF SiteTypeOK
    <2>3. PICK s \in Submissions : s = submission'[viewed']
      BY <2>2
    <2>4. Resolved(submission[viewed].voice)' \in Voices \cup {None}
      BY <1>1, <1>2 DEF Resolved
    <2>5. FreshForm' = [NoSpeech EXCEPT !.key = viewed', !.text = s.text,
                                        !.voice = Resolved(submission[viewed].voice)']
      BY <1>5, <2>3 DEF FreshForm
    <2>6. s.text \in Texts
      BY <2>3 DEF Submissions
    <2> QED
      BY <1>4, <1>5, <2>1, <2>4, <2>5, <2>6 DEF NoSpeech, SpeechForms
  <1>6. CASE ~(page' = "detail" /\ FormKey' # None)
    <2>1. FreshForm' = [NoSpeech EXCEPT !.key = FormKey', !.voice = FormKey']
      BY <1>6 DEF FreshForm
    <2>2. FormKey' \in Voices \cup {None}
      BY <1>4, <1>6
    <2> QED
      BY <2>1, <2>2 DEF NoSpeech, SpeechForms
  <1> QED
    BY <1>5, <1>6

\* Whatever changed, a render leaves a form with the key of its page.
LEMMA RenderKeeps ==
  ASSUME list' \in Lists, SiteTypeOK', FormTypeOK, Render
  PROVE  SpeechTypeOK'
  <1>1. FreshForm' \in SpeechForms /\ FreshForm'.key = FormKey'
    BY FreshNext
  <1>2. speech' = IF FormKey' = speech.key /\ speech.touched THEN speech ELSE FreshForm'
    BY DEF Render
  <1>3. FormTypeOK'
    BY <1>1, <1>2 DEF FormTypeOK
  <1> QED
    BY <1>3 DEF SpeechTypeOK, SiteTypeOK, FormTypeOK

\* The key depends on the page, the lists and the queries of the generations.
LEMMA KeyKept ==
  ASSUME UNCHANGED <<page, requested, viewed, builtin, generation, list>>
  PROVE  FormKey' = FormKey
  <1>1. UNCHANGED AllVoices
    BY DEF AllVoices, Ids
  <1>2. Resolved(requested)' = Resolved(requested)
    BY <1>1 DEF Resolved
  <1>3. ListPending' = ListPending
    BY DEF ListPending
  <1> QED
    BY <1>2, <1>3 DEF FormKey

\* What is typed into the form leaves it under its key.
LEMMA FormKept ==
  ASSUME SpeechTypeOK, SiteTypeOK', speech' \in SpeechForms, speech'.key = speech.key,
         UNCHANGED <<page, requested, viewed, builtin, generation, list>>
  PROVE  SpeechTypeOK'
  BY KeyKept DEF SpeechTypeOK, SiteTypeOK

-----------------------------------------------------------------------------
(* The steps of the speech studio.                                         *)

\* A submission that goes on is still one.
LEMMA SubmitsTyped ==
  ASSUME submission \in [Jobs -> Submissions], NEW j \in Jobs, NEW from,
         NEW to \in {"generate", "undo", "refetch", "done", "refused"}, Submits(j, from, to)
  PROVE  submission' \in [Jobs -> Submissions]
  BY DEF Submits, Submissions

\* A step of the generation service keeps the types of its jobs.
LEMMA ServiceTyped ==
  ASSUME status \in [Jobs -> Statuses], playable \subseteq Jobs, NEW j \in Jobs,
         \/ Service!Submit(j) \/ Service!Begin(j) \/ Service!Fail(j) \/ Service!Succeed(j)
         \/ UNCHANGED <<status, playable>>
  PROVE  status' \in [Jobs -> Statuses] /\ playable' \subseteq Jobs
  BY DEF Service!Submit, Service!Begin, Service!Fail, Service!Succeed, Service!Move, Statuses,
         Active

\* What becomes of a submission, and of the service's jobs.
LEMMA SubmitSteps ==
  ASSUME SpeechTypeOK, UNCHANGED <<form, list>>,
         \/ ServiceStep \/ StrayStep
         \/ \E j \in Jobs : \/ KeyServed(j) \/ JobAccepted(j) \/ KeyRefused(j) \/ JobRefused(j)
                           \/ PublishFails(j) \/ Undo(j)
  PROVE  SpeechTypeOK'
  <1> USE DEF RestOfSubmit
  <1>1. /\ status \in [Jobs -> Statuses] /\ playable \subseteq Jobs /\ stray \subseteq Jobs
        /\ submission \in [Jobs -> Submissions] /\ speech \in SpeechForms
    BY DEF SpeechTypeOK
  <1>2. ASSUME status' \in [Jobs -> Statuses], playable' \subseteq Jobs, stray' \subseteq Jobs,
               submission' \in [Jobs -> Submissions], RestOfSubmit
        PROVE  SpeechTypeOK'
    <2>1. SiteTypeOK'
      BY <1>2 DEF SpeechTypeOK, SiteTypeOK
    <2> QED
      BY <1>1, <1>2, <2>1, FormKept
  <1>3. CASE ServiceStep
    BY <1>1, <1>2, <1>3, ServiceTyped DEF ServiceStep
  <1>4. ASSUME NEW j \in Jobs, KeyServed(j) \/ KeyRefused(j) PROVE SpeechTypeOK'
    BY <1>1, <1>2, <1>4, SubmitsTyped DEF KeyServed, KeyRefused
  <1>5. ASSUME NEW j \in Jobs, JobAccepted(j) \/ JobRefused(j) PROVE SpeechTypeOK'
    <2>1. PICK to \in {"generate", "undo", "refetch", "done", "refused"} : Submits(j, "generate", to)
      BY <1>5 DEF JobAccepted, JobRefused
    <2>2. UNCHANGED stray /\ RestOfSubmit /\ (Service!Submit(j) \/ UNCHANGED <<status, playable>>)
      BY <1>5 DEF JobAccepted, JobRefused
    <2> QED
      BY <1>1, <1>2, <2>1, <2>2, SubmitsTyped, ServiceTyped
  <1>6. ASSUME NEW j \in Jobs, PublishFails(j) PROVE SpeechTypeOK'
    BY <1>1, <1>2, <1>6, SubmitsTyped, ServiceTyped DEF PublishFails
  <1>7. ASSUME NEW j \in Jobs, Undo(j) PROVE SpeechTypeOK'
    <2>1. status' \in [Jobs -> Statuses]
      BY <1>1, <1>7 DEF Undo, Statuses
    <2> QED
      BY <1>1, <1>2, <1>7, <2>1, SubmitsTyped DEF Undo
  <1>8. CASE StrayStep
    <2>1. PICK j \in stray :
            \/ Service!Begin(j) /\ UNCHANGED stray
            \/ /\ stray' = stray \ {j} /\ playable' \in {playable, playable \cup {j}}
               /\ \E end \in {"failed", "completed"} : status' = [status EXCEPT ![j] = end]
      BY <1>8 DEF StrayStep
    <2>2. /\ status' \in [Jobs -> Statuses] /\ playable' \subseteq Jobs /\ stray' \subseteq Jobs
      BY <1>1, <2>1, ServiceTyped DEF Statuses
    <2> QED
      BY <1>1, <1>2, <1>8, <2>2 DEF StrayStep
  <1> QED
    BY <1>3, <1>4, <1>5, <1>6, <1>7, <1>8

\* What the user does in the form.
LEMMA FillTyped ==
  ASSUME SpeechTypeOK, UNCHANGED <<form, list>>, list \in Lists,
         \/ \E t \in Texts : TypeSpeech(t)
         \/ \E v \in Voices : PickVoice(v)
         \/ \E j \in Jobs : Generate(j)
  PROVE  SpeechTypeOK'
  <1>1. speech \in SpeechForms /\ submission \in [Jobs -> Submissions]
    BY DEF SpeechTypeOK
  <1>2. ASSUME NEW s \in SpeechForms, s.key = speech.key, Fill(s),
               submission' \in [Jobs -> Submissions]
        PROVE  SpeechTypeOK'
    <2>1. speech' \in SpeechForms /\ speech'.key = speech.key
      BY <1>2 DEF Fill, SpeechForms
    <2>2. SiteTypeOK'
      BY <1>2 DEF SpeechTypeOK, SiteTypeOK, Fill
    <2> QED
      BY <1>2, <2>1, <2>2, FormKept DEF Fill
  <1>3. ASSUME NEW t \in Texts, TypeSpeech(t) PROVE SpeechTypeOK'
    <2>1. PICK s : s = [speech EXCEPT !.text = t]
      OBVIOUS
    <2>2. s \in SpeechForms /\ s.key = speech.key
      BY <1>1, <2>1 DEF SpeechForms
    <2> QED
      BY <1>1, <1>2, <1>3, <2>1, <2>2 DEF TypeSpeech
  <1>4. ASSUME NEW v \in Voices, PickVoice(v) PROVE SpeechTypeOK'
    <2>1. PICK s : s = [speech EXCEPT !.voice = v]
      OBVIOUS
    <2>2. s \in SpeechForms /\ s.key = speech.key
      BY <1>1, <2>1 DEF SpeechForms
    <2> QED
      BY <1>1, <1>2, <1>4, <2>1, <2>2 DEF PickVoice
  <1>5. ASSUME NEW j \in Jobs, Generate(j) PROVE SpeechTypeOK'
    <2>1. PICK s : s = [speech EXCEPT !.job = j]
      OBVIOUS
    <2>2. s \in SpeechForms /\ s.key = speech.key
      BY <1>1, <2>1 DEF SpeechForms
    <2>3. [at |-> "playback", voice |-> speech.voice, text |-> speech.text] \in Submissions
      BY <1>1 DEF SpeechForms, Submissions
    <2>4. submission' \in [Jobs -> Submissions]
      BY <1>1, <1>5, <2>3 DEF Generate
    <2> QED
      BY <1>2, <1>5, <2>1, <2>2, <2>4 DEF Generate
  <1> QED
    BY <1>3, <1>4, <1>5

\* The query of a generation, which is rendered.
LEMMA QuerySteps ==
  ASSUME SpeechTypeOK, UNCHANGED <<form, list>>, list \in Lists, NEW j \in Jobs,
         Poll(j) \/ ServeGeneration(j) \/ ShowGeneration(j) \/ GenerationFails(j)
  PROVE  SpeechTypeOK'
  <1>1. PICK g : Query(j, g) /\ Render /\ g \in Queries
    <2>1. generation[j] \in Queries /\ status[j] \in Statuses
      BY DEF SpeechTypeOK
    <2>2. CASE Poll(j)
      <3>1. [generation[j] EXCEPT !.fetching = "sent"] \in Queries
        BY <2>1 DEF Queries
      <3> QED
        BY <2>2, <3>1 DEF Poll
    <2>3. CASE ServeGeneration(j)
      <3>1. [generation[j] EXCEPT !.fetching = "served", !.answer = Answer(j)] \in Queries
        BY <2>1 DEF Queries, Answer, Answers
      <3> QED
        BY <2>3, <3>1 DEF ServeGeneration
    <2>4. CASE ShowGeneration(j)
      <3>1. [NoGeneration EXCEPT !.seen = generation[j].answer] \in Queries
        BY <2>1 DEF Queries, NoGeneration, Answers, Statuses
      <3> QED
        BY <2>4, <3>1 DEF ShowGeneration
    <2>5. CASE GenerationFails(j)
      <3>1. [generation[j] EXCEPT !.fetching = "no", !.answer = "none"] \in Queries
        BY <2>1 DEF Queries, Answers, Statuses
      <3> QED
        BY <2>5, <3>1 DEF GenerationFails
    <2> QED
      BY <2>2, <2>3, <2>4, <2>5
  <1>2. SiteTypeOK' /\ FormTypeOK
    BY <1>1 DEF SpeechTypeOK, SiteTypeOK, FormTypeOK, Query
  <1> QED
    BY <1>1, <1>2, RenderKeeps

\* The queries of the audio of a generation.
LEMMA AudioSteps ==
  ASSUME SpeechTypeOK, UNCHANGED <<form, list>>, NEW j \in Jobs,
         \/ AskPlayback(j) \/ PlaybackServed(j) \/ AudioServed(j) \/ PlaybackFails(j)
         \/ \E i \in Fetches : FetchAudio(j, i)
  PROVE  SpeechTypeOK'
  <1>1. PICK a : Audio(j, a) /\ a \in Playbacks
    <2>1. playback[j] \in Playbacks
      BY DEF SpeechTypeOK
    <2>2. ASSUME NEW at \in {"asking", "known", "ready", "failed"}
          PROVE  [playback[j] EXCEPT !.at = at] \in Playbacks
      BY <2>1 DEF Playbacks
    <2>3. CASE AskPlayback(j) \/ PlaybackServed(j) \/ AudioServed(j)
      BY <2>2, <2>3 DEF AskPlayback, PlaybackServed, AudioServed
    <2>4. CASE PlaybackFails(j)
      <3>1. PICK again \in {"asking", "known"} :
              Audio(j, IF playback[j].retried THEN [playback[j] EXCEPT !.at = "failed"]
                       ELSE [playback[j] EXCEPT !.at = again, !.retried = TRUE, !.by = NoUrl])
        BY <2>4 DEF PlaybackFails
      <3>2. [playback[j] EXCEPT !.at = again, !.retried = TRUE, !.by = NoUrl] \in Playbacks
        BY <2>1 DEF Playbacks
      <3> QED
        BY <2>2, <3>1, <3>2
    <2>5. ASSUME NEW i \in Fetches, FetchAudio(j, i)
          PROVE  \E a : Audio(j, a) /\ a \in Playbacks
      <3>1. [playback[j] EXCEPT !.at = "fetching", !.by = i] \in Playbacks
        BY <2>1 DEF Playbacks
      <3> QED
        BY <2>5, <3>1 DEF FetchAudio
    <2> QED
      BY <2>3, <2>4, <2>5
  <1>2. SiteTypeOK'
    BY <1>1 DEF SpeechTypeOK, SiteTypeOK, Audio
  <1> QED
    BY <1>1, <1>2, FormKept DEF Audio, SpeechTypeOK

\* The player of the page.
LEMMA WaveSteps ==
  ASSUME SpeechTypeOK, UNCHANGED <<form, list>>,
         WaveLoads \/ WaveReady \/ WaveFails \/ TogglePlayPause \/ WaveFinishes
  PROVE  SpeechTypeOK'
  <1>1. PICK w : Wave(w) /\ w \in Waves
    <2>1. wave \in Waves
      BY DEF SpeechTypeOK
    <2>2. /\ [wave EXCEPT !.at = "loading"] \in Waves
          /\ \A at \in {"ready", "failed"} : \A kept \in {FALSE, wave.playing} :
               [at |-> at, playing |-> kept] \in Waves
          /\ [wave EXCEPT !.playing = ~@] \in Waves
          /\ [wave EXCEPT !.playing = FALSE] \in Waves
      BY <2>1 DEF Waves
    <2> QED
      BY <2>2 DEF WaveLoads, WaveReady, WaveFails, WaveEnds, TogglePlayPause, WaveFinishes
  <1>2. SiteTypeOK'
    BY <1>1 DEF SpeechTypeOK, SiteTypeOK, Wave
  <1> QED
    BY <1>1, <1>2, FormKept DEF Wave, SpeechTypeOK

\* The list is fetched, shown or marked, and the form and the player follow it.
LEMMA FollowsTyped ==
  ASSUME SpeechTypeOK, list' \in Lists, form'.open => form.open, Render,
         UNCHANGED <<jobVars, page, requested, viewed, submission, generation, playback>>,
         builtin' \in BOOLEAN, wave' \in {wave, NoWave}
  PROVE  SpeechTypeOK'
  <1>1. NoWave \in Waves
    BY DEF NoWave, Waves
  <1>2. SiteTypeOK' /\ FormTypeOK
    BY <1>1 DEF SpeechTypeOK, SiteTypeOK, FormTypeOK
  <1> QED
    BY <1>2, RenderKeeps

\* The router shows another page.
LEMMA VisitTyped ==
  ASSUME StudioTypeOK, SpeechTypeOK, NEW p \in Pages, NEW v \in Voices \cup {None},
         NEW j \in Jobs \cup {None}, p = "detail" => j \in Jobs, Visit(p, v, j),
         submission' \in [Jobs -> Submissions]
  PROVE  StudioTypeOK' /\ SpeechTypeOK'
  <1>1. list' \in Lists
    <2>1. [list EXCEPT !.fetching = "sent"] \in Lists /\ list \in Lists
      BY DEF StudioTypeOK, Lists
    <2> QED
      BY <2>1 DEF Visit, ObserveList
  <1>2. StudioTypeOK' /\ ~form'.open
    <2>1. CASE page = "voices"
      BY <1>1, <2>1, LeaveTyped DEF Visit
    <2>2. CASE page # "voices"
      BY <1>1, <2>2 DEF Visit, StudioTypeOK, SpeechTypeOK
    <2> QED
      BY <2>1, <2>2
  <1>3. generation' \in [Jobs -> Queries]
    <2>1. generation \in [Jobs -> Queries]
      BY DEF SpeechTypeOK
    <2>2. \A g \in Queries : [g EXCEPT !.fetching = "sent"] \in Queries
      BY DEF Queries
    <2>3. [generation EXCEPT ![j].fetching = "sent"] \in [Jobs -> Queries]
      BY <2>1, <2>2
    <2> QED
      BY <2>1, <2>3 DEF Visit, Shown
  <1>4. playback' \in [Jobs -> Playbacks]
    <2>1. NoPlayback \in Playbacks
      BY DEF NoPlayback, Playbacks
    <2> QED
      BY <2>1 DEF Visit, Shown, SpeechTypeOK
  <1>5. wave' \in Waves
    BY DEF Visit, Shown, NoWave, Waves
  <1>6. SiteTypeOK'
    BY <1>2, <1>3, <1>4, <1>5 DEF Visit, Shown, SpeechTypeOK, SiteTypeOK
  <1>7. FormTypeOK'
    BY <1>1, <1>6, FreshNext DEF Visit, FormTypeOK
  <1> QED
    BY <1>2, <1>6, <1>7 DEF SpeechTypeOK, SiteTypeOK, FormTypeOK

-----------------------------------------------------------------------------
(* The application, step by step: its types, and what a step is to the     *)
(* audio library.                                                          *)

Typed == /\ StudioTypeOK /\ SpeechTypeOK
         /\ budget \in [Kinds -> Nat] /\ faults \in 0..MaxFaults

\* The studios are typed after the step, which is one of the library or not about it.
Sound == StudioTypeOK' /\ SpeechTypeOK' /\ [LibraryNext]_libraryVars

\* The application starts with what it may hold, its library included.
LEMMA InitTyped ==
  ASSUME Init
  PROVE  Typed /\ LibraryInit
  <1>1. StudioTypeOK /\ list = NoList /\ form = NoForm
    BY StudioInitTyped DEF Init, StudioInit
  <1>2. /\ NoSpeech \in SpeechForms /\ NoSubmission \in Submissions
        /\ NoGeneration \in Queries /\ NoPlayback \in Playbacks /\ NoWave \in Waves
    BY DEF NoSpeech, SpeechForms, NoSubmission, Submissions, NoGeneration, Queries, NoPlayback,
           Playbacks, NoWave, Waves, Answers, Statuses
  <1>3. FormKey = None
    BY DEF Init, SpeechInit, FormKey
  <1>4. SiteTypeOK
    BY <1>1, <1>2 DEF Init, SpeechInit, SiteTypeOK, Pages, Service!Init, Statuses, NoForm
  <1>5. FormTypeOK
    BY <1>2, <1>3 DEF Init, SpeechInit, FormTypeOK, NoSpeech
  <1>6. SpeechTypeOK
    BY <1>4, <1>5, SpeechSplits
  <1> QED
    BY <1>1, <1>6 DEF Init, Typed

\* The cards that a page shows are cards of voices.
LEMMA ListedNext ==
  ASSUME list' \in Lists
  PROVE  Listed' \in SUBSET Voices
  <1>1. PICK a \in Seq(Voices) : a = AllVoices'
    BY VoicesTypedNext
  <1>2. ToSet(a) \subseteq Voices
    BY ListedTyped
  <1> QED
    BY <1>1, <1>2 DEF Listed

\* Showing other previews is a step of the library.
LEMMA PreviewsStep ==
  ASSUME list' \in Lists, ShowPreviews(Listed'), UNCHANGED <<stored, hints, lapsed>>
  PROVE  LibraryNext
  <1>1. PICK S \in SUBSET Voices : S = Listed'
    BY ListedNext
  <1>2. ShowPreviews(S)
    BY <1>1
  <1> QED
    BY <1>2 DEF LibraryNext

\* So is going to another page.
LEMMA VisitSound ==
  ASSUME StudioTypeOK, SpeechTypeOK, NEW p \in Pages, NEW v \in Voices \cup {None},
         NEW j \in Jobs \cup {None}, p = "detail" => j \in Jobs, Visit(p, v, j),
         submission' \in [Jobs -> Submissions]
  PROVE  Sound
  <1>1. StudioTypeOK' /\ SpeechTypeOK'
    BY VisitTyped
  <1>2. LibraryNext
    BY <1>1, PreviewsStep DEF Visit, StudioTypeOK
  <1> QED
    BY <1>1, <1>2 DEF Sound

\* A step that leaves the library, or the studios, alone.
LEMMA LibraryIdle ==
  ASSUME UNCHANGED libraryVars, StudioTypeOK', SpeechTypeOK'
  PROVE  Sound
  BY DEF Sound

\* A step of the library alone leaves the studios as they are.
LEMMA StudiosIdle ==
  ASSUME StudioTypeOK, SpeechTypeOK, UNCHANGED <<studioVars, speechVars>>
  PROVE  StudioTypeOK' /\ SpeechTypeOK'
  <1>1. UNCHANGED <<catalogue, known, list, card, mutation, form, take, recorder>>
    BY DEF studioVars
  <1>2. UNCHANGED <<jobVars, page, requested, viewed, builtin, speech, submission,
                    generation, playback, wave>>
    BY DEF speechVars
  <1>3. StudioTypeOK'
    BY <1>1 DEF StudioTypeOK
  <1>4. SiteTypeOK'
    BY <1>1, <1>2 DEF SpeechTypeOK, SiteTypeOK
  <1>5. SpeechTypeOK'
    BY <1>1, <1>2, <1>4, FormKept DEF SpeechTypeOK
  <1> QED
    BY <1>3, <1>5

\* A step of the voice studio alone, on a page that the list does not change.
LEMMA SpeechIdle ==
  ASSUME SpeechTypeOK, UNCHANGED <<speechVars, list>>, form'.open => form.open \/ page = "voices"
  PROVE  SpeechTypeOK'
  <1>1. UNCHANGED <<jobVars, page, requested, viewed, builtin, speech, submission,
                    generation, playback, wave>>
    BY DEF speechVars
  <1>2. SiteTypeOK'
    BY <1>1 DEF SpeechTypeOK, SiteTypeOK
  <1> QED
    BY <1>1, <1>2, FormKept DEF SpeechTypeOK

\* A step that leaves both the library and the voice studio alone keeps their types.
LEMMA StudioIdle ==
  ASSUME StudioTypeOK, UNCHANGED studioVars
  PROVE  StudioTypeOK' /\ UNCHANGED <<catalogue, known, list, card, mutation, form, take, recorder>>
  BY DEF StudioTypeOK, studioVars

\* The gestures of the user.
LEMMA GoSound ==
  ASSUME StudioTypeOK, SpeechTypeOK, Go
  PROVE  Sound
  <1>1. submission' \in [Jobs -> Submissions]
    BY DEF Go, SpeechTypeOK
  <1>2. ASSUME NEW p \in {"dashboard", "voices", "speech"}, Visit(p, None, None) PROVE Sound
    BY <1>1, <1>2, VisitSound DEF Pages
  <1>3. CASE Sidebar \/ TryText \/ QuickAction
    BY <1>2, <1>3 DEF Sidebar, TryText, QuickAction
  <1>4. CASE UseVoice
    <2>1. Listed \subseteq Voices
      BY VoicesTyped, ListedTyped DEF Listed, StudioTypeOK
    <2>2. PICK v \in Voices : Visit("speech", v, None)
      BY <1>4, <2>1 DEF UseVoice
    <2> QED
      BY <1>1, <2>2, VisitSound DEF Pages
  <1>5. CASE OpenGeneration
    <2>1. PICK j \in Jobs : Visit("detail", None, j)
      BY <1>5 DEF OpenGeneration
    <2> QED
      BY <1>1, <2>1, VisitSound DEF Pages
  <1> QED
    BY <1>3, <1>4, <1>5 DEF Go

\* The gestures by kind: listening,
LEMMA ListenSound ==
  ASSUME StudioTypeOK, SpeechTypeOK, Listen \/ Tidy
  PROVE  Sound
  <1>1. UNCHANGED <<studioVars, speechVars>>
    BY DEF Listen, Tidy
  <1>2. LibraryNext
    BY DEF Listen, Tidy, LibraryNext
  <1> QED
    BY <1>1, <1>2, StudiosIdle DEF Sound

\* editing,
LEMMA EditSound ==
  ASSUME StudioTypeOK, SpeechTypeOK, Edit
  PROVE  Sound
  <1>1. StudioTypeOK' /\ UNCHANGED <<form, list>>
    BY EditTyped DEF Edit
  <1>2. SpeechTypeOK'
    BY <1>1, SpeechIdle DEF Edit
  <1> QED
    BY <1>1, <1>2, LibraryIdle DEF Edit

\* creating,
LEMMA FillInSound ==
  ASSUME StudioTypeOK, SpeechTypeOK, FillIn
  PROVE  Sound
  <1>1. StudioTypeOK' /\ UNCHANGED list
    BY FillInTyped, LeaveTyped, RecorderTyped DEF FillIn
  <1>2. SpeechTypeOK'
    BY <1>1, SpeechIdle DEF FillIn
  <1> QED
    BY <1>1, <1>2, LibraryIdle DEF FillIn

\* speaking,
LEMMA SpeakSound ==
  ASSUME StudioTypeOK, SpeechTypeOK, Speak
  PROVE  Sound
  <1>1. StudioTypeOK' /\ UNCHANGED <<form, list>> /\ list \in Lists
    BY StudioIdle DEF Speak, StudioTypeOK
  <1>2. SpeechTypeOK'
    BY <1>1, FillTyped, WaveSteps DEF Speak
  <1> QED
    BY <1>1, <1>2, LibraryIdle DEF Speak

\* and any of them.
LEMMA UserSound ==
  ASSUME Typed, User
  PROVE  Sound /\ budget' \in [Kinds -> Nat] /\ UNCHANGED faults
  <1>1. StudioTypeOK /\ SpeechTypeOK /\ budget \in [Kinds -> Nat]
    BY DEF Typed
  <1>2. Sound
    BY <1>1, GoSound, ListenSound, EditSound, FillInSound, SpeakSound DEF User, Does
  <1>3. PICK kind \in Kinds : budget[kind] > 0 /\ budget' = [budget EXCEPT ![kind] = @ - 1]
                              /\ UNCHANGED faults
    BY DEF User, Does, Kinds
  <1>4. budget' \in [Kinds -> Nat]
    BY <1>1, <1>3
  <1> QED
    BY <1>2, <1>3, <1>4

\* What goes on by itself.
LEMMA FollowsSound ==
  ASSUME StudioTypeOK, SpeechTypeOK, StudioTypeOK', form'.open => form.open, PageFollows
  PROVE  Sound
  <1>1. SpeechTypeOK'
    BY FollowsTyped DEF PageFollows, StudioTypeOK, SpeechTypeOK
  <1> QED
    BY <1>1, LibraryIdle DEF PageFollows

\* What goes on by itself: answers, timers and promises.
LEMMA ByItselfSound ==
  ASSUME StudioTypeOK, SpeechTypeOK, ByItself
  PROVE  Sound
  <1>1. CASE ListShown
    <2>1. StudioTypeOK' /\ form' = form /\ list' \in Lists
      BY <1>1, ListSteps DEF ListShown, StudioTypeOK
    <2>2. SpeechTypeOK'
      BY <1>1, <2>1, FollowsTyped DEF ListShown, SpeechTypeOK
    <2>3. LibraryNext
      BY <1>1, <2>1, PreviewsStep DEF ListShown
    <2> QED
      BY <2>1, <2>2, <2>3 DEF Sound
  <1>2. CASE BuiltInShown
    <2>1. StudioTypeOK' /\ UNCHANGED <<form, list>> /\ list' \in Lists
      BY <1>2, StudioIdle DEF BuiltInShown, StudioTypeOK
    <2>2. SpeechTypeOK'
      BY <1>2, <2>1, FollowsTyped DEF BuiltInShown, LoadBuiltIn
    <2>3. LibraryNext
      BY <1>2, <2>1, PreviewsStep DEF BuiltInShown
    <2> QED
      BY <2>1, <2>2, <2>3 DEF Sound
  <1>3. CASE LibraryStep
    <2>1. UNCHANGED <<studioVars, speechVars>> /\ LibraryNext
      BY <1>3 DEF LibraryStep, LibraryNext
    <2> QED
      BY <2>1, StudiosIdle DEF Sound
  <1>4. CASE KeyForgotten
    <2>1. PICK i \in Mutations : DeleteSettles(i)
      BY <1>4 DEF KeyForgotten
    <2>2. UNCHANGED <<stored, lapsed, fetch, urls, preview, speechVars>>
      BY <1>4 DEF KeyForgotten
    <2>3. StudioTypeOK' /\ form'.open = form.open
      BY <2>1, ChangeSteps
    <2>4. SpeechTypeOK'
      BY <2>1, <2>2, <2>3, SpeechIdle DEF DeleteSettles
    <2>5. PICK v \in Voices : v = mutation[i].voice
      BY DEF StudioTypeOK, Changes
    <2>6. LibraryNext
      BY <2>1, <2>2, <2>5 DEF DeleteSettles, LibraryNext
    <2> QED
      BY <2>3, <2>4, <2>6 DEF Sound
  <1>5. CASE AudioFetched
    <2>1. PICK j \in Jobs, i \in Fetches : FetchAudio(j, i)
      BY <1>5 DEF AudioFetched
    <2>2. StudioTypeOK' /\ UNCHANGED <<form, list>>
      BY <1>5, StudioIdle DEF AudioFetched
    <2>3. SpeechTypeOK'
      BY <2>1, <2>2, AudioSteps
    <2>4. PICK o \in Objects : o = ObjectOf[j]
      OBVIOUS
    <2>5. LibraryNext
      BY <2>1, <2>4 DEF FetchAudio, LibraryNext
    <2> QED
      BY <2>2, <2>3, <2>5 DEF Sound
  <1>6. CASE Refused
    <2>1. UNCHANGED libraryVars
      BY <1>6 DEF Refused
    <2>2. ASSUME NEW i \in Mutations, MutationFails(i), UNCHANGED speechVars PROVE Sound
      <3>1. StudioTypeOK' /\ form'.open = form.open
        BY <2>2, ChangeSteps
      <3>2. SpeechTypeOK'
        BY <2>2, <3>1, SpeechIdle DEF MutationFails
      <3> QED
        BY <2>1, <3>1, <3>2, LibraryIdle
    <2>3. ASSUME UNCHANGED studioVars, NEW j \in Jobs, KeyRefused(j) \/ PlaybackFails(j) PROVE Sound
      BY <2>1, <2>3, StudioIdle, SubmitSteps, AudioSteps, LibraryIdle
    <2> QED
      BY <1>6, <2>2, <2>3 DEF Refused
  <1>7. CASE StudioStep(Observed) /\ PageFollows
    <2>1. Observed \in BOOLEAN
      BY DEF Observed
    <2>2. StudioTypeOK' /\ form'.open = form.open
      BY <1>7, <2>1, ListSteps, ChangeSteps, RecorderTyped DEF StudioStep
    <2> QED
      BY <1>7, <2>2, FollowsSound
  <1>8. ASSUME NEW j \in Jobs, Progress(j) PROVE Sound
    <2>1. StudioTypeOK' /\ UNCHANGED <<form, list>> /\ list \in Lists
      BY <1>8, StudioIdle DEF Progress, StudioTypeOK
    <2>2. SpeechTypeOK'
      BY <1>8, <2>1, SubmitSteps, QuerySteps, AudioSteps DEF Progress, JobStep
    <2> QED
      BY <1>8, <2>1, <2>2, LibraryIdle DEF Progress
  <1>9. ASSUME NEW j \in Jobs, Push(j) PROVE Sound
    <2>1. submission' \in [Jobs -> Submissions]
      BY <1>9, SubmitsTyped DEF Push, Pushes, SpeechTypeOK
    <2>2. CASE Viewing(j)
      <3>1. UNCHANGED <<jobVars, libraryVars, studioVars>> /\ RestOfSubmit
        BY <1>9, <2>2 DEF Push
      <3>2. StudioTypeOK' /\ UNCHANGED <<form, list>>
        BY <3>1, StudioIdle
      <3>3. SiteTypeOK'
        BY <2>1, <3>1, <3>2 DEF RestOfSubmit, SpeechTypeOK, SiteTypeOK
      <3>4. SpeechTypeOK'
        BY <3>1, <3>2, <3>3, FormKept DEF RestOfSubmit, SpeechTypeOK
      <3> QED
        BY <3>1, <3>2, <3>4, LibraryIdle
    <2>3. CASE ~Viewing(j)
      <3>1. Visit("detail", None, j)
        BY <1>9, <2>3 DEF Push
      <3> QED
        BY <2>1, <3>1, VisitSound DEF Pages
    <2> QED
      BY <2>2, <2>3
  <1>10. CASE /\ ServiceStep \/ StrayStep \/ WaveStep \/ WaveFinishes
              /\ UNCHANGED <<libraryVars, studioVars>>
    <2>1. StudioTypeOK' /\ UNCHANGED <<form, list>>
      BY <1>10, StudioIdle
    <2>2. SpeechTypeOK'
      BY <1>10, <2>1, SubmitSteps, WaveSteps DEF WaveStep
    <2> QED
      BY <1>10, <2>1, <2>2, LibraryIdle
  <1> QED
    BY <1>1, <1>2, <1>3, <1>4, <1>5, <1>6, <1>7, <1>8, <1>9, <1>10 DEF ByItself

\* What fails.
LEMMA FailsSound ==
  ASSUME Typed, Fails
  PROVE  Sound /\ faults' \in 0..MaxFaults
  <1>1. StudioTypeOK /\ SpeechTypeOK
    BY DEF Typed
  <1>2. faults' \in 0..MaxFaults
    BY DEF Typed, Fails
  <1>3. ASSUME NEW i \in Fetches, FetchFails(i), UNCHANGED <<studioVars, speechVars>> PROVE Sound
    <2>1. LibraryNext
      BY <1>3 DEF LibraryNext
    <2> QED
      BY <1>1, <1>3, <2>1, StudiosIdle DEF Sound
  <1>4. CASE ListFails /\ PageFollows
    <2>1. StudioTypeOK' /\ form' = form
      BY <1>1, <1>4, ListSteps
    <2>2. form'.open => form.open
      BY <2>1
    <2> QED
      BY <1>1, <1>2, <1>4, <2>1, <2>2, FollowsSound
  <1>5. ASSUME \/ \E i \in Mutations : MutationFails(i)
               \/ \E i \in Takes : StartFails(i),
               UNCHANGED <<libraryVars, speechVars>>
        PROVE  Sound
    <2>1. StudioTypeOK' /\ form'.open = form.open /\ UNCHANGED list
      <3>1. ASSUME NEW i \in Mutations, MutationFails(i)
            PROVE  StudioTypeOK' /\ form'.open = form.open /\ UNCHANGED list
        BY <1>1, <3>1, ChangeSteps DEF MutationFails
      <3>2. ASSUME NEW i \in Takes, StartFails(i)
            PROVE  StudioTypeOK' /\ form'.open = form.open /\ UNCHANGED list
        BY <1>1, <3>2, RecorderTyped
      <3> QED
        BY <1>5, <3>1, <3>2
    <2>2. SpeechTypeOK'
      BY <1>1, <1>5, <2>1, SpeechIdle
    <2> QED
      BY <1>5, <2>1, <2>2, LibraryIdle
  <1>6. ASSUME UNCHANGED <<libraryVars, studioVars>>,
               \/ \E j \in Jobs : \/ KeyRefused(j) \/ JobRefused(j) \/ PublishFails(j)
                                 \/ GenerationFails(j) \/ PlaybackFails(j)
               \/ WaveFails
        PROVE  Sound
    <2>1. StudioTypeOK' /\ UNCHANGED <<form, list>> /\ list \in Lists
      BY <1>1, <1>6, StudioIdle DEF StudioTypeOK
    <2>2. SpeechTypeOK'
      BY <1>1, <1>6, <2>1, SubmitSteps, QuerySteps, AudioSteps, WaveSteps
    <2> QED
      BY <1>6, <2>1, <2>2, LibraryIdle
  <1> QED
    BY <1>2, <1>3, <1>4, <1>5, <1>6 DEF Fails

\* Every step keeps the types, and is one of the library or leaves it alone.
LEMMA StepSound ==
  ASSUME Typed, [Next]_webVars
  PROVE  Typed' /\ [LibraryNext]_libraryVars
  <1>1. CASE User
    BY <1>1, UserSound DEF Typed, Sound
  <1>2. CASE Fails /\ UNCHANGED budget
    BY <1>2, FailsSound DEF Typed, Sound
  <1>3. CASE ByItself /\ UNCHANGED <<budget, faults>>
    BY <1>3, ByItselfSound DEF Typed, Sound
  <1>4. CASE UNCHANGED webVars
    <2>1. UNCHANGED <<libraryVars, studioVars, speechVars, budget, faults>>
      BY <1>4 DEF webVars
    <2> QED
      BY <2>1, StudiosIdle DEF Typed
  <1> QED
    BY <1>1, <1>2, <1>3, <1>4 DEF Next

-----------------------------------------------------------------------------
(* The theorems that the types carry.                                      *)

\* The application uses the library as LibraryNext says, and nothing else changes
\* the library.
THEOREM UsesLibrary == Spec => LibrarySpec
  <1>1. Init => Typed /\ LibraryInit
    BY InitTyped
  <1>2. Typed /\ [Next]_webVars => Typed' /\ [LibraryNext]_libraryVars
    BY StepSound
  <1> QED
    BY <1>1, <1>2, PTL DEF Spec, LibrarySpec

\* The studios' variables keep their types, and the form of the speech page is the one
\* that its page, its lists and its generation call for, after every step.
THEOREM StudiosTyped == Spec => []Typed
  <1>1. Init => Typed
    BY InitTyped
  <1>2. Typed /\ [Next]_webVars => Typed'
    BY StepSound
  <1> QED
    BY <1>1, <1>2, PTL DEF Spec

\* Every variable of the application keeps its type, and the form that is mounted is
\* always the one that the page, its lists and its generation call for.
THEOREM TypeCorrect == Spec => []TypeOK
  <1>1. LibraryInv /\ Typed => TypeOK
    BY DEF LibraryInv, Typed, TypeOK
  <1> QED
    BY <1>1, UsesLibrary, LibraryInductive, StudiosTyped, PTL

\* Whatever the pages do, the cache fits its cap when no fetch weighs or evicts.
THEOREM WebCacheFits == Spec => []CacheWithinCap
  BY UsesLibrary, CacheFits, PTL

\* Whatever the pages do, a player ends up as it was last asked.
THEOREM WebPlayersObey == Spec => []PlayerObeys
  BY UsesLibrary, PlayersObey, PTL

-----------------------------------------------------------------------------
(* The microphone, step by step.                                           *)

\* What cleanup does to the takes.
LEMMA CleanedFacts ==
  ASSUME StudioTypeOK, MicInv, NEW n \in Recorders, NEW j \in Takes
  PROVE  /\ Cleaned(n)[j].of = take[j].of /\ Cleaned(n)[j].beside = take[j].beside
         /\ Cleaned(n)[j].mic => take[j].mic /\ j # recorder[n].stream
         /\ \/ Cleaned(n)[j].at = take[j].at
            \/ take[j].at # "idle" /\ take[j].of = n /\ Cleaned(n)[j].at = "done"
  <1>1. take[j] \in Recordings
    BY DEF StudioTypeOK
  <1>2. /\ Cleaned(n)[j].of = take[j].of /\ Cleaned(n)[j].beside = take[j].beside
        /\ Cleaned(n)[j].mic = (take[j].mic /\ j # recorder[n].stream)
        /\ Cleaned(n)[j].at = IF j = recorder[n].recorder /\ take[j].at = "recording"
                              THEN "done" ELSE take[j].at
    BY <1>1 DEF Cleaned, Recordings
  <1>3. ASSUME j = recorder[n].recorder PROVE take[j].of = n
    BY <1>3 DEF MicInv, MadeInv, Takes, NoTake
  <1> QED
    BY <1>2, <1>3

\* A recorder that cleans up stops the stream it has, which is the one that is on.
LEMMA CleansKeep ==
  ASSUME StudioTypeOK, MicInv,
         ResetRecording \/ \E i \in Takes : Encoded(i) \/ StartFails(i)
  PROVE  MicInv'
  <1>1. ASSUME NEW i \in Takes, Encoded(i) \/ StartFails(i) PROVE MicInv'
    <2>1. PICK n \in Recorders : n = take[i].of /\ take[i].at # "idle"
      BY <1>1, OfRecorders DEF Encoded, StartFails
    <2>2. take' = [Cleaned(n) EXCEPT ![i].at = "done"]
      BY <1>1, <2>1 DEF Encoded, StartFails
    <2>3. Cleaned(n) \in [Takes -> Recordings]
      BY CleanedTyped DEF StudioTypeOK
    <2>4. /\ take'[i].at = "done" /\ take'[i].of = Cleaned(n)[i].of
          /\ take'[i].mic = Cleaned(n)[i].mic /\ take'[i].beside = Cleaned(n)[i].beside
          /\ \A j \in Takes \ {i} : take'[j] = Cleaned(n)[j]
      BY <2>2, <2>3 DEF Recordings
    <2>5. \A j \in Takes : /\ take'[j].of = take[j].of /\ take'[j].beside = take[j].beside
                           /\ take'[j].mic => take[j].mic /\ j # recorder[n].stream
                           /\ \/ take'[j].at = take[j].at
                              \/ take[j].at # "idle" /\ take[j].of = n /\ take'[j].at = "done"
      BY <2>1, <2>4, CleanedFacts
    <2>6. recorder'[n].recorder = NoTake /\ \A m \in Recorders \ {n} : recorder'[m] = recorder[m]
      <3>1. PICK r : recorder' = [recorder EXCEPT ![n] = r] /\ r.recorder = NoTake
        <4>1. recorder[n] \in Refs
          BY DEF StudioTypeOK
        <4>2. CASE Encoded(i)
          <5>1. PICK r : r = [recorder[n] EXCEPT !.stream = NoTake, !.recorder = NoTake,
                                                 !.recording = FALSE]
            OBVIOUS
          <5>2. recorder' = [recorder EXCEPT ![n] = r]
            BY <2>1, <4>2, <5>1 DEF Encoded
          <5>3. r.recorder = NoTake
            BY <4>1, <5>1 DEF Refs
          <5> QED
            BY <5>2, <5>3
        <4>3. CASE StartFails(i)
          <5>1. PICK r : r = [recorder[n] EXCEPT !.stream = NoTake, !.recorder = NoTake,
                                                 !.error = TRUE]
            OBVIOUS
          <5>2. recorder' = [recorder EXCEPT ![n] = r]
            BY <2>1, <4>3, <5>1 DEF StartFails
          <5>3. r.recorder = NoTake
            BY <4>1, <5>1 DEF Refs
          <5> QED
            BY <5>2, <5>3
        <4> QED
          BY <1>1, <4>2, <4>3
      <3> QED
        BY <3>1 DEF StudioTypeOK
    <2>7. form'.here = form.here /\ form'.made = form.made
      BY <1>1 DEF Encoded, StartFails, StudioTypeOK, CreateForms
    <2> QED
      BY <2>5, <2>6, <2>7, CleanKeeps
  <1>2. CASE ResetRecording
    <2>1. PICK n \in Recorders : n = form.here
      BY <1>2, OfRecorders DEF ResetRecording
    <2>2. take' = Cleaned(n) /\ recorder' = [recorder EXCEPT ![n] = NoRefs]
      BY <1>2, <2>1 DEF ResetRecording
    <2>3. \A j \in Takes : /\ take'[j].of = take[j].of /\ take'[j].beside = take[j].beside
                           /\ take'[j].mic => take[j].mic /\ j # recorder[n].stream
                           /\ \/ take'[j].at = take[j].at
                              \/ take[j].at # "idle" /\ take[j].of = n /\ take'[j].at = "done"
      BY <2>2, CleanedFacts
    <2>4. recorder'[n].recorder = NoTake /\ \A m \in Recorders \ {n} : recorder'[m] = recorder[m]
      BY <2>2 DEF StudioTypeOK, NoRefs
    <2>5. form'.here = form.here /\ form'.made = form.made
      BY <1>2 DEF ResetRecording, StudioTypeOK, CreateForms
    <2> QED
      BY <2>3, <2>4, <2>5, CleanKeeps
  <1> QED
    BY <1>1, <1>2

\* The steps that have nothing to do with a recording.
LEMMA QuietSame ==
  ASSUME UNCHANGED <<take, recorder>>, form'.here = form.here, form'.made = form.made
  PROVE  Quiet
  BY DEF Quiet

\* Leaving the voices page unmounts its recorder and touches no recording.
LEMMA QuietLeaves ==
  ASSUME StudioTypeOK, UNCHANGED recorder, form' = [NoForm EXCEPT !.made = form.made],
         take' = [i \in Takes |-> [take[i] EXCEPT !.heard = FALSE]]
  PROVE  Quiet
  <1>1. form'.here = 0 /\ form'.made = form.made
    BY DEF NoForm
  <1>2. \A i \in Takes : take[i] \in Recordings
    BY DEF StudioTypeOK
  <1>3. \A i \in Takes : /\ take'[i].at = take[i].at /\ take'[i].of = take[i].of
                         /\ take'[i].mic = take[i].mic /\ take'[i].beside = take[i].beside
    BY <1>2 DEF Recordings
  <1> QED
    BY <1>1, <1>3 DEF Quiet

\* So no visit touches one.
LEMMA VisitQuiet ==
  ASSUME StudioTypeOK, NEW p, NEW v, NEW j, Visit(p, v, j)
  PROVE  Quiet
  <1>1. CASE page = "voices"
    BY <1>1, QuietLeaves DEF Visit, LeaveStudio
  <1>2. CASE page # "voices"
    BY <1>2, QuietSame DEF Visit
  <1> QED
    BY <1>1, <1>2

\* Filling in the form records nothing; another tab or a submission may unmount the recorder.
LEMMA FillInKeeps ==
  ASSUME StudioTypeOK, MicInv, FillIn
  PROVE  MicInv'
  <1>1. form \in CreateForms
    BY DEF StudioTypeOK
  <1>2. CASE OpenForm \/ ChooseFile \/ ClearFile \/ SubmitForm \/ \E t \in Texts : TypeForm(t)
    <2>1. UNCHANGED <<take, recorder>> /\ form'.here = form.here /\ form'.made = form.made
      BY <1>1, <1>2 DEF OpenForm, ChooseFile, ClearFile, SubmitForm, TypeForm, Form, CreateForms
    <2> QED
      BY <2>1, QuietSame, QuietKeeps
  <1>3. CASE CloseForm
    BY <1>3, QuietLeaves, QuietKeeps DEF CloseForm, LeaveForm
  <1>4. CASE SwitchTab
    <2>1. UNCHANGED <<take, recorder>>
      BY <1>4 DEF SwitchTab, Form
    <2>2. \/ form'.here = 0 /\ form'.made = form.made
          \/ form'.here = form.made + 1 /\ form'.made = form.made + 1
      BY <1>1, <1>4 DEF SwitchTab, Form, CreateForms
    <2>3. Quiet
      BY <2>1, <2>2 DEF Quiet
    <2> QED
      BY <2>3, QuietKeeps
  <1>5. CASE Record \/ Stop \/ ResetRecording
    BY <1>5, RecordKeeps, StopKeeps, CleansKeep
  <1> QED
    BY <1>2, <1>3, <1>4, <1>5 DEF FillIn

\* The microphone through the user's gestures,
LEMMA MicUser ==
  ASSUME StudioTypeOK, MicInv, User
  PROVE  MicInv'
  <1>1. CASE Go
    <2>1. \E p, v, j : Visit(p, v, j)
      BY <1>1 DEF Go, Sidebar, TryText, QuickAction, UseVoice, OpenGeneration
    <2> QED
      BY <2>1, VisitQuiet, QuietKeeps
  <1>2. CASE Listen \/ Tidy \/ Speak
    <2>1. UNCHANGED <<form, take, recorder>>
      BY <1>2 DEF Listen, Tidy, Speak, studioVars
    <2> QED
      BY <2>1, QuietSame, QuietKeeps
  <1>3. CASE Edit
    <2>1. UNCHANGED <<form, take, recorder>>
      BY <1>3 DEF Edit, OpenEdit, CancelEdit, SaveEdit, TypeEdit, OpenDelete, CancelDelete,
                  ConfirmDelete, Card
    <2> QED
      BY <2>1, QuietSame, QuietKeeps
  <1>4. CASE FillIn
    BY <1>4, FillInKeeps
  <1> QED
    BY <1>1, <1>2, <1>3, <1>4 DEF User, Does

\* A change that succeeds or fails has nothing to do with a recording.
LEMMA ChangesQuiet ==
  ASSUME StudioTypeOK, NEW i \in Mutations, NEW observed,
         \/ MutationServed(i, observed) \/ MutationSettles(i, observed)
         \/ MutationFails(i) \/ DeleteSettles(i)
  PROVE  Quiet
  <1>1. UNCHANGED <<take, recorder>>
    BY DEF MutationServed, MutationSettles, MutationFails, DeleteSettles
  <1>2. mutation[i] \in Changes
    BY DEF StudioTypeOK
  <1>3. form' = form \/ Settled(mutation[i])
    BY DEF MutationServed, MutationSettles, MutationFails, DeleteSettles
  <1>4. form'.here = form.here /\ form'.made = form.made
    BY <1>2, <1>3, SettledTyped
  <1> QED
    BY <1>1, <1>4, QuietSame

\* through what goes on by itself,
LEMMA MicByItself ==
  ASSUME StudioTypeOK, MicInv, ByItself
  PROVE  MicInv'
  <1>1. ASSUME UNCHANGED studioVars PROVE MicInv'
    BY <1>1, QuietSame, QuietKeeps DEF studioVars
  <1>2. CASE ListShown
    BY <1>2, QuietSame, QuietKeeps DEF ListShown, ShowList
  <1>3. CASE BuiltInShown \/ LibraryStep \/ AudioFetched
    BY <1>1, <1>3 DEF BuiltInShown, LibraryStep, AudioFetched
  <1>4. CASE KeyForgotten
    BY <1>4, ChangesQuiet, QuietKeeps DEF KeyForgotten
  <1>5. CASE Refused
    BY <1>1, <1>5, ChangesQuiet, QuietKeeps DEF Refused
  <1>6. CASE StudioStep(Observed)
    <2>1. CASE ServeList
      BY <2>1, QuietSame, QuietKeeps DEF ServeList
    <2>2. CASE \E i \in Mutations : MutationServed(i, Observed) \/ MutationSettles(i, Observed)
      BY <2>2, ChangesQuiet, QuietKeeps
    <2>3. CASE \E i \in Takes : Granted(i) \/ Imported(i) \/ Encoded(i)
      BY <2>3, GrantedKeeps, ImportedKeeps, CleansKeep
    <2> QED
      BY <1>6, <2>1, <2>2, <2>3 DEF StudioStep
  <1>7. ASSUME NEW j \in Jobs, Progress(j) PROVE MicInv'
    BY <1>1, <1>7 DEF Progress
  <1>8. ASSUME NEW j \in Jobs, Push(j) PROVE MicInv'
    BY <1>1, <1>8, VisitQuiet, QuietKeeps DEF Push
  <1> QED
    BY <1>1, <1>2, <1>3, <1>4, <1>5, <1>6, <1>7, <1>8 DEF ByItself

\* through what fails,
LEMMA MicFails ==
  ASSUME StudioTypeOK, MicInv, Fails
  PROVE  MicInv'
  <1>1. ASSUME UNCHANGED studioVars PROVE MicInv'
    BY <1>1, QuietSame, QuietKeeps DEF studioVars
  <1>2. CASE ListFails
    BY <1>2, QuietSame, QuietKeeps DEF ListFails
  <1>3. CASE \E i \in Mutations : MutationFails(i)
    BY <1>3, ChangesQuiet, QuietKeeps
  <1>4. CASE \E i \in Takes : StartFails(i)
    BY <1>4, CleansKeep
  <1> QED
    BY <1>1, <1>2, <1>3, <1>4 DEF Fails

\* and through any step.
LEMMA MicStep ==
  ASSUME StudioTypeOK, MicInv, [Next]_webVars
  PROVE  MicInv'
  <1>1. CASE UNCHANGED webVars
    BY <1>1, QuietSame, QuietKeeps DEF webVars, studioVars
  <1> QED
    BY <1>1, MicUser, MicByItself, MicFails DEF Next

\* In every state, a microphone that is on belongs to a recording that its recorder
\* would stop, unless another start overtook it or its recorder is gone.
THEOREM MicCounted == Spec => []MicInv
  <1>1. Init => MicInv
    BY MicInit
  <1>2. Typed /\ MicInv /\ [Next]_webVars => MicInv'
    BY MicStep DEF Typed
  <1> QED
    BY <1>1, <1>2, StudiosTyped, PTL DEF Spec

\* Whatever the order in which pages are left, handlers end and recorders start, no
\* preview's URL stays unrevoked and no microphone stays on, apart from what the
\* property names.
THEOREM NothingLeaks == Spec => []ResourcesReleased
  <1>1. MicInv => MicReleased
    BY DEF MicInv, AloneInv, Alone, MicReleased
  <1> QED
    BY <1>1, UsesLibrary, NoUrlLeaks, MicCounted, PTL DEF ResourcesReleased

-----------------------------------------------------------------------------
(* The jobs of the service, and what the pages know of them.               *)

\* The jobs of the service, as JobLifecycle sees them: those that it did not refuse.
LStatus   == [j \in Jobs |-> IF Refuses(j) THEN "none" ELSE status[j]]
LPlayable == {j \in playable : ~Refuses(j)}

Lifecycle == INSTANCE JobLifecycle WITH status <- LStatus, playable <- LPlayable

Over == {"failed", "completed"}

\* The service has not been asked for the job yet.
Early(j) == submission[j].at \in {"idle", "playback", "generate"}

\* A job that was not asked for is not there, and only a refused one goes astray.  A
\* query is sent only for a job that the service has, so what was shown of it is
\* never nothing; and, unless the job was refused, an end that is shown, or on its
\* way, is the end of the job.
KnownJob(j) == LET g == generation[j] IN
  /\ Early(j) => status[j] = "none"
  /\ submission[j].at = "refetch" \/ g.fetching # "no" \/ g.seen # "none" => status[j] # "none"
  /\ IF g.fetching = "served" THEN g.answer # "none" ELSE g.answer = "none"
  /\ ~Refuses(j) => /\ j \notin stray
                    /\ j \in playable => status[j] = "completed"
                    /\ g.seen \in Over => status[j] = g.seen
                    /\ g.answer \in Over => status[j] = g.answer
                    /\ g.fetching = "served" /\ g.seen \in Over => g.answer = g.seen

JobInv == \A j \in Jobs : KnownJob(j)

\* The query of job j is sent, for a job that there is.
Sent(j) == /\ status[j] # "none" /\ generation[j].fetching = "no"
           /\ generation'[j] = [generation[j] EXCEPT !.fetching = "sent"]

\* What a step does to the query of job j,
Asks(j) ==
  \/ generation'[j] = generation[j]
  \/ Sent(j)
  \/ /\ generation[j].fetching = "sent" /\ UNCHANGED <<status, playable, submission>>
     /\ generation'[j] = [generation[j] EXCEPT !.fetching = "served", !.answer = Answer(j)]
  \/ /\ generation[j].fetching = "served"
     /\ generation'[j] = [NoGeneration EXCEPT !.seen = generation[j].answer]
  \/ generation'[j] = [generation[j] EXCEPT !.fetching = "no", !.answer = "none"]

\* and to its submission and its row.
Stands(j) ==
  /\ submission'[j].at = "refetch" => submission[j].at = "refetch" \/ status'[j] # "none"
  /\ Refuses(j) => Refuses(j)'
  /\ Early(j)' => Early(j) /\ status'[j] = status[j]
  /\ status[j] # "none" => status'[j] # "none"
  /\ j \in stray' => j \in stray \/ Refuses(j)'

Moves(j) == Asks(j) /\ Stands(j)

JobsMove == [Lifecycle!Next]_(Lifecycle!vars) /\ \A j \in Jobs : Moves(j)

\* An ended job stays as it is in its lifecycle, and what can be played is completed.
LEMMA LifecycleMoves ==
  ASSUME LStatus \in [Jobs -> Statuses], [Lifecycle!Next]_(Lifecycle!vars), NEW j \in Jobs,
         j \in LPlayable => LStatus[j] = "completed"
  PROVE  /\ LStatus[j] \in Over => LStatus'[j] = LStatus[j]
         /\ j \in LPlayable' => LStatus'[j] = "completed"
  <1>1. ASSUME NEW k \in Jobs, NEW from, from \notin Over, NEW to, Lifecycle!Move(k, from, to)
        PROVE  /\ LStatus[j] \in Over => LStatus'[j] = LStatus[j]
               /\ j \in LPlayable' => LStatus'[j] = "completed"
    BY <1>1 DEF Lifecycle!Move, Over
  <1>2. ASSUME NEW k \in Jobs, Lifecycle!Succeed(k)
        PROVE  /\ LStatus[j] \in Over => LStatus'[j] = LStatus[j]
               /\ j \in LPlayable' => LStatus'[j] = "completed"
    BY <1>2 DEF Lifecycle!Succeed, Over
  <1>3. CASE Lifecycle!Next
    BY <1>1, <1>2, <1>3 DEF Lifecycle!Next, Lifecycle!Submit, Lifecycle!Begin, Lifecycle!Fail, Over
  <1>4. CASE UNCHANGED Lifecycle!vars
    BY <1>4 DEF Lifecycle!vars
  <1> QED
    BY <1>3, <1>4

\* What is known of a job stays known, and an end that was shown stays shown.
LEMMA MovesKeep ==
  ASSUME SiteTypeOK, JobInv, JobsMove
  PROVE  /\ JobInv'
         /\ \A j \in Jobs :
              /\ generation[j].seen # "none" => generation'[j].seen # "none"
              /\ generation[j].seen \in Over /\ ~Refuses(j) => generation'[j].seen = generation[j].seen
  <1> SUFFICES ASSUME NEW j \in Jobs
               PROVE  /\ KnownJob(j)'
                      /\ generation[j].seen # "none" => generation'[j].seen # "none"
                      /\ generation[j].seen \in Over /\ ~Refuses(j) =>
                           generation'[j].seen = generation[j].seen
    BY DEF JobInv
  <1>1. PICK g \in Queries : g = generation[j]
    BY DEF SiteTypeOK
  <1>2. PICK h : h = generation'[j]
    OBVIOUS
  <1>3. /\ Early(j) => status[j] = "none"
        /\ submission[j].at = "refetch" \/ g.fetching # "no" \/ g.seen # "none" => status[j] # "none"
        /\ IF g.fetching = "served" THEN g.answer # "none" ELSE g.answer = "none"
        /\ ~Refuses(j) => /\ j \notin stray
                          /\ j \in playable => status[j] = "completed"
                          /\ g.seen \in Over => status[j] = g.seen
                          /\ g.answer \in Over => status[j] = g.answer
                          /\ g.fetching = "served" /\ g.seen \in Over => g.answer = g.seen
    BY <1>1 DEF JobInv, KnownJob
  <1>4. Asks(j) /\ Stands(j)
    BY DEF JobsMove, Moves
  <1>5. /\ Early(j)' => status'[j] = "none"
        /\ submission'[j].at = "refetch" => status'[j] # "none"
        /\ status[j] # "none" => status'[j] # "none"
        /\ ~Refuses(j)' => ~Refuses(j) /\ j \notin stray'
    BY <1>3, <1>4 DEF Stands
  <1>6. ~Refuses(j)' => /\ j \in playable' => status'[j] = "completed"
                        /\ status[j] \in Over => status'[j] = status[j]
    <2> SUFFICES ASSUME ~Refuses(j)'
                 PROVE  /\ j \in playable' => status'[j] = "completed"
                        /\ status[j] \in Over => status'[j] = status[j]
      OBVIOUS
    <2>1. LStatus \in [Jobs -> Statuses]
      BY DEF SiteTypeOK, LStatus, Statuses
    <2>2. /\ LStatus[j] = status[j] /\ LStatus'[j] = status'[j]
          /\ j \in playable => LStatus[j] = "completed"
          /\ j \in LPlayable => j \in playable
          /\ j \in playable' => j \in LPlayable'
      BY <1>3, <1>5 DEF LStatus, LPlayable
    <2> QED
      BY <2>1, <2>2, LifecycleMoves DEF JobsMove
  <1>7. /\ h.fetching # "no" \/ h.seen # "none" => status'[j] # "none"
        /\ IF h.fetching = "served" THEN h.answer # "none" ELSE h.answer = "none"
        /\ g.seen # "none" => h.seen # "none"
        /\ ~Refuses(j) /\ g.seen \in Over => h.seen = g.seen
        /\ ~Refuses(j)' => /\ h.seen \in Over => status'[j] = h.seen
                           /\ h.answer \in Over => status'[j] = h.answer
                           /\ h.fetching = "served" /\ h.seen \in Over => h.answer = h.seen
    <2>1. CASE h = g
      BY <1>3, <1>5, <1>6, <2>1
    <2>2. CASE status[j] # "none" /\ g.fetching = "no" /\ h = [g EXCEPT !.fetching = "sent"]
      <3>1. h.fetching = "sent" /\ h.seen = g.seen /\ h.answer = g.answer
        BY <2>2 DEF Queries
      <3> QED
        BY <1>3, <1>5, <1>6, <2>2, <3>1
    <2>3. CASE /\ g.fetching = "sent" /\ UNCHANGED <<status, playable, submission>>
               /\ h = [g EXCEPT !.fetching = "served", !.answer = Answer(j)]
      <3>1. h.fetching = "served" /\ h.seen = g.seen /\ h.answer = Answer(j)
        BY <2>3 DEF Queries
      <3>2. status[j] # "none" => Answer(j) # "none"
        BY DEF Answer
      <3>3. ~Refuses(j) => Answer(j) = status[j]
        BY <1>3 DEF Answer
      <3> QED
        BY <1>3, <1>5, <1>6, <2>3, <3>1, <3>2, <3>3
    <2>4. CASE g.fetching = "served" /\ h = [NoGeneration EXCEPT !.seen = g.answer]
      <3>1. h.fetching = "no" /\ h.seen = g.answer /\ h.answer = "none"
        BY <2>4 DEF NoGeneration
      <3> QED
        BY <1>3, <1>5, <1>6, <2>4, <3>1 DEF Over
    <2>5. CASE h = [g EXCEPT !.fetching = "no", !.answer = "none"]
      <3>1. h.fetching = "no" /\ h.seen = g.seen /\ h.answer = "none"
        BY <2>5 DEF Queries
      <3> QED
        BY <1>3, <1>5, <1>6, <2>5, <3>1 DEF Over
    <2> QED
      BY <1>1, <1>2, <1>4, <2>1, <2>2, <2>3, <2>4, <2>5 DEF Asks, Sent
  <1>8. KnownJob(j)'
    BY <1>2, <1>5, <1>6, <1>7 DEF KnownJob
  <1>9. g = generation[j] /\ h = generation'[j]
    BY <1>1, <1>2
  <1> QED
    BY <1>7, <1>8, <1>9

\* A step that moves no job that is not refused is a stutter of the lifecycle.
LEMMA LifecycleIdle ==
  ASSUME SiteTypeOK, SiteTypeOK',
         \A j \in Jobs : \/ /\ Refuses(j)' <=> Refuses(j)
                            /\ status'[j] = status[j] /\ (j \in playable' <=> j \in playable)
                         \/ Refuses(j)' /\ (Refuses(j) \/ (status[j] = "none" /\ j \notin playable))
  PROVE  [Lifecycle!Next]_(Lifecycle!vars)
  <1>1. \A j \in Jobs : LStatus'[j] = LStatus[j]
    BY DEF LStatus
  <1>2. LStatus' = LStatus
    BY <1>1 DEF LStatus
  <1>3. playable \subseteq Jobs /\ playable' \subseteq Jobs
    BY DEF SiteTypeOK
  <1>4. \A j \in Jobs : j \in LPlayable' <=> j \in LPlayable
    BY DEF LPlayable
  <1>5. LPlayable' \subseteq LPlayable /\ LPlayable \subseteq LPlayable'
    BY <1>3, <1>4 DEF LPlayable
  <1>6. LPlayable' = LPlayable
    BY <1>5
  <1> QED
    BY <1>2, <1>6 DEF Lifecycle!vars

\* What touches neither jobs, queries nor submissions moves no job.
LEMMA JobsIdle ==
  ASSUME UNCHANGED <<jobVars, generation, submission>>
  PROVE  JobsMove
  <1>1. UNCHANGED <<LStatus, LPlayable>>
    BY DEF LStatus, LPlayable, Refuses
  <1>2. \A j \in Jobs : Moves(j)
    BY DEF Moves, Asks, Stands, Refuses, Early
  <1> QED
    BY <1>1, <1>2 DEF JobsMove, Lifecycle!vars

\* Nor does what leaves the speech studio alone.
LEMMA JobsKept ==
  ASSUME UNCHANGED speechVars
  PROVE  JobsMove
  BY JobsIdle DEF speechVars

\* A step that leaves the rows alone moves the jobs that it asks for, or submits.
LEMMA RowsIdle ==
  ASSUME SiteTypeOK, UNCHANGED jobVars, \A j \in Jobs : Asks(j),
         \A j \in Jobs : /\ submission'[j].at = "refetch" => submission[j].at = "refetch"
                         /\ Refuses(j)' <=> Refuses(j)
                         /\ Early(j)' => Early(j)
  PROVE  JobsMove
  <1>1. UNCHANGED <<LStatus, LPlayable>>
    <2>1. \A j \in Jobs : LStatus'[j] = LStatus[j]
      BY DEF LStatus
    <2>2. LStatus' = LStatus
      BY <2>1 DEF LStatus
    <2>3. LPlayable' = LPlayable
      BY DEF LPlayable, SiteTypeOK
    <2> QED
      BY <2>2, <2>3
  <1>2. \A j \in Jobs : Moves(j)
    BY DEF Moves, Stands
  <1> QED
    BY <1>1, <1>2 DEF JobsMove, Lifecycle!vars

\* The service moves a job that it did not refuse as the lifecycle says.
LEMMA LifecycleFollows ==
  ASSUME SiteTypeOK, NEW j \in Jobs, ~Refuses(j), \A k \in Jobs : Refuses(k)' <=> Refuses(k),
         Service!Submit(j) \/ Service!Begin(j) \/ Service!Fail(j) \/ Service!Succeed(j)
  PROVE  [Lifecycle!Next]_(Lifecycle!vars)
  <1>1. status \in [Jobs -> Statuses] /\ playable \subseteq Jobs
    BY DEF SiteTypeOK
  <1>2. ASSUME NEW to, status' = [status EXCEPT ![j] = to]
        PROVE  LStatus' = [LStatus EXCEPT ![j] = to]
    <2>1. \A k \in Jobs : LStatus'[k] = IF k = j THEN to ELSE LStatus[k]
      BY <1>1, <1>2 DEF LStatus
    <2> QED
      BY <2>1 DEF LStatus
  <1>3. LStatus[j] = status[j]
    BY DEF LStatus
  <1>4. ASSUME UNCHANGED playable PROVE LPlayable' = LPlayable
    BY <1>1, <1>4 DEF LPlayable
  <1>5. ASSUME NEW from, NEW to, Service!Move(j, from, to)
        PROVE  Lifecycle!Move(j, from, to)
    BY <1>2, <1>3, <1>4, <1>5 DEF Service!Move, Lifecycle!Move
  <1>6. CASE Service!Succeed(j)
    <2>1. playable' = playable \cup {j} /\ status' = [status EXCEPT ![j] = "completed"]
      BY <1>6 DEF Service!Succeed
    <2>2. LPlayable' = LPlayable \cup {j}
      BY <1>1, <2>1 DEF LPlayable
    <2> QED
      BY <1>2, <1>3, <1>6, <2>1, <2>2 DEF Service!Succeed, Lifecycle!Succeed, Lifecycle!Next
  <1> QED
    BY <1>5, <1>6 DEF Service!Submit, Service!Begin, Service!Fail, Lifecycle!Submit,
       Lifecycle!Begin, Lifecycle!Fail, Lifecycle!Next

\* A page that is shown asks for its generation, if it is that of a job.
LEMMA VisitJobs ==
  ASSUME SiteTypeOK, NEW p, NEW v, NEW j, Shown(p, v, j),
         p = "detail" => j \in Jobs /\ status[j] # "none",
         \A k \in Jobs : /\ submission'[k].at = "refetch" => submission[k].at = "refetch"
                         /\ Refuses(k)' <=> Refuses(k)
                         /\ Early(k)' => Early(k)
  PROVE  JobsMove
  <1>1. UNCHANGED jobVars
    BY DEF Shown
  <1>2. \A k \in Jobs : Asks(k)
    <2>1. CASE generation' = generation
      BY <2>1 DEF Asks
    <2>2. CASE p = "detail" /\ generation[j].fetching = "no"
               /\ generation' = [generation EXCEPT ![j].fetching = "sent"]
      BY <2>2 DEF SiteTypeOK, Asks, Sent
    <2> QED
      BY <2>1, <2>2 DEF Shown
  <1> QED
    BY <1>1, <1>2, RowsIdle

\* A user's gesture moves jobs only by submitting one or asking for its state.
LEMMA UserJobs ==
  ASSUME SiteTypeOK, User
  PROVE  JobsMove
  <1>1. CASE Go
    <2>1. submission' = submission
      BY <1>1 DEF Go
    <2>2. ASSUME NEW p \in {"dashboard", "voices", "speech"}, NEW v, Visit(p, v, None)
          PROVE  JobsMove
      BY <2>1, <2>2, VisitJobs DEF Visit, Refuses, Early
    <2>3. ASSUME NEW j \in Jobs, status[j] # "none", Visit("detail", None, j)
          PROVE  JobsMove
      BY <2>1, <2>3, VisitJobs DEF Visit, Refuses, Early
    <2> QED
      BY <1>1, <2>2, <2>3 DEF Go, Sidebar, TryText, QuickAction, UseVoice, OpenGeneration
  <1>2. CASE Listen \/ Tidy \/ Edit \/ FillIn
    BY <1>2, JobsKept DEF Listen, Tidy, Edit, FillIn
  <1>3. CASE Speak
    <2>1. UNCHANGED <<jobVars, generation>>
      BY <1>3 DEF Speak, TypeSpeech, PickVoice, Generate, Fill, TogglePlayPause, Wave
    <2>2. ASSUME UNCHANGED submission PROVE JobsMove
      BY <2>1, <2>2, JobsIdle
    <2>3. ASSUME NEW j \in Jobs, Generate(j) PROVE JobsMove
      <3>1. /\ submission[j].at = "idle" /\ submission'[j].at = "playback"
            /\ \A k \in Jobs \ {j} : submission'[k] = submission[k]
        BY <2>3 DEF Generate, SiteTypeOK
      <3>2. \A k \in Jobs : Asks(k)
        BY <2>1 DEF Asks
      <3> QED
        BY <2>1, <3>1, <3>2, RowsIdle DEF Refuses, Early
    <2> QED
      BY <1>3, <2>2, <2>3 DEF Speak, TypeSpeech, PickVoice, TogglePlayPause, Wave
  <1> QED
    BY <1>1, <1>2, <1>3 DEF User, Does

\* A submission, step by step: it leaves the other jobs alone.
LEMMA SubmitJobs ==
  ASSUME SiteTypeOK, SiteTypeOK', JobInv, NEW j \in Jobs,
         \/ KeyServed(j) \/ JobAccepted(j) \/ KeyRefused(j) \/ JobRefused(j)
         \/ PublishFails(j) \/ Undo(j)
  PROVE  JobsMove
  <1>1. \A k \in Jobs : Asks(k)
    BY DEF KeyServed, JobAccepted, KeyRefused, JobRefused, PublishFails, Undo, RestOfSubmit, Asks
  <1>2. ASSUME NEW from, NEW to, Submits(j, from, to)
        PROVE  /\ submission[j].at = from /\ submission'[j].at = to
               /\ \A k \in Jobs \ {j} : submission'[k] = submission[k]
               /\ \A k \in Jobs \ {j} : (Refuses(k)' <=> Refuses(k)) /\ (Early(k)' <=> Early(k))
    BY <1>2 DEF Submits, SiteTypeOK, Submissions, Refuses, Early
  <1>3. status \in [Jobs -> Statuses] /\ playable \subseteq Jobs /\ stray \subseteq Jobs
    BY DEF SiteTypeOK
  <1>4. submission[j].at = "generate" => status[j] = "none" /\ j \notin playable /\ ~Refuses(j)
    BY DEF JobInv, KnownJob, Early, Refuses
  <1>5. CASE KeyServed(j) \/ KeyRefused(j)
    <2>1. PICK to \in {"generate", "done"} : Submits(j, "playback", to)
      BY <1>5 DEF KeyServed, KeyRefused
    <2>2. UNCHANGED jobVars
      BY <1>5 DEF KeyServed, KeyRefused
    <2>3. (Refuses(j)' <=> Refuses(j)) /\ Early(j) /\ submission'[j].at # "refetch"
      BY <1>2, <2>1 DEF Refuses, Early
    <2> QED
      BY <1>1, <1>2, <2>1, <2>2, <2>3, RowsIdle
  <1>6. ASSUME NEW to \in {"refetch", "done"}, Submits(j, "generate", to), Service!Submit(j),
               UNCHANGED stray
        PROVE  JobsMove
    <2>1. ~Refuses(j) /\ ~Refuses(j)' /\ ~Early(j)'
      BY <1>2, <1>6 DEF Refuses, Early
    <2>2. [Lifecycle!Next]_(Lifecycle!vars)
      BY <1>2, <1>6, <2>1, LifecycleFollows
    <2>3. status'[j] = "queued" /\ \A k \in Jobs \ {j} : status'[k] = status[k]
      BY <1>3, <1>6 DEF Service!Submit, Service!Move
    <2>4. \A k \in Jobs : Stands(k)
      BY <1>2, <1>6, <2>1, <2>3 DEF Stands
    <2> QED
      BY <1>1, <2>2, <2>4 DEF JobsMove, Moves
  <1>7. ASSUME NEW from \in {"generate", "undo"}, NEW to \in {"undo", "refused"},
               Submits(j, from, to),
               /\ \A k \in Jobs \ {j} : status'[k] = status[k] /\ (k \in stray' => k \in stray)
               /\ status[j] # "none" => status'[j] # "none"
               /\ UNCHANGED playable
        PROVE  JobsMove
    <2>1. Refuses(j)' /\ ~Early(j)' /\ submission'[j].at # "refetch"
      BY <1>2, <1>7 DEF Refuses, Early
    <2>2. Refuses(j) \/ (status[j] = "none" /\ j \notin playable)
      BY <1>2, <1>4, <1>7 DEF Refuses
    <2>3. [Lifecycle!Next]_(Lifecycle!vars)
      BY <1>2, <1>7, <2>1, <2>2, LifecycleIdle
    <2>4. \A k \in Jobs : Stands(k)
      BY <1>2, <1>7, <2>1 DEF Stands
    <2> QED
      BY <1>1, <2>3, <2>4 DEF JobsMove, Moves
  <1>8. CASE JobAccepted(j)
    BY <1>6, <1>8 DEF JobAccepted
  <1>9. ASSUME Service!Submit(j)
        PROVE  /\ \A k \in Jobs \ {j} : status'[k] = status[k]
               /\ status[j] # "none" => status'[j] # "none"
               /\ UNCHANGED playable
    BY <1>3, <1>9 DEF Service!Submit, Service!Move
  <1>10. CASE JobRefused(j)
    BY <1>6, <1>7, <1>9, <1>10 DEF JobRefused
  <1>11. CASE PublishFails(j)
    BY <1>3, <1>7, <1>9, <1>11 DEF PublishFails
  <1>12. CASE Undo(j)
    BY <1>3, <1>7, <1>12 DEF Undo
  <1> QED
    BY <1>5, <1>8, <1>10, <1>11, <1>12

\* A query, step by step.
LEMMA QueryJobs ==
  ASSUME SiteTypeOK, JobInv, NEW j \in Jobs,
         Poll(j) \/ ServeGeneration(j) \/ ShowGeneration(j) \/ GenerationFails(j)
  PROVE  JobsMove
  <1>1. UNCHANGED <<jobVars, submission>>
    BY DEF Poll, ServeGeneration, ShowGeneration, GenerationFails, Query
  <1>2. ASSUME NEW g, Query(j, g) PROVE g = generation'[j] /\ \A k \in Jobs \ {j} : Asks(k)
    <2>1. generation' = [generation EXCEPT ![j] = g]
      BY <1>2 DEF Query
    <2> QED
      BY <2>1 DEF Asks, SiteTypeOK
  <1>3. Asks(j)
    <2>1. CASE Poll(j)
      <3>1. status[j] # "none" /\ generation[j].fetching = "no"
        BY <2>1 DEF Poll, JobInv, KnownJob, Active
      <3>2. generation'[j] = [generation[j] EXCEPT !.fetching = "sent"]
        BY <1>2, <2>1 DEF Poll
      <3> QED
        BY <3>1, <3>2 DEF Asks, Sent
    <2>2. CASE ServeGeneration(j)
      BY <1>1, <1>2, <2>2 DEF ServeGeneration, Asks
    <2>3. CASE ShowGeneration(j)
      BY <1>2, <2>3 DEF ShowGeneration, Asks
    <2>4. CASE GenerationFails(j)
      BY <1>2, <2>4 DEF GenerationFails, Asks
    <2> QED
      BY <2>1, <2>2, <2>3, <2>4
  <1>4. \A k \in Jobs \ {j} : Asks(k)
    BY <1>2 DEF Poll, ServeGeneration, ShowGeneration, GenerationFails
  <1> QED
    BY <1>1, <1>3, <1>4, RowsIdle DEF Refuses, Early

\* A worker moves the row of one job, in its lifecycle unless the job was refused.
LEMMA WorkerJobs ==
  ASSUME SiteTypeOK, SiteTypeOK', JobInv, ServiceStep \/ StrayStep
  PROVE  JobsMove
  <1>1. UNCHANGED <<submission, generation>> /\ \A j \in Jobs : Refuses(j)' <=> Refuses(j)
    BY DEF ServiceStep, StrayStep, RestOfSubmit, Refuses
  <1>2. status \in [Jobs -> Statuses] /\ playable \subseteq Jobs /\ stray \subseteq Jobs
    BY DEF SiteTypeOK
  <1>3. \A j \in Jobs : /\ j \in stray => Refuses(j)
                        /\ Early(j) => status[j] = "none"
                        /\ j \in stray => ~Early(j)
    BY DEF JobInv, KnownJob, Refuses, Early
  <1>4. ASSUME NEW j \in Jobs, ~Early(j), NEW to, to # "none", stray' \subseteq stray,
               status' = [status EXCEPT ![j] = to]
        PROVE  \A k \in Jobs : Moves(k)
    <2>1. \A k \in Jobs : Asks(k) /\ (Early(k)' <=> Early(k))
      BY <1>1 DEF Asks, Early
    <2>2. status'[j] = to /\ \A k \in Jobs \ {j} : status'[k] = status[k]
      BY <1>2, <1>4
    <2>3. \A k \in Jobs : Stands(k)
      BY <1>1, <1>4, <2>1, <2>2 DEF Stands
    <2> QED
      BY <2>1, <2>3 DEF Moves
  <1>5. CASE ServiceStep
    <2>1. PICK j \in Jobs : ~Refuses(j) /\ (Service!Begin(j) \/ Service!Fail(j) \/ Service!Succeed(j))
      BY <1>5 DEF ServiceStep
    <2>2. [Lifecycle!Next]_(Lifecycle!vars)
      BY <1>1, <2>1, LifecycleFollows
    <2>3. status[j] # "none" /\ \E to \in {"processing", "failed", "completed"} :
            status' = [status EXCEPT ![j] = to]
      BY <2>1 DEF Service!Begin, Service!Fail, Service!Succeed, Service!Move
    <2>4. UNCHANGED stray
      BY <1>5 DEF ServiceStep
    <2> QED
      BY <1>3, <1>4, <2>2, <2>3, <2>4 DEF JobsMove
  <1>6. CASE StrayStep
    <2>1. PICK j \in stray :
            \/ Service!Begin(j) /\ UNCHANGED stray
            \/ /\ stray' = stray \ {j} /\ playable' \in {playable, playable \cup {j}}
               /\ \E end \in {"failed", "completed"} : status' = [status EXCEPT ![j] = end]
      BY <1>6 DEF StrayStep
    <2>2. /\ \E to \in {"processing", "failed", "completed"} : status' = [status EXCEPT ![j] = to]
          /\ playable' \in {playable, playable \cup {j}} /\ stray' \subseteq stray
      BY <2>1 DEF Service!Begin, Service!Move
    <2>3. j \in Jobs /\ Refuses(j) /\ ~Early(j)
      BY <1>2, <1>3
    <2>4. \A k \in Jobs \ {j} : status'[k] = status[k] /\ (k \in playable' <=> k \in playable)
      BY <1>2, <2>2
    <2>5. [Lifecycle!Next]_(Lifecycle!vars)
      BY <1>1, <2>3, <2>4, LifecycleIdle
    <2> QED
      BY <1>4, <2>2, <2>3, <2>5 DEF JobsMove
  <1> QED
    BY <1>5, <1>6

\* Playing a generation touches neither its query nor its job.
LEMMA AudioJobs ==
  ASSUME NEW j \in Jobs,
         \/ AskPlayback(j) \/ PlaybackServed(j) \/ AudioServed(j) \/ PlaybackFails(j)
         \/ \E i \in Fetches : FetchAudio(j, i)
  PROVE  UNCHANGED <<jobVars, page, requested, viewed, builtin, speech, submission,
                     generation>>
  BY DEF AskPlayback, PlaybackServed, AudioServed, PlaybackFails, FetchAudio, Audio

\* What goes on by itself moves jobs as the service does, and queries as the polls do.
LEMMA ByItselfJobs ==
  ASSUME SiteTypeOK, SiteTypeOK', JobInv, ByItself
  PROVE  JobsMove
  <1>1. CASE ListShown
    BY <1>1, JobsIdle DEF ListShown
  <1>2. CASE BuiltInShown
    BY <1>2, JobsIdle DEF BuiltInShown, LoadBuiltIn
  <1>3. CASE LibraryStep \/ KeyForgotten
    BY <1>3, JobsKept DEF LibraryStep, KeyForgotten
  <1>4. CASE AudioFetched
    BY <1>4, AudioJobs, JobsIdle DEF AudioFetched
  <1>5. CASE Refused
    BY <1>5, AudioJobs, SubmitJobs, JobsKept, JobsIdle DEF Refused
  <1>6. CASE StudioStep(Observed) /\ PageFollows
    BY <1>6, JobsIdle DEF PageFollows
  <1>7. ASSUME NEW j \in Jobs, Progress(j) PROVE JobsMove
    BY <1>7, AudioJobs, SubmitJobs, QueryJobs, JobsIdle DEF Progress, JobStep
  <1>8. ASSUME NEW j \in Jobs, Push(j) PROVE JobsMove
    <2>1. submission[j].at = "refetch" /\ submission' = [submission EXCEPT ![j].at = "done"]
      BY <1>8 DEF Push, Pushes, Submits
    <2>2. \A k \in Jobs : /\ submission'[k].at = "refetch" => submission[k].at = "refetch"
                          /\ Refuses(k)' <=> Refuses(k)
                          /\ Early(k)' => Early(k)
      BY <2>1 DEF SiteTypeOK, Submissions, Refuses, Early
    <2>3. CASE Viewing(j)
      <3>1. UNCHANGED jobVars /\ \A k \in Jobs : Asks(k)
        BY <1>8, <2>3 DEF Push, RestOfSubmit, Asks
      <3> QED
        BY <2>2, <3>1, RowsIdle
    <2>4. CASE ~Viewing(j)
      <3>1. status[j] # "none"
        BY <2>1 DEF JobInv, KnownJob
      <3> QED
        BY <1>8, <2>2, <2>4, <3>1, VisitJobs DEF Push, Visit
    <2> QED
      BY <2>3, <2>4
  <1>9. CASE ServiceStep \/ StrayStep
    BY <1>9, WorkerJobs
  <1>10. CASE WaveStep \/ WaveFinishes
    BY <1>10, JobsIdle DEF WaveStep, WaveLoads, WaveReady, WaveEnds, WaveFinishes, Wave
  <1> QED
    BY <1>1, <1>2, <1>3, <1>4, <1>5, <1>6, <1>7, <1>8, <1>9, <1>10 DEF ByItself

\* A failure moves no job, and no query but to give up its poll.
LEMMA FailsJobs ==
  ASSUME SiteTypeOK, SiteTypeOK', JobInv, Fails
  PROVE  JobsMove
  <1>1. CASE UNCHANGED speechVars
    BY <1>1, JobsKept
  <1>2. CASE PageFollows
    BY <1>2, JobsIdle DEF PageFollows
  <1>3. ASSUME NEW j \in Jobs,
               \/ KeyRefused(j) \/ JobRefused(j) \/ PublishFails(j)
               \/ GenerationFails(j) \/ PlaybackFails(j)
        PROVE  JobsMove
    BY <1>3, SubmitJobs, QueryJobs, AudioJobs, JobsIdle
  <1>4. CASE WaveFails
    BY <1>4, JobsIdle DEF WaveFails, WaveEnds, Wave
  <1> QED
    BY <1>1, <1>2, <1>3, <1>4 DEF Fails

\* Every step moves jobs and queries so.
LEMMA JobSteps ==
  ASSUME SiteTypeOK, SiteTypeOK', JobInv, [Next]_webVars
  PROVE  JobsMove
  <1>1. CASE UNCHANGED webVars
    BY <1>1, JobsKept DEF webVars
  <1> QED
    BY <1>1, UserJobs, ByItselfJobs, FailsJobs DEF Next

\* What the pages know of the jobs is so, whether they were accepted or refused.
THEOREM JobsKnown == Spec => []JobInv
  <1>1. Init => JobInv
    BY DEF Init, SpeechInit, Service!Init, NoGeneration, NoSubmission, JobInv, KnownJob, Over
  <1>2. Typed /\ Typed' /\ JobInv /\ [Next]_webVars => JobInv'
    BY JobSteps, MovesKeep DEF Typed, SpeechTypeOK, SiteTypeOK
  <1> QED
    BY <1>1, <1>2, StudiosTyped, PTL DEF Spec

\* The jobs that the service did not refuse run as JobLifecycle says, which
\* GenerationJobs implements for the accepted ones: the pages submit each of them once,
\* and neither a refusal nor what becomes of a refused job's row moves another.
THEOREM UsesService == Spec => Lifecycle!Spec
  <1>1. Init => Lifecycle!Init
    <2>1. ASSUME Init PROVE /\ status = [j \in Jobs |-> "none"] /\ playable = {}
                            /\ submission = [j \in Jobs |-> NoSubmission]
      BY <2>1 DEF Init, SpeechInit, Service!Init
    <2>2. Init => LStatus = [j \in Jobs |-> "none"] /\ LPlayable = {}
      BY <2>1 DEF LStatus, LPlayable, Refuses, NoSubmission
    <2> QED
      BY <2>2 DEF Lifecycle!Init
  <1>2. Typed /\ Typed' /\ JobInv /\ [Next]_webVars => [Lifecycle!Next]_(Lifecycle!vars)
    BY JobSteps DEF Typed, SpeechTypeOK, SiteTypeOK, JobsMove
  <1> QED
    BY <1>1, <1>2, StudiosTyped, JobsKnown, PTL DEF Spec, Lifecycle!Spec

\* Once a page showed that a generation that was not refused completed or failed, it
\* shows that for good: no answer that was slower than another takes it back
\* (use-generations.ts:46-57).  The row of a refused one may end twice.
THEOREM EndStaysShown ==
  Spec => [][\A j \in Jobs : generation[j].seen \in Over /\ ~Refuses(j) =>
               generation'[j].seen = generation[j].seen]_webVars
  <1>1. Typed /\ Typed' /\ JobInv /\ [Next]_webVars =>
          \A j \in Jobs : generation[j].seen \in Over /\ ~Refuses(j) =>
            generation'[j].seen = generation[j].seen
    BY JobSteps, MovesKeep DEF Typed, SpeechTypeOK, SiteTypeOK
  <1> QED
    BY <1>1, StudiosTyped, JobsKnown, PTL DEF Spec

-----------------------------------------------------------------------------
(* What the user typed.                                                    *)

\* Only a form that can be seen was touched.
TouchedInv == speech.touched => \/ page = "speech"
                                \/ page = "detail" /\ speech.key # None

\* A gesture is paid for.
LEMMA UserPays ==
  ASSUME Typed, User
  PROVE  budget' # budget
  <1>1. PICK kind \in Kinds : budget[kind] > 0 /\ budget' = [budget EXCEPT ![kind] = @ - 1]
    BY DEF User, Does, Kinds
  <1>2. budget'[kind] = budget[kind] - 1 /\ budget[kind] \in Nat
    BY <1>1 DEF Typed
  <1> QED
    BY <1>2

\* A step that is not the user's shows the page of a job, or leaves the form of the
\* page alone, or renders it.
LEMMA PageSteps ==
  ASSUME SiteTypeOK, Fails \/ ByItself
  PROVE  \/ UNCHANGED <<page, viewed, speech>>
         \/ /\ UNCHANGED <<page, requested, viewed>> /\ (builtin => builtin') /\ Render
         \/ \E j \in Jobs : ~Viewing(j) /\ Visit("detail", None, j)
  <1> DEFINE Spared == UNCHANGED <<page, viewed, speech>>
             Rendered == /\ UNCHANGED <<page, requested, viewed>> /\ (builtin => builtin')
                         /\ Render
             Visits == \E j \in Jobs : ~Viewing(j) /\ Visit("detail", None, j)
  <1> SUFFICES Spared \/ Rendered \/ Visits
    OBVIOUS
  <1>1. CASE UNCHANGED speechVars
    BY <1>1 DEF speechVars
  <1>2. CASE ListShown
    BY <1>2 DEF ListShown
  <1>3. CASE BuiltInShown
    BY <1>3 DEF BuiltInShown, LoadBuiltIn
  <1>4. CASE PageFollows
    BY <1>4 DEF PageFollows
  <1>5. ASSUME NEW j \in Jobs,
               \/ KeyServed(j) \/ JobAccepted(j) \/ KeyRefused(j) \/ JobRefused(j)
               \/ PublishFails(j) \/ Undo(j)
               \/ AskPlayback(j) \/ PlaybackServed(j) \/ AudioServed(j) \/ PlaybackFails(j)
               \/ \E i \in Fetches : FetchAudio(j, i)
        PROVE  Spared
    BY <1>5, AudioJobs DEF KeyServed, JobAccepted, KeyRefused, JobRefused, PublishFails, Undo,
         RestOfSubmit
  <1>6. ASSUME NEW j \in Jobs,
               Poll(j) \/ ServeGeneration(j) \/ ShowGeneration(j) \/ GenerationFails(j)
        PROVE  Rendered
    BY <1>6 DEF Poll, ServeGeneration, ShowGeneration, GenerationFails, Query
  <1>7. ASSUME NEW j \in Jobs, Push(j) PROVE Spared \/ Visits
    BY <1>7 DEF Push, RestOfSubmit
  <1>8. CASE ServiceStep \/ StrayStep \/ WaveStep \/ WaveFails \/ WaveFinishes
    BY <1>8 DEF ServiceStep, StrayStep, RestOfSubmit, WaveStep, WaveLoads, WaveReady, WaveFails,
         WaveEnds, WaveFinishes, Wave
  <1>9. CASE Fails
    BY <1>1, <1>4, <1>5, <1>6, <1>8, <1>9 DEF Fails
  <1>10. CASE ByItself
    BY <1>1, <1>2, <1>3, <1>4, <1>5, <1>6, <1>7, <1>8, <1>10
       DEF ByItself, LibraryStep, KeyForgotten, AudioFetched, Refused, Progress, JobStep
  <1> QED
    BY <1>9, <1>10

\* A form that was just mounted is untouched.
LEMMA FreshUntouched == ~FreshForm.touched
  BY DEF FreshForm, NoSpeech

\* The form of a page whose generation is known keeps its key, unless the list is
\* being loaded again.
LEMMA RenderSpares ==
  ASSUME SpeechTypeOK, TouchedInv, UNCHANGED <<page, requested, viewed>>, builtin => builtin',
         \A j \in Jobs : generation[j].seen # "none" => generation'[j].seen # "none", Render
  PROVE  SpeechKept
  <1> SUFFICES ASSUME speech.touched, speech' # speech
               PROVE  \/ page = "speech" /\ (Resolved(requested))' # Resolved(requested)
                      \/ page = "detail" /\ ListPending'
    BY DEF SpeechKept
  <1>1. speech.key = FormKey /\ FormKey' # FormKey
    BY DEF Render, SpeechTypeOK
  <1>2. CASE page = "speech"
    BY <1>1, <1>2 DEF FormKey
  <1>3. CASE page = "detail"
    <2>1. FormKey # None
      BY <1>1, <1>3 DEF TouchedInv
    <2>2. generation[viewed].seen # "none" /\ builtin /\ FormKey = viewed
      BY <1>3, <2>1 DEF FormKey
    <2>3. viewed \in Jobs
      BY <1>3 DEF SpeechTypeOK
    <2>4. generation'[viewed'].seen # "none" /\ builtin' /\ page' = "detail"
      BY <1>3, <2>2, <2>3
    <2> QED
      BY <1>1, <1>3, <2>2, <2>4 DEF FormKey
  <1> QED
    BY <1>2, <1>3 DEF TouchedInv

\* Without a gesture, a form that was touched is given up only where its default changed.
LEMMA SpeechSpared ==
  ASSUME Typed, Typed', TouchedInv, JobInv, [Next]_webVars, budget' = budget, page' = page,
         viewed' = viewed
  PROVE  SpeechKept
  <1>1. SpeechTypeOK /\ SiteTypeOK /\ SiteTypeOK'
    BY SpeechSplits DEF Typed, SpeechTypeOK, SiteTypeOK
  <1>2. \A j \in Jobs : generation[j].seen # "none" => generation'[j].seen # "none"
    BY <1>1, JobSteps, MovesKeep
  <1>3. CASE UNCHANGED webVars
    BY <1>3 DEF webVars, speechVars, SpeechKept
  <1>4. CASE Fails \/ ByItself
    <2>1. CASE UNCHANGED <<page, viewed, speech>>
      BY <2>1 DEF SpeechKept
    <2>2. CASE UNCHANGED <<page, requested, viewed>> /\ (builtin => builtin') /\ Render
      BY <1>1, <1>2, <2>2, RenderSpares
    <2>3. ASSUME NEW j \in Jobs, ~Viewing(j), Visit("detail", None, j) PROVE FALSE
      BY <2>3 DEF Visit, Shown, Viewing
    <2> QED
      BY <1>1, <1>4, <2>1, <2>2, <2>3, PageSteps
  <1> QED
    BY <1>3, <1>4, UserPays DEF Next

\* A form that was touched is one of the speech page or of a page that knows its generation.
LEMMA TouchedStep ==
  ASSUME Typed, TouchedInv, [Next]_webVars
  PROVE  TouchedInv'
  <1>1. SpeechTypeOK /\ SiteTypeOK
    BY SpeechSplits DEF Typed
  <1>2. ASSUME UNCHANGED <<page, speech>> PROVE TouchedInv'
    BY <1>2 DEF TouchedInv
  <1>3. ASSUME NEW p, NEW v, NEW j, Visit(p, v, j) PROVE TouchedInv'
    BY <1>3, FreshUntouched DEF Visit, TouchedInv, FreshForm, NoSpeech
  <1>4. CASE UNCHANGED webVars
    BY <1>2, <1>4 DEF webVars, speechVars
  <1>5. CASE Fails \/ ByItself
    <2>1. CASE UNCHANGED <<page, requested, viewed>> /\ Render
      BY <2>1 DEF Render, TouchedInv, FreshForm, NoSpeech
    <2> QED
      BY <1>1, <1>2, <1>3, <1>5, <2>1, PageSteps
  <1>6. CASE Go
    BY <1>3, <1>6 DEF Go, Sidebar, TryText, QuickAction, UseVoice, OpenGeneration
  <1>7. CASE Listen \/ Tidy \/ Edit \/ FillIn
    BY <1>2, <1>7 DEF Listen, Tidy, Edit, FillIn, speechVars
  <1>8. CASE Speak
    <2>1. CASE TogglePlayPause
      BY <1>2, <2>1 DEF TogglePlayPause, Wave
    <2>2. ASSUME NEW s \in SpeechForms, s.key = speech.key, Fill(s) PROVE TouchedInv'
      <3>1. speech' = [s EXCEPT !.touched = TRUE] /\ page' = page
        BY <2>2 DEF Fill
      <3>2. speech'.key = speech.key
        BY <2>2, <3>1 DEF SpeechForms
      <3> QED
        BY <1>1, <2>2, <3>1, <3>2 DEF Fill, Writing, TouchedInv, SpeechTypeOK
    <2>3. speech \in SpeechForms
      BY <1>1 DEF SpeechTypeOK
    <2>4. ASSUME NEW t \in Texts, TypeSpeech(t) PROVE TouchedInv'
      <3>1. PICK s : s = [speech EXCEPT !.text = t]
        OBVIOUS
      <3> QED
        BY <2>2, <2>3, <2>4, <3>1 DEF TypeSpeech, SpeechForms
    <2>5. ASSUME NEW v \in Voices, PickVoice(v) PROVE TouchedInv'
      <3>1. PICK s : s = [speech EXCEPT !.voice = v]
        OBVIOUS
      <3> QED
        BY <2>2, <2>3, <2>5, <3>1 DEF PickVoice, SpeechForms
    <2>6. ASSUME NEW j \in Jobs, Generate(j) PROVE TouchedInv'
      <3>1. PICK s : s = [speech EXCEPT !.job = j]
        OBVIOUS
      <3> QED
        BY <2>2, <2>3, <2>6, <3>1 DEF Generate, SpeechForms
    <2> QED
      BY <1>8, <2>1, <2>4, <2>5, <2>6 DEF Speak
  <1> QED
    BY <1>4, <1>5, <1>6, <1>7, <1>8 DEF Next, User, Does

\* The studio's own steps leave the dialogs and the form to the user, but for the
\* success of what they were for, a voice that is gone and a recording.
LEMMA SettledKeeps ==
  ASSUME StudioTypeOK, NEW i \in Mutations, mutation[i].at \in {"refetch", "forget"},
         Reaches(i, "done"), Settled(mutation[i])
  PROVE  CardsKept /\ FormValuesKept
  <1>1. PICK m \in Changes : m = mutation[i]
    BY DEF StudioTypeOK
  <1>2. mutation'[i].at = "done"
    BY <1>1 DEF StudioTypeOK, Reaches, Changes
  <1>3. ASSUME m.mine, m.kind # "delete", NEW v \in Voices, m.kind = "create" \/ m.voice = v
        PROVE  Succeeds(m.kind, v)
    BY <1>1, <1>2, <1>3 DEF Succeeds
  <1>4. CardsKept
    <2> SUFFICES ASSUME NEW v \in Voices, card[v].edit
                 PROVE  \/ card'[v].edit /\ card'[v].draft = card[v].draft
                        \/ Succeeds("update", v)
      BY DEF CardsKept
    <2>1. card[v] \in Cards /\ card \in [Voices -> Cards] /\ m.voice \in Voices
      BY DEF StudioTypeOK, Changes
    <2>2. CASE card' = card
      BY <2>2
    <2>3. CASE m.mine /\ m.kind = "update" /\ card' = [card EXCEPT ![m.voice].edit = FALSE]
      <3>1. CASE v = m.voice
        BY <1>3, <2>3, <3>1
      <3>2. CASE v # m.voice
        BY <2>1, <2>3, <3>2
      <3> QED
        BY <3>1, <3>2
    <2>4. CASE card' = [card EXCEPT ![m.voice].confirm = FALSE]
      BY <2>1, <2>4 DEF Cards
    <2> QED
      BY <1>1, <2>2, <2>3, <2>4 DEF Settled
  <1>5. FormValuesKept
    <2>1. CASE form' = form
      BY <2>1 DEF FormValuesKept
    <2>2. CASE m.mine /\ m.kind = "create"
      <3>1. m.voice \in Voices
        BY DEF Changes
      <3> QED
        BY <1>3, <2>2, <3>1 DEF FormValuesKept
    <2> QED
      BY <1>1, <2>1, <2>2 DEF Settled
  <1> QED
    BY <1>4, <1>5

\* What leaves cards and form alone gives up nothing of them.
LEMMA SpareAll ==
  ASSUME UNCHANGED <<card, form>>
  PROVE  CardsKept /\ FormValuesKept
  BY DEF CardsKept, FormValuesKept

\* What fails, answers or settles gives up a dialog or form only when its own mutation is
\* done or its voice is gone.
LEMMA StudioSpares ==
  ASSUME StudioTypeOK, Fails \/ ByItself, page' = page, viewed' = viewed
  PROVE  CardsKept /\ FormValuesKept
  <1>1. CASE UNCHANGED studioVars
    BY <1>1, SpareAll DEF studioVars
  <1>2. CASE ShowList
    <2>1. form' = form /\ list'.shown = list.rows
      BY <1>2 DEF ShowList, NoList
    <2>2. ASSUME NEW v \in Voices PROVE card'[v] = card[v] \/ ~Has(list'.shown, v)
      BY <1>2, <2>1 DEF ShowList
    <2>3. CardsKept
      BY <2>2 DEF CardsKept
    <2> QED
      BY <2>1, <2>3 DEF FormValuesKept
  <1>3. CASE ServeList \/ ListFails
    BY <1>3, SpareAll DEF ServeList, ListFails
  <1>4. ASSUME NEW i \in Mutations,
               \/ MutationServed(i, Observed) \/ MutationSettles(i, Observed)
               \/ MutationFails(i) \/ DeleteSettles(i)
        PROVE  CardsKept /\ FormValuesKept
    <2>1. CASE UNCHANGED <<card, form>>
      BY <2>1, SpareAll
    <2>2. CASE mutation[i].at \in {"refetch", "forget"} /\ Reaches(i, "done") /\ Settled(mutation[i])
      BY <2>2, SettledKeeps
    <2> QED
      BY <1>4, <2>1, <2>2 DEF MutationServed, MutationSettles, MutationFails, DeleteSettles
  <1>5. ASSUME NEW i \in Takes, Granted(i) \/ Imported(i) \/ StartFails(i)
        PROVE  CardsKept /\ FormValuesKept
    BY <1>5, SpareAll DEF Granted, Imported, StartFails, Took
  <1>6. ASSUME NEW i \in Takes, Encoded(i) PROVE CardsKept /\ FormValuesKept
    <2>1. UNCHANGED card /\ take[i].at = "encoding" /\ take[i].of \in 0..MaxRecorders
      BY <1>6 DEF Encoded, Took, StudioTypeOK, Recordings
    <2>2. take'[i].at = "done"
      <3>1. PICK n : n = take[i].of
        OBVIOUS
      <3>2. take' = [Cleaned(n) EXCEPT ![i].at = "done"]
        BY <1>6, <3>1 DEF Encoded
      <3>3. Cleaned(n) \in [Takes -> Recordings]
        BY CleanedTyped DEF StudioTypeOK
      <3> QED
        BY <3>2, <3>3 DEF Recordings
    <2>3. form' = form \/ form' = [form EXCEPT !.file = "recorded"]
      BY <1>6 DEF Encoded
    <2>4. CardsKept
      BY <2>1 DEF CardsKept
    <2> QED
      BY <2>1, <2>2, <2>3, <2>4 DEF FormValuesKept
  <1>7. ASSUME NEW j \in Jobs, Push(j) PROVE CardsKept /\ FormValuesKept
    BY <1>1, <1>7 DEF Push, Visit, Shown, Viewing
  <1>8. CASE Fails
    BY <1>1, <1>3, <1>4, <1>5, <1>8 DEF Fails
  <1>9. CASE ByItself
    BY <1>1, <1>2, <1>3, <1>4, <1>5, <1>6, <1>7, <1>9
       DEF ByItself, ListShown, BuiltInShown, LibraryStep, KeyForgotten, AudioFetched, Refused,
           StudioStep, Progress
  <1> QED
    BY <1>8, <1>9

\* Without a gesture, and on the same page, nothing typed is given up but as InputKept says.
LEMMA InputSpared ==
  ASSUME Typed, Typed', TouchedInv, JobInv, [Next]_webVars
  PROVE  budget' = budget /\ page' = page /\ viewed' = viewed =>
           CardsKept /\ FormValuesKept /\ SpeechKept
  <1> SUFFICES ASSUME budget' = budget, page' = page, viewed' = viewed
               PROVE  CardsKept /\ FormValuesKept /\ SpeechKept
    OBVIOUS
  <1>1. SpeechKept
    BY SpeechSpared
  <1>2. CASE UNCHANGED webVars
    BY <1>1, <1>2, SpareAll DEF webVars, studioVars
  <1>3. CASE Fails \/ ByItself
    BY <1>1, <1>3, StudioSpares DEF Typed
  <1> QED
    BY <1>2, <1>3, UserPays DEF Next

\* What the user typed, chose or opened is given up only for the reasons that the
\* property names, whatever is refused, fetched again or settled meanwhile.
THEOREM InputHolds == Spec => InputKept
  <1>1. Init => TouchedInv
    BY DEF Init, SpeechInit, NoSpeech, TouchedInv
  <1>2. Typed /\ TouchedInv /\ [Next]_webVars => TouchedInv'
    BY TouchedStep
  <1>3. Typed /\ Typed' /\ TouchedInv /\ JobInv /\ [Next]_webVars =>
          (budget' = budget /\ page' = page /\ viewed' = viewed =>
             CardsKept /\ FormValuesKept /\ SpeechKept)
    BY InputSpared
  <1> QED
    BY <1>1, <1>2, <1>3, StudiosTyped, JobsKnown, PTL
       DEF Spec, InputKept
=============================================================================
