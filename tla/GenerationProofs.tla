--------------------------- MODULE GenerationProofs ---------------------------
(***************************************************************************)
(* The safety properties of GenerationJobs for every number of jobs and    *)
(* replicas, every buffer size and every set of faults; with one replica,  *)
(* also that the service implements JobLifecycle.                          *)
(*                                                                         *)
(* Two lemmas say once what a step may do to the rows (RowSteps) and to a  *)
(* worker's channel (ChannelSteps); each part of IInv is proved from them. *)
(***************************************************************************)
EXTENDS GenerationJobs, TLAPS

USE JobAssumption DEF JobAssumption

-----------------------------------------------------------------------------
(* Channels as sequences.                                                  *)

Elements(s) == {s[i] : i \in DOMAIN s}
Distinct(s) == \A i, k \in DOMAIN s : s[i] = s[k] => i = k

\* What a longer channel holds.
LEMMA AppendFacts ==
  ASSUME NEW S, NEW s \in Seq(S), NEW x \in S
  PROVE  /\ Append(s, x) \in Seq(S) /\ Len(Append(s, x)) = Len(s) + 1
         /\ Elements(Append(s, x)) = Elements(s) \cup {x}
         /\ Distinct(s) /\ x \notin Elements(s) => Distinct(Append(s, x))
  <1>1. /\ Append(s, x) \in Seq(S) /\ Len(Append(s, x)) = Len(s) + 1
        /\ DOMAIN s = 1..Len(s) /\ DOMAIN Append(s, x) = 1..(Len(s) + 1)
        /\ Len(s) \in Nat
        /\ \A i \in 1..Len(s) : Append(s, x)[i] = s[i]
        /\ Append(s, x)[Len(s) + 1] = x
    OBVIOUS
  <1>2. Elements(Append(s, x)) = Elements(s) \cup {x}
    BY <1>1 DEF Elements
  <1>3. Distinct(s) /\ x \notin Elements(s) => Distinct(Append(s, x))
    BY <1>1 DEF Distinct, Elements
  <1> QED
    BY <1>1, <1>2, <1>3

\* What a channel holds when its first message was taken.
LEMMA TailFacts ==
  ASSUME NEW S, NEW s \in Seq(S), s # <<>>
  PROVE  /\ Tail(s) \in Seq(S) /\ Len(Tail(s)) <= Len(s)
         /\ Head(s) \in S /\ Head(s) \in Elements(s)
         /\ Elements(Tail(s)) \subseteq Elements(s)
         /\ Distinct(s) => Distinct(Tail(s)) /\ Head(s) \notin Elements(Tail(s))
  <1>1. /\ Tail(s) \in Seq(S) /\ Len(s) \in Nat \ {0} /\ Len(Tail(s)) = Len(s) - 1
        /\ DOMAIN s = 1..Len(s) /\ DOMAIN Tail(s) = 1..(Len(s) - 1)
        /\ Head(s) = s[1] /\ Head(s) \in S
        /\ \A i \in 1..(Len(s) - 1) : Tail(s)[i] = s[i + 1]
    OBVIOUS
  <1>2. Head(s) \in Elements(s) /\ Elements(Tail(s)) \subseteq Elements(s)
    BY <1>1 DEF Elements
  <1>3. ASSUME Distinct(s)
        PROVE  Distinct(Tail(s)) /\ Head(s) \notin Elements(Tail(s))
    <2>1. \A i, k \in 1..(Len(s) - 1) : Tail(s)[i] = Tail(s)[k] => i = k
      BY <1>1, <1>3 DEF Distinct
    <2>2. \A i \in 1..(Len(s) - 1) : Tail(s)[i] # Head(s)
      BY <1>1, <1>3 DEF Distinct
    <2> QED
      BY <1>1, <2>1, <2>2 DEF Distinct, Elements
  <1> QED
    BY <1>1, <1>2, <1>3

-----------------------------------------------------------------------------
(* What a step may do.                                                     *)

\* The statements a step may have committed, and where they come from.
InsertsRow(j)  == req[j] = "idle" /\ req'[j] \in {"publish", "refused"} /\ CreateGenerationJob(j)
UndoesRow(j)   == req[j] = "undo" /\ req'[j] = "refused" /\ MarkGenerationFailed(j)
BeginsRow(w)   == /\ at[w] = "mark" /\ at'[w] \in {"synthesize", "idle"}
                  /\ MarkGenerationProcessing(job[w])
EndsRow(w)     == /\ at'[w] \notin {"complete", "fail"}
                  /\ \/ at[w] = "complete" /\ MarkGenerationCompleted(job[w])
                     \/ at[w] = "fail" /\ MarkGenerationFailed(job[w])

\* What a step may do to the rows.
LEMMA RowSteps ==
  ASSUME TypeOK, [Next]_vars
  PROVE  /\ stored \subseteq stored'
         /\ \/ UNCHANGED rows
            \/ \E j \in Jobs : InsertsRow(j) \/ UndoesRow(j)
            \/ UNCHANGED req /\ \E w \in Workers : BeginsRow(w) \/ EndsRow(w)
  <1>1. ASSUME UNCHANGED vars
        PROVE  stored \subseteq stored' /\ UNCHANGED rows
    BY <1>1 DEF vars, rows
  <1>2. ASSUME NEW j \in Jobs, Handle(j)
        PROVE  stored' = stored /\ (UNCHANGED rows \/ InsertsRow(j) \/ UndoesRow(j))
    <2>1. CASE Insert(j) \/ InsertFails(j)
      BY <2>1 DEF Insert, InsertFails, InsertsRow, TypeOK, rows
    <2>2. CASE Publish(j) \/ PublishFails(j) \/ Abandon(j)
      BY <2>2 DEF Publish, PublishFails, Abandon, rows
    <2>3. CASE Undo(j)
      BY <2>3 DEF Undo, UndoesRow, TypeOK, rows
    <2> QED
      BY <1>2, <2>1, <2>2, <2>3 DEF Handle
  <1>3. ASSUME NEW j \in Jobs, Poll(j)
        PROVE  stored \subseteq stored' /\ UNCHANGED rows
    BY <1>3 DEF Poll
  <1>4. ASSUME NEW w \in Workers, Subscribe(w) \/ Stop(w)
        PROVE  stored \subseteq stored' /\ UNCHANGED rows
    BY <1>4 DEF Subscribe, Stop
  <1>5. ASSUME NEW w \in Workers, HandleMessage(w)
        PROVE  /\ stored \subseteq stored' /\ UNCHANGED req
               /\ UNCHANGED rows \/ BeginsRow(w) \/ EndsRow(w)
    <2>1. CASE Take(w)
      BY <2>1 DEF Take
    <2>2. CASE MarkProcessing(w) \/ MarkProcessingFails(w)
      BY <2>2 DEF MarkProcessing, MarkProcessingFails, Goto, Return, BeginsRow, TypeOK
    <2>3. CASE CallModalTTS(w) \/ CallModalTTSFails(w) \/ Upload(w) \/ UploadFails(w) \/ PublishResult(w)
      BY <2>3 DEF CallModalTTS, CallModalTTSFails, Upload, UploadFails, PublishResult, Goto, Return
    <2>4. CASE Complete(w) \/ CompleteFails(w) \/ MarkFailed(w)
      BY <2>4 DEF Complete, CompleteFails, MarkFailed, Goto, Return, EndsRow, TypeOK
    <2> QED
      BY <1>5, <2>1, <2>2, <2>3, <2>4 DEF HandleMessage
  <1> QED
    BY <1>1, <1>2, <1>3, <1>4, <1>5 DEF Next

\* A worker's channel, its job and the jobs it took, when a step does not touch
\* them, when it ends its job or its process, and when a message arrives.
Stays(w) == /\ inbox'[w] = inbox[w] /\ taken'[w] = taken[w] /\ job'[w] = job[w]
            /\ Busy(w) <=> Busy(w)'
Ends(w) == /\ inbox'[w] \in {inbox[w], <<>>} /\ taken'[w] = taken[w]
           /\ job'[w] = NoJob /\ ~Busy(w)'
Receives(w, j) == /\ req[j] = "publish" /\ req'[j] \in {"accepted", "undo"}
                  /\ inbox'[w] = Append(inbox[w], j) /\ Len(inbox[w]) < QueueCap
                  /\ taken'[w] = taken[w] /\ job'[w] = job[w] /\ at'[w] = at[w]

\* What a step may do to a worker's channel and the jobs it took.
LEMMA ChannelSteps ==
  ASSUME TypeOK, [Next]_vars, NEW w \in Workers
  PROVE  \/ Stays(w) \/ Ends(w)
         \/ Take(w) /\ UNCHANGED req
         \/ \E j \in Jobs : Receives(w, j)
  <1> USE DEF TypeOK, Busy
  <1>1. ASSUME UNCHANGED worker PROVE Stays(w)
    BY <1>1 DEF Stays, worker
  <1>2. ASSUME UNCHANGED vars PROVE Stays(w)
    BY <1>1, <1>2 DEF vars, worker
  <1>3. ASSUME NEW j \in Jobs, Handle(j)
        PROVE  Stays(w) \/ Receives(w, j)
    <2>1. CASE Insert(j) \/ InsertFails(j) \/ Undo(j) \/ Abandon(j)
      BY <2>1, <1>1 DEF Insert, InsertFails, Undo, Abandon
    <2>2. ASSUME Deliver(j), UNCHANGED <<at, job, taken>>, req[j] = "publish",
                 req'[j] \in {"accepted", "undo"}
          PROVE  Stays(w) \/ Receives(w, j)
      <3>1. \/ inbox'[w] = inbox[w]
            \/ inbox'[w] = Append(inbox[w], j) /\ Len(inbox[w]) < QueueCap
        BY <2>2 DEF Deliver, Reached, Listening
      <3> QED
        BY <2>2, <3>1 DEF Stays, Receives
    <2>3. CASE Publish(j)
      BY <2>2, <2>3 DEF Publish
    <2>4. CASE PublishFails(j)
      <3>1. CASE UNCHANGED inbox
        BY <2>4, <3>1 DEF PublishFails, Stays
      <3>2. CASE Deliver(j)
        BY <2>2, <2>4, <3>2 DEF PublishFails
      <3> QED
        BY <2>4, <3>1, <3>2 DEF PublishFails
    <2> QED
      BY <1>3, <2>1, <2>3, <2>4 DEF Handle
  <1>4. ASSUME NEW j \in Jobs, Poll(j) PROVE Stays(w)
    BY <1>1, <1>4 DEF Poll
  <1>5. ASSUME NEW v \in Workers, Subscribe(v) \/ Stop(v) \/ HandleMessage(v)
        PROVE  Stays(w) \/ Ends(w) \/ (Take(w) /\ UNCHANGED req)
    <2>1. CASE Subscribe(v)
      BY <2>1 DEF Subscribe, Stays
    <2>2. CASE Stop(v)
      BY <2>2 DEF Stop, Stays, Ends
    <2>3. CASE Take(v)
      BY <2>3 DEF Take, Stays
    <2>4. ASSUME NEW from \in {"mark", "synthesize", "upload", "fail", "complete"},
                 NEW to \in {"synthesize", "upload", "fail", "complete", "announce", "announceFailure"},
                 Goto(v, from, to)
          PROVE  Stays(w)
      BY <2>4 DEF Goto, Stays
    <2>5. ASSUME NEW from \in {"mark", "complete", "announce", "announceFailure"}, Return(v, from)
          PROVE  Stays(w) \/ Ends(w)
      BY <2>5 DEF Return, Stays, Ends
    <2>6. CASE \/ MarkProcessing(v) \/ CallModalTTS(v) \/ CallModalTTSFails(v) \/ Upload(v)
               \/ UploadFails(v) \/ MarkFailed(v) \/ Complete(v)
      BY <2>4, <2>6 DEF MarkProcessing, CallModalTTS, CallModalTTSFails, Upload, UploadFails,
           MarkFailed, Complete
    <2>7. CASE MarkProcessingFails(v) \/ CompleteFails(v) \/ PublishResult(v)
      BY <2>5, <2>7 DEF MarkProcessingFails, CompleteFails, PublishResult
    <2> QED
      BY <1>5, <2>1, <2>2, <2>3, <2>6, <2>7 DEF HandleMessage
  <1> QED
    BY <1>2, <1>3, <1>4, <1>5 DEF Next

\* A request only ever goes forward.
LEMMA RequestSteps ==
  ASSUME TypeOK, [Next]_vars, NEW j \in Jobs
  PROVE  \/ req'[j] = req[j]
         \/ InsertsRow(j)
         \/ req[j] = "idle" /\ req'[j] = "refused" /\ UNCHANGED rows
         \/ req[j] = "publish" /\ req'[j] \in {"accepted", "undo", "refused"} /\ UNCHANGED rows
         \/ req[j] = "undo" /\ req'[j] = "refused"
  <1>1. ASSUME UNCHANGED vars PROVE req'[j] = req[j]
    BY <1>1 DEF vars
  <1>2. ASSUME NEW i \in Jobs, Handle(i), i # j PROVE req'[j] = req[j]
    BY <1>2 DEF Handle, Insert, InsertFails, Publish, PublishFails, Undo, Abandon, TypeOK
  <1>3. CASE Insert(j) \/ InsertFails(j)
    <2>1. req[j] = "idle" /\ req'[j] \in {"publish", "refused"}
      BY <1>3 DEF Insert, InsertFails, TypeOK
    <2>2. CreateGenerationJob(j) \/ (req'[j] = "refused" /\ UNCHANGED rows)
      BY <1>3 DEF Insert, InsertFails, TypeOK
    <2> QED
      BY <2>1, <2>2 DEF InsertsRow
  <1>4. CASE Publish(j) \/ PublishFails(j) \/ Abandon(j)
    BY <1>4 DEF Publish, PublishFails, Abandon, TypeOK, rows
  <1>5. CASE Undo(j)
    BY <1>5 DEF Undo, TypeOK
  <1>6. ASSUME NEW i \in Jobs, Poll(i) PROVE req'[j] = req[j]
    BY <1>6 DEF Poll
  <1>7. ASSUME NEW w \in Workers, Subscribe(w) \/ Stop(w) PROVE req'[j] = req[j]
    BY <1>7 DEF Subscribe, Stop
  <1>8. ASSUME NEW w \in Workers, HandleMessage(w) PROVE req'[j] = req[j]
    BY <1>8 DEF HandleMessage, Take, MarkProcessing, MarkProcessingFails, CallModalTTS,
         CallModalTTSFails, Upload, UploadFails, MarkFailed, Complete, CompleteFails,
         PublishResult, Goto, Return
  <1> QED
    BY <1>1, <1>2, <1>3, <1>4, <1>5, <1>6, <1>7, <1>8 DEF Next, Handle
-----------------------------------------------------------------------------
(* Types.                                                                  *)

\* The service starts with what it may hold.
LEMMA TypesInitial == Init => TypeOK
  BY DEF Init, TypeOK, Statuses, Terminal

\* Delivering keeps the channels' types and bounds.
LEMMA DeliverTypes ==
  ASSUME TypeOK, NEW j \in Jobs, Deliver(j)
  PROVE  /\ inbox' \in [Workers -> Seq(Jobs)]
         /\ \A w \in Workers : Len(inbox'[w]) <= QueueCap
  <1>1. PICK S \in Reached :
          inbox' = [w \in Workers |-> IF w \in S THEN Append(inbox[w], j) ELSE inbox[w]]
    BY DEF Deliver
  <1>2. S \subseteq Listening
    BY DEF Reached
  <1>3. ASSUME NEW w \in Workers
        PROVE  inbox'[w] \in Seq(Jobs) /\ Len(inbox'[w]) <= QueueCap
    <2>1. inbox[w] \in Seq(Jobs) /\ Len(inbox[w]) <= QueueCap /\ Len(inbox[w]) \in Nat
      BY DEF TypeOK
    <2>2. CASE w \in S
      <3>1. Len(inbox[w]) < QueueCap /\ inbox'[w] = Append(inbox[w], j)
        BY <1>1, <1>2, <2>2 DEF Listening
      <3> QED
        BY <2>1, <3>1, AppendFacts
    <2>3. CASE w \notin S
      BY <1>1, <2>1, <2>3
    <2> QED
      BY <2>2, <2>3
  <1> QED
    BY <1>1, <1>3

\* The four statements keep the columns' types.
LEMMA StatementTypes ==
  ASSUME TypeOK, NEW j \in Jobs,
         \/ CreateGenerationJob(j) \/ MarkGenerationProcessing(j)
         \/ MarkGenerationCompleted(j) \/ MarkGenerationFailed(j)
         \/ UNCHANGED rows
  PROVE  row' \in [Jobs -> {"none"} \cup Statuses] /\ key' \in [Jobs -> BOOLEAN]
  <1>1. row' \in [Jobs -> {"none"} \cup Statuses]
    BY DEF TypeOK, Statuses, Terminal, CreateGenerationJob, MarkGenerationProcessing,
         MarkGenerationCompleted, MarkGenerationFailed, rows
  <1>2. key' = key \/ key' = [key EXCEPT ![j] = @ \/ row[j] # "none"]
    BY DEF CreateGenerationJob, MarkGenerationProcessing, MarkGenerationCompleted,
         MarkGenerationFailed, rows
  <1>3. key \in [Jobs -> BOOLEAN] /\ (key[j] \/ row[j] # "none") \in BOOLEAN
    BY DEF TypeOK
  <1> QED
    BY <1>1, <1>2, <1>3

\* Every step keeps the types.
LEMMA TypesKept ==
  ASSUME IInv, [Next]_vars
  PROVE  TypeOK'
  <1>0. TypeOK
    BY DEF IInv
  <1> USE DEF TypeOK, Statuses, Terminal
  <1>1. CASE UNCHANGED vars
    BY <1>0, <1>1 DEF vars
  <1>2. ASSUME NEW j \in Jobs, Insert(j) \/ InsertFails(j) \/ Undo(j) \/ Abandon(j)
        PROVE  TypeOK'
    <2>1. CreateGenerationJob(j) \/ MarkGenerationFailed(j) \/ UNCHANGED rows
      BY <1>2 DEF Insert, InsertFails, Undo, Abandon
    <2>2. \/ req' = [req EXCEPT ![j] = "publish"]
          \/ req' = [req EXCEPT ![j] = "refused"]
      BY <1>2 DEF Insert, InsertFails, Undo, Abandon
    <2>3. UNCHANGED <<stored, worker, results, seen>>
      BY <1>2 DEF Insert, InsertFails, Undo, Abandon
    <2> QED
      BY <1>0, <2>1, <2>2, <2>3, StatementTypes DEF worker
  <1>3. ASSUME NEW j \in Jobs, Publish(j) \/ PublishFails(j)
        PROVE  TypeOK'
    <2>1. UNCHANGED inbox \/ Deliver(j)
      BY <1>3 DEF Publish, PublishFails
    <2>2. /\ inbox' \in [Workers -> Seq(Jobs)]
          /\ \A w \in Workers : Len(inbox'[w]) <= QueueCap
      BY <1>0, <2>1, DeliverTypes
    <2>3. /\ req' \in [Jobs -> {"idle", "publish", "undo", "accepted", "refused"}]
          /\ UNCHANGED <<row, key, stored, at, job, taken, results, seen>>
      BY <1>0, <1>3 DEF Publish, PublishFails, rows
    <2> QED
      BY <1>0, <2>2, <2>3
  <1>4. ASSUME NEW j \in Jobs, Poll(j)
        PROVE  TypeOK'
    <2>1. row[j] \in Statuses
      BY <1>0, <1>4 DEF Poll, IInv, RequestInv
    <2> QED
      BY <1>0, <1>4, <2>1 DEF Poll, rows, worker
  <1>5. ASSUME NEW w \in Workers, Subscribe(w)
        PROVE  TypeOK'
    BY <1>0, <1>5 DEF Subscribe, rows
  <1>6. ASSUME NEW w \in Workers, Stop(w)
        PROVE  TypeOK'
    <2>1. <<>> \in Seq(Jobs) /\ Len(<<>>) <= QueueCap
      OBVIOUS
    <2>2. /\ inbox' \in [Workers -> Seq(Jobs)]
          /\ \A v \in Workers : Len(inbox'[v]) <= QueueCap
      BY <1>0, <1>6, <2>1 DEF Stop
    <2>3. /\ at' = [at EXCEPT ![w] = "down"] /\ job' = [job EXCEPT ![w] = NoJob]
          /\ UNCHANGED <<row, key, stored, req, taken, results, seen>>
      BY <1>6 DEF Stop, rows
    <2> QED
      BY <1>0, <2>2, <2>3
  <1>7. ASSUME NEW w \in Workers, Take(w)
        PROVE  TypeOK'
    <2>1. inbox[w] \in Seq(Jobs) /\ inbox[w] # <<>> /\ Len(inbox[w]) <= QueueCap
      BY <1>0, <1>7 DEF Take
    <2>2. /\ Head(inbox[w]) \in Jobs /\ Tail(inbox[w]) \in Seq(Jobs)
          /\ Len(Tail(inbox[w])) <= QueueCap
      <3>1. Len(inbox[w]) \in Nat /\ Len(Tail(inbox[w])) \in Nat
        BY <2>1, TailFacts
      <3> QED
        BY <2>1, <3>1, TailFacts
    <2>3. /\ inbox' \in [Workers -> Seq(Jobs)]
          /\ \A v \in Workers : Len(inbox'[v]) <= QueueCap
      BY <1>0, <1>7, <2>2 DEF Take
    <2>4. /\ job' \in [Workers -> Jobs \cup {NoJob}] /\ taken' \in [Workers -> SUBSET Jobs]
          /\ at' = [at EXCEPT ![w] = "mark"]
          /\ UNCHANGED <<row, key, stored, req, results, seen>>
      BY <1>0, <1>7, <2>2 DEF Take, rows
    <2> QED
      BY <1>0, <2>3, <2>4
  <1>8. ASSUME NEW w \in Workers, Busy(w), HandleMessage(w)
        PROVE  TypeOK'
    <2>0. job[w] \in Jobs
      BY <1>0, <1>8 DEF IInv, DeliveryInv
    <2>1. CASE MarkProcessing(w) \/ MarkProcessingFails(w)
      <3>1. MarkGenerationProcessing(job[w]) \/ UNCHANGED rows
        BY <2>1 DEF MarkProcessing, MarkProcessingFails
      <3>2. Goto(w, "mark", "synthesize") \/ Return(w, "mark")
        BY <2>1 DEF MarkProcessing, MarkProcessingFails
      <3>3. UNCHANGED <<stored, results>>
        BY <2>1 DEF MarkProcessing, MarkProcessingFails
      <3> QED
        BY <1>0, <2>0, <3>1, <3>2, <3>3, StatementTypes DEF Goto, Return
    <2>2. CASE CallModalTTS(w) \/ CallModalTTSFails(w)
      BY <1>0, <2>2 DEF CallModalTTS, CallModalTTSFails, Goto, rows
    <2>3. CASE Upload(w) \/ UploadFails(w)
      BY <1>0, <2>0, <2>3 DEF Upload, UploadFails, Goto, rows
    <2>4. CASE Complete(w) \/ CompleteFails(w)
      <3>1. MarkGenerationCompleted(job[w]) \/ UNCHANGED rows
        BY <2>4 DEF Complete, CompleteFails
      <3>2. Goto(w, "complete", "announce") \/ Return(w, "complete")
        BY <2>4 DEF Complete, CompleteFails
      <3>3. UNCHANGED <<stored, results>>
        BY <2>4 DEF Complete, CompleteFails
      <3> QED
        BY <1>0, <2>0, <3>1, <3>2, <3>3, StatementTypes DEF Goto, Return
    <2>5. CASE MarkFailed(w)
      <3>1. MarkGenerationFailed(job[w]) \/ UNCHANGED rows
        BY <2>5 DEF MarkFailed
      <3>2. Goto(w, "fail", "announceFailure") /\ UNCHANGED <<stored, results>>
        BY <2>5 DEF MarkFailed
      <3> QED
        BY <1>0, <2>0, <3>1, <3>2, StatementTypes DEF Goto
    <2>6. CASE PublishResult(w)
      BY <1>0, <2>0, <2>6 DEF PublishResult, Return, rows
    <2>7. ~Take(w)
      BY <1>8 DEF Take, Busy
    <2> QED
      BY <1>8, <2>1, <2>2, <2>3, <2>4, <2>5, <2>6, <2>7 DEF HandleMessage
  <1>9. ASSUME NEW w \in Workers, ~Busy(w), HandleMessage(w)
        PROVE  Take(w)
    BY <1>9 DEF Busy, HandleMessage, MarkProcessing, MarkProcessingFails, CallModalTTS,
         CallModalTTSFails, Upload, UploadFails, MarkFailed, Complete, CompleteFails,
         PublishResult, Goto, Return
  <1> QED
    BY <1>1, <1>2, <1>3, <1>4, <1>5, <1>6, <1>7, <1>8, <1>9 DEF Next, Handle

-----------------------------------------------------------------------------
(* Rows, audio and events.                                                 *)

USE DEF TypeOK, Statuses, Terminal

\* Rows stay, and object keys stay, and nothing but its request makes a row.
LEMMA RowsPersist ==
  ASSUME IInv, [Next]_vars, NEW j \in Jobs
  PROVE  /\ row[j] # "none" => row'[j] # "none"
         /\ key[j] => key'[j]
         /\ row[j] = "none" => (row'[j] = "none" /\ key'[j] = key[j]) \/ InsertsRow(j)
  <1>0. TypeOK
    BY DEF IInv
  <1>1. CASE UNCHANGED rows
    BY <1>1 DEF rows
  <1>2. ASSUME NEW i \in Jobs, InsertsRow(i)
        PROVE  /\ row[j] # "none" => row'[j] # "none"
               /\ key'[j] = key[j]
               /\ row[j] = "none" => row'[j] = "none" \/ InsertsRow(j)
    BY <1>0, <1>2 DEF InsertsRow, CreateGenerationJob
  <1>3. ASSUME NEW i \in Jobs, MarkGenerationProcessing(i) \/ MarkGenerationFailed(i)
        PROVE  (row[j] = "none" <=> row'[j] = "none") /\ key'[j] = key[j]
    BY <1>0, <1>3 DEF MarkGenerationProcessing, MarkGenerationFailed
  <1>4. ASSUME NEW i \in Jobs, MarkGenerationCompleted(i)
        PROVE  /\ row[j] = "none" <=> row'[j] = "none"
               /\ key[j] => key'[j]
               /\ row[j] = "none" => key'[j] = key[j]
    <2>1. row[j] = "none" <=> row'[j] = "none"
      BY <1>0, <1>4 DEF MarkGenerationCompleted
    <2>2. CASE i = j
      BY <1>0, <1>4, <2>1, <2>2 DEF MarkGenerationCompleted
    <2>3. CASE i # j
      BY <1>0, <1>4, <2>1, <2>3 DEF MarkGenerationCompleted
    <2> QED
      BY <2>2, <2>3, <2>1
  <1>5. \A w \in Workers : BeginsRow(w) \/ EndsRow(w) => job[w] \in Jobs
    BY <1>0 DEF BeginsRow, EndsRow, IInv, DeliveryInv, Busy
  <1> QED
    BY <1>0, <1>1, <1>2, <1>3, <1>4, <1>5, RowSteps DEF UndoesRow, BeginsRow, EndsRow

\* Every step keeps CompletedHasAudio.
LEMMA AudioKept ==
  ASSUME IInv, [Next]_vars
  PROVE  CompletedHasAudio'
  <1>0. TypeOK /\ CompletedHasAudio /\ stored \subseteq stored'
    BY RowSteps DEF IInv
  <1>1. CASE UNCHANGED rows
    BY <1>0, <1>1 DEF CompletedHasAudio, rows
  <1>2. ASSUME NEW j \in Jobs, InsertsRow(j) \/ UndoesRow(j)
        PROVE  CompletedHasAudio'
    BY <1>0, <1>2 DEF CompletedHasAudio, InsertsRow, UndoesRow, CreateGenerationJob,
         MarkGenerationFailed
  <1>3. ASSUME NEW w \in Workers, BeginsRow(w) \/ EndsRow(w)
        PROVE  CompletedHasAudio'
    <2>0. job[w] \in Jobs
      BY <1>3 DEF BeginsRow, EndsRow, IInv, DeliveryInv, Busy
    <2>1. CASE BeginsRow(w)
      BY <1>0, <2>0, <2>1 DEF CompletedHasAudio, BeginsRow, MarkGenerationProcessing
    <2>2. CASE at[w] = "fail" /\ MarkGenerationFailed(job[w])
      BY <1>0, <2>0, <2>2 DEF CompletedHasAudio, MarkGenerationFailed
    <2>3. CASE at[w] = "complete" /\ MarkGenerationCompleted(job[w])
      <3>1. job[w] \in stored
        BY <2>3 DEF IInv, ProgressInv
      <3>2. \A j \in Jobs : j # job[w] => row'[j] = row[j] /\ key'[j] = key[j]
        BY <1>0, <2>0, <2>3 DEF MarkGenerationCompleted
      <3>3. row'[job[w]] = "completed" => key'[job[w]]
        BY <1>0, <2>0, <2>3 DEF MarkGenerationCompleted, CompletedHasAudio
      <3> QED
        BY <1>0, <3>1, <3>2, <3>3 DEF CompletedHasAudio
    <2> QED
      BY <1>3, <2>1, <2>2, <2>3 DEF EndsRow
  <1> QED
    BY <1>0, <1>1, <1>2, <1>3, RowSteps

\* An event comes from a worker that announces the completion.
LEMMA EventSteps ==
  ASSUME [Next]_vars, NEW j, <<j, "completed">> \in results'
  PROVE  \/ <<j, "completed">> \in results
         \/ \E w \in Workers : at[w] = "announce" /\ job[w] = j
  <1>1. CASE UNCHANGED results
    BY <1>1
  <1>2. ASSUME NEW w \in Workers, PublishResult(w)
        PROVE  <<j, "completed">> \in results \/ (at[w] = "announce" /\ job[w] = j)
    BY <1>2 DEF PublishResult, Return
  <1>3. ASSUME NEW i \in Jobs, Handle(i) \/ Poll(i) PROVE UNCHANGED results
    BY <1>3 DEF Handle, Insert, InsertFails, Publish, PublishFails, Undo, Abandon, Poll
  <1>4. ASSUME NEW w \in Workers, Subscribe(w) \/ Stop(w) PROVE UNCHANGED results
    BY <1>4 DEF Subscribe, Stop
  <1>5. ASSUME NEW w \in Workers, HandleMessage(w), ~PublishResult(w) PROVE UNCHANGED results
    BY <1>5 DEF HandleMessage, Take, MarkProcessing, MarkProcessingFails, CallModalTTS,
         CallModalTTSFails, Upload, UploadFails, MarkFailed, Complete, CompleteFails
  <1> QED
    BY <1>1, <1>2, <1>3, <1>4, <1>5 DEF Next, vars

\* Every step keeps EventAfterRow.
LEMMA EventsKept ==
  ASSUME IInv, [Next]_vars
  PROVE  EventAfterRow'
  <1> SUFFICES ASSUME NEW j \in Jobs, <<j, "completed">> \in results'
               PROVE  key'[j]
    BY DEF EventAfterRow
  <1>1. key[j]
    BY EventSteps DEF IInv, EventAfterRow, ProgressInv
  <1> QED
    BY <1>1, RowsPersist

-----------------------------------------------------------------------------
(* Requests and deliveries.                                                *)

\* The row of a job that is not published yet is its request's alone.
LEMMA UnpublishedRow ==
  ASSUME IInv, [Next]_vars, NEW j \in Jobs, req[j] = "publish", req'[j] = "publish"
  PROVE  row'[j] = row[j] /\ key'[j] = key[j]
  <1>0. TypeOK
    BY DEF IInv
  <1>1. CASE UNCHANGED rows
    BY <1>1 DEF rows
  <1>2. ASSUME NEW i \in Jobs, InsertsRow(i) \/ UndoesRow(i)
        PROVE  row'[j] = row[j] /\ key'[j] = key[j]
    BY <1>0, <1>2 DEF InsertsRow, UndoesRow, CreateGenerationJob, MarkGenerationFailed
  <1>3. ASSUME NEW w \in Workers, BeginsRow(w) \/ EndsRow(w)
        PROVE  row'[j] = row[j] /\ key'[j] = key[j]
    <2>1. job[w] \in Jobs /\ job[w] # j
      BY <1>0, <1>3 DEF BeginsRow, EndsRow, IInv, DeliveryInv, Busy
    <2> QED
      BY <1>0, <1>3, <2>1 DEF BeginsRow, EndsRow, MarkGenerationProcessing,
           MarkGenerationCompleted, MarkGenerationFailed
  <1> QED
    BY <1>0, <1>1, <1>2, <1>3, RowSteps

\* Every step keeps RequestInv.
LEMMA RequestsKept ==
  ASSUME IInv, [Next]_vars
  PROVE  RequestInv'
  <1> SUFFICES ASSUME NEW j \in Jobs
               PROVE  /\ req'[j] = "idle" => row'[j] = "none" /\ ~key'[j]
                      /\ req'[j] = "publish" => row'[j] = "queued" /\ ~key'[j]
                      /\ req'[j] \in {"undo", "accepted"} => row'[j] # "none"
    BY DEF RequestInv
  <1>0. /\ TypeOK
        /\ req[j] = "idle" => row[j] = "none" /\ ~key[j]
        /\ req[j] = "publish" => row[j] = "queued" /\ ~key[j]
        /\ req[j] \in {"undo", "accepted"} => row[j] # "none"
    BY DEF IInv, RequestInv
  <1>1. CASE req'[j] = req[j]
    <2>1. CASE req[j] = "idle"
      <3>1. ~InsertsRow(j)
        BY <1>1, <2>1 DEF InsertsRow
      <3> QED
        BY <1>0, <1>1, <2>1, <3>1, RowsPersist
    <2>2. CASE req[j] = "publish"
      BY <1>0, <1>1, <2>2, UnpublishedRow
    <2>3. CASE req[j] \in {"undo", "accepted", "refused"}
      BY <1>0, <1>1, <2>3, RowsPersist
    <2> QED
      BY <1>0, <2>1, <2>2, <2>3
  <1>2. CASE InsertsRow(j)
    BY <1>0, <1>2 DEF InsertsRow, CreateGenerationJob
  <1>3. CASE req[j] = "publish" /\ req'[j] \in {"accepted", "undo", "refused"} /\ UNCHANGED rows
    BY <1>0, <1>3 DEF rows
  <1>4. CASE req'[j] = "refused"
    BY <1>4
  <1> QED
    BY <1>0, <1>1, <1>2, <1>3, <1>4, RequestSteps

\* Every step keeps DeliveryInv.
LEMMA DeliveriesKept ==
  ASSUME IInv, [Next]_vars
  PROVE  DeliveryInv' /\ RowBeforeMessage'
  <1>0. TypeOK
    BY DEF IInv
  <1>a. \A s : Elements(s) = {s[i] : i \in DOMAIN s}
    BY DEF Elements
  <1>b. \A w \in Workers : Messages(w) = Elements(inbox[w]) /\ Messages(w)' = Elements(inbox'[w])
    BY DEF Messages, Elements
  <1>c. \A j \in Jobs : req[j] \notin {"idle", "publish"} => req'[j] \notin {"idle", "publish"}
    BY <1>0, RequestSteps DEF InsertsRow
  <1>d. Elements(<<>>) = {} /\ Distinct(<<>>)
    BY DEF Elements, Distinct
  <1> SUFFICES
        ASSUME NEW w \in Workers
        PROVE  /\ \A j \in Elements(inbox'[w]) \cup taken'[w] : req'[j] \notin {"idle", "publish"}
               /\ Elements(inbox'[w]) \cap taken'[w] = {}
               /\ Distinct(inbox'[w])
               /\ IF Busy(w)' THEN job'[w] \in taken'[w] ELSE job'[w] = NoJob
               /\ \A j \in Elements(inbox'[w]) : row'[j] # "none"
               /\ job'[w] # NoJob => row'[job'[w]] # "none"
    BY <1>b DEF DeliveryInv, RowBeforeMessage, Distinct
  <1>1. /\ \A j \in Elements(inbox[w]) \cup taken[w] : req[j] \notin {"idle", "publish"}
        /\ Elements(inbox[w]) \cap taken[w] = {}
        /\ Distinct(inbox[w])
        /\ IF Busy(w) THEN job[w] \in taken[w] ELSE job[w] = NoJob
        /\ \A j \in Elements(inbox[w]) : row[j] # "none"
        /\ job[w] # NoJob => row[job[w]] # "none"
    BY <1>b DEF IInv, DeliveryInv, RowBeforeMessage, Distinct
  <1>2. /\ inbox[w] \in Seq(Jobs) /\ Elements(inbox[w]) \subseteq Jobs
        /\ taken[w] \subseteq Jobs /\ job[w] \in Jobs \cup {NoJob}
    BY <1>0 DEF Elements
  <1>3. \A j \in Jobs : row[j] # "none" => row'[j] # "none"
    BY RowsPersist
  <1>4. CASE Stays(w)
    BY <1>1, <1>2, <1>3, <1>4, <1>c DEF Stays
  <1>5. CASE Ends(w)
    BY <1>1, <1>2, <1>3, <1>5, <1>c, <1>d DEF Ends
  <1>6. CASE Take(w) /\ UNCHANGED req
    <2>1. /\ inbox[w] # <<>> /\ job'[w] = Head(inbox[w]) /\ inbox'[w] = Tail(inbox[w])
          /\ taken'[w] = taken[w] \cup {Head(inbox[w])} /\ at'[w] = "mark"
      BY <1>0, <1>6 DEF Take
    <2>2. Busy(w)'
      BY <2>1 DEF Busy
    <2>3. /\ Head(inbox[w]) \in Elements(inbox[w])
          /\ Elements(Tail(inbox[w])) \subseteq Elements(inbox[w])
          /\ Distinct(Tail(inbox[w])) /\ Head(inbox[w]) \notin Elements(Tail(inbox[w]))
      BY <1>1, <1>2, <2>1, TailFacts
    <2> QED
      BY <1>1, <1>2, <1>3, <1>c, <2>1, <2>2, <2>3
  <1>7. ASSUME NEW j \in Jobs, Receives(w, j)
        PROVE  /\ \A i \in Elements(inbox'[w]) \cup taken'[w] : req'[i] \notin {"idle", "publish"}
               /\ Elements(inbox'[w]) \cap taken'[w] = {}
               /\ Distinct(inbox'[w])
               /\ IF Busy(w)' THEN job'[w] \in taken'[w] ELSE job'[w] = NoJob
               /\ \A i \in Elements(inbox'[w]) : row'[i] # "none"
               /\ job'[w] # NoJob => row'[job'[w]] # "none"
    <2>1. j \notin Elements(inbox[w]) \cup taken[w]
      BY <1>1, <1>7 DEF Receives
    <2>2. Elements(inbox'[w]) = Elements(inbox[w]) \cup {j} /\ Distinct(inbox'[w])
      BY <1>1, <1>2, <1>7, <2>1, AppendFacts DEF Receives
    <2>3. row'[j] # "none"
      BY <1>3, <1>7 DEF Receives, IInv, RequestInv
    <2>4. Busy(w) <=> Busy(w)'
      BY <1>7 DEF Receives, Busy
    <2>5. taken'[w] = taken[w] /\ job'[w] = job[w] /\ req'[j] \notin {"idle", "publish"}
      BY <1>7 DEF Receives
    <2> QED
      BY <1>1, <1>2, <1>3, <1>c, <2>1, <2>2, <2>3, <2>4, <2>5
  <1> QED
    BY <1>0, <1>4, <1>5, <1>6, <1>7, ChannelSteps

-----------------------------------------------------------------------------
(* The progress of a worker.                                               *)

\* From where to where a step moves a worker.
LEMMA PlaceSteps ==
  ASSUME TypeOK, [Next]_vars, NEW w \in Workers
  PROVE  \/ at'[w] = at[w] /\ job'[w] = job[w]
         \/ at'[w] \in {"down", "idle"}
         \/ HandleMessage(w)
  <1>1. CASE UNCHANGED vars
    BY <1>1 DEF vars
  <1>2. ASSUME NEW j \in Jobs, Handle(j) \/ Poll(j) PROVE UNCHANGED <<at, job>>
    BY <1>2 DEF Handle, Insert, InsertFails, Publish, PublishFails, Undo, Abandon, Poll, worker
  <1>3. ASSUME NEW v \in Workers, Subscribe(v) \/ Stop(v)
        PROVE  (at'[w] = at[w] /\ job'[w] = job[w]) \/ at'[w] \in {"down", "idle"}
    BY <1>3 DEF Subscribe, Stop
  <1>4. ASSUME NEW v \in Workers, HandleMessage(v), v # w
        PROVE  at'[w] = at[w] /\ job'[w] = job[w]
    BY <1>4 DEF HandleMessage, Take, MarkProcessing, MarkProcessingFails, CallModalTTS,
         CallModalTTSFails, Upload, UploadFails, MarkFailed, Complete, CompleteFails,
         PublishResult, Goto, Return
  <1> QED
    BY <1>1, <1>2, <1>3, <1>4 DEF Next

\* Every step keeps ProgressInv.
LEMMA ProgressKept ==
  ASSUME IInv, [Next]_vars
  PROVE  ProgressInv'
  <1>0. TypeOK /\ stored \subseteq stored'
    BY RowSteps DEF IInv
  <1> SUFFICES ASSUME NEW w \in Workers
               PROVE  /\ at'[w] = "complete" => job'[w] \in stored'
                      /\ at'[w] = "announce" => key'[job'[w]]
    BY DEF ProgressInv
  <1>1. /\ at[w] = "complete" => job[w] \in stored
        /\ at[w] = "announce" => key[job[w]]
        /\ Busy(w) => job[w] \in Jobs /\ row[job[w]] # "none"
    BY <1>0 DEF IInv, ProgressInv, DeliveryInv, RowBeforeMessage
  <1>2. CASE at'[w] = at[w] /\ job'[w] = job[w]
    BY <1>0, <1>1, <1>2, RowsPersist DEF Busy
  <1>3. CASE at'[w] \in {"down", "idle"}
    BY <1>3
  <1>4. CASE HandleMessage(w)
    <2>1. CASE Upload(w)
      BY <1>0, <2>1 DEF Upload, Goto
    <2>2. CASE Complete(w)
      <3>1. at[w] = "complete" /\ at'[w] = "announce" /\ job'[w] = job[w]
        BY <1>0, <2>2 DEF Complete, Goto
      <3>2. key' = [key EXCEPT ![job[w]] = @ \/ row[job[w]] # "none"]
        BY <2>2 DEF Complete, MarkGenerationCompleted
      <3>3. job[w] \in Jobs /\ row[job[w]] # "none"
        BY <1>1, <3>1 DEF Busy
      <3> QED
        BY <1>0, <3>1, <3>2, <3>3
    <2>3. CASE ~Upload(w) /\ ~Complete(w)
      <3>1. at'[w] \notin {"complete", "announce"}
        BY <1>0, <1>4, <2>3 DEF HandleMessage, Take, MarkProcessing, MarkProcessingFails,
             CallModalTTS, CallModalTTSFails, UploadFails, MarkFailed, CompleteFails,
             PublishResult, Goto, Return
      <3> QED
        BY <3>1
    <2> QED
      BY <2>1, <2>2, <2>3
  <1> QED
    BY <1>0, <1>2, <1>3, <1>4, PlaceSteps

-----------------------------------------------------------------------------
(* Theorems.                                                               *)

\* The strengthened invariant is inductive.
THEOREM Inductive == Spec => []IInv
  <1>1. Init => IInv
    <2>1. ASSUME Init PROVE DeliveryInv /\ RowBeforeMessage
      <3>1. \A w \in Workers : inbox[w] = <<>> /\ Messages(w) = {}
        BY <2>1 DEF Init, Messages
      <3> QED
        BY <2>1, <3>1 DEF Init, DeliveryInv, RowBeforeMessage, Busy
    <2> QED
      BY <2>1, TypesInitial DEF Init, IInv, CompletedHasAudio, EventAfterRow, RequestInv, ProgressInv
  <1>2. IInv /\ [Next]_vars => IInv'
    BY TypesKept, AudioKept, EventsKept, RequestsKept, DeliveriesKept, ProgressKept DEF IInv
  <1> QED
    BY <1>1, <1>2, PTL DEF Spec

\* Every variable keeps its type, and no channel exceeds its buffer.
THEOREM TypeCorrect == Spec => []TypeOK
  BY Inductive, PTL DEF IInv

\* A row that names an audio object names one that is in the bucket, and a
\* completed row names one (worker.go:136-154).
THEOREM AudioHolds == Spec => []CompletedHasAudio
  BY Inductive, PTL DEF IInv

\* A "completed" event is never published before its row (worker.go:151-159).
THEOREM EventsHold == Spec => []EventAfterRow
  BY Inductive, PTL DEF IInv

\* No worker ever handles a job that has no row (server.go:179-215).
THEOREM RowsFirst == Spec => []RowBeforeMessage
  BY Inductive, PTL DEF IInv

\* No replica ever takes a job twice, crashes and reconnections included.
THEOREM TakenOnce == Spec => OncePerReplica
  <1>1. ASSUME IInv, [Next]_vars, NEW w \in Workers, at[w] = "idle", at'[w] = "mark"
        PROVE  job'[w] \notin taken[w]
    <2>1. TypeOK /\ inbox[w] \in Seq(Jobs)
      BY <1>1 DEF IInv
    <2>2. Take(w)
      <3>1. ~Stays(w) /\ ~Ends(w) /\ \A j \in Jobs : ~Receives(w, j)
        BY <1>1 DEF Stays, Ends, Receives, Busy
      <3> QED
        BY <1>1, <2>1, <3>1, ChannelSteps
    <2>3. inbox[w] # <<>> /\ job'[w] = Head(inbox[w])
      BY <2>1, <2>2 DEF Take
    <2>4. Head(inbox[w]) \in Messages(w)
      BY <2>1, <2>3, TailFacts DEF Elements, Messages
    <2> QED
      BY <1>1, <2>3, <2>4 DEF IInv, DeliveryInv
  <1>2. IInv /\ [Next]_vars =>
          [\A w \in Workers : at[w] = "idle" /\ at'[w] = "mark" => job'[w] \notin taken[w]]_vars
    BY <1>1
  <1> QED
    BY <1>2, Inductive, PTL DEF Spec, OncePerReplica

\* A row that ended never reads queued or processing again (generation.sql:45).
THEOREM EndedStaysEnded == Spec => NeverReopened
  <1>1. ASSUME IInv, [Next]_vars, NEW j \in Jobs, row[j] \in Terminal
        PROVE  row'[j] \in Terminal
    <2>0. TypeOK
      BY <1>1 DEF IInv
    <2>1. CASE UNCHANGED rows
      BY <1>1, <2>1 DEF rows
    <2>2. ASSUME NEW i \in Jobs, InsertsRow(i) \/ UndoesRow(i)
          PROVE  row'[j] \in Terminal
      <3>1. CASE InsertsRow(i)
        BY <1>1, <2>0, <3>1 DEF InsertsRow, CreateGenerationJob, IInv, RequestInv
      <3>2. CASE UndoesRow(i)
        BY <1>1, <2>0, <3>2 DEF UndoesRow, MarkGenerationFailed
      <3> QED
        BY <2>2, <3>1, <3>2
    <2>3. ASSUME NEW w \in Workers, BeginsRow(w) \/ EndsRow(w)
          PROVE  row'[j] \in Terminal
      BY <1>1, <2>0, <2>3 DEF BeginsRow, EndsRow, MarkGenerationProcessing,
           MarkGenerationCompleted, MarkGenerationFailed
    <2> QED
      BY <1>1, <2>0, <2>1, <2>2, <2>3, RowSteps
  <1>2. IInv /\ [Next]_vars => [\A j \in Jobs : row[j] \in Terminal => row'[j] \in Terminal]_vars
    BY <1>1
  <1> QED
    BY <1>2, Inductive, PTL DEF Spec, NeverReopened

-----------------------------------------------------------------------------
(* One replica: the row of an accepted job follows its worker.             *)

\* A job becomes accepted by its PUBLISH alone, and stays so.
LEMMA AcceptedSteps ==
  ASSUME IInv, [Next]_vars, NEW j \in Jobs
  PROVE  /\ Accepted(j) => Accepted(j)'
         /\ Accepted(j)' /\ ~Accepted(j) => /\ req[j] = "publish"
                                            /\ UNCHANGED rows /\ Waiting(j) /\ Waiting(j)'
  <1>1. TypeOK /\ (req[j] = "publish" => Waiting(j))
    BY DEF IInv, RequestInv, Waiting
  <1>2. Waiting(j) /\ UNCHANGED rows => Waiting(j)'
    BY DEF Waiting, rows
  <1> QED
    BY <1>1, <1>2, RequestSteps DEF Accepted, InsertsRow

\* A job is requested once, so one delivery of it to the only replica follows.
LEMMA OneRequest ==
  ASSUME TypeOK, [Next]_vars, NEW i \in Jobs, NEW j \in Jobs,
         req'[i] # req[i], req'[j] # req[j]
  PROVE  i = j
  <1>1. CASE UNCHANGED req
    BY <1>1
  <1>2. ASSUME NEW k \in Jobs, Handle(k) PROVE i = j
    BY <1>2 DEF Handle, Insert, InsertFails, Publish, PublishFails, Undo, Abandon
  <1>3. ASSUME NEW k \in Jobs, Poll(k) PROVE UNCHANGED req
    BY <1>3 DEF Poll
  <1>4. ASSUME NEW w \in Workers, Subscribe(w) \/ HandleMessage(w) \/ Stop(w) PROVE UNCHANGED req
    BY <1>4 DEF Subscribe, Stop, HandleMessage, Take, MarkProcessing, MarkProcessingFails,
         CallModalTTS, CallModalTTSFails, Upload, UploadFails, MarkFailed, Complete,
         CompleteFails, PublishResult, Goto, Return
  <1> QED
    BY <1>1, <1>2, <1>3, <1>4 DEF Next, vars

RowStays(j)  == row'[j] = row[j] /\ key'[j] = key[j]
Begins(j)    == Waiting(j) /\ row'[j] = "processing" /\ ~key'[j]
EndsWell(j)  == UnderWay(j) /\ row'[j] = "completed" /\ key'[j]
EndsBadly(j) == UnderWay(j) /\ row'[j] = "failed" /\ ~key'[j]

\* The statements of a worker change the row of its job along the lifecycle.
LEMMA StatementSteps ==
  ASSUME IInv, FollowInv, NEW w \in Workers, Accepted(job[w]), BeginsRow(w) \/ EndsRow(w)
  PROVE  /\ job[w] \in Jobs /\ job[w] \in taken[w]
         /\ Begins(job[w]) \/ EndsWell(job[w]) \/ EndsBadly(job[w])
         /\ \A j \in Jobs \ {job[w]} : RowStays(j)
  <1>1. /\ TypeOK /\ job[w] \in taken[w] /\ job[w] \in Jobs
        /\ at[w] = "mark" => Waiting(job[w])
        /\ at[w] \in {"complete", "fail"} => UnderWay(job[w])
    BY DEF IInv, DeliveryInv, FollowInv, Busy, BeginsRow, EndsRow
  <1>2. \A j \in Jobs \ {job[w]} : RowStays(j)
    BY <1>1 DEF RowStays, BeginsRow, EndsRow, MarkGenerationProcessing,
         MarkGenerationCompleted, MarkGenerationFailed
  <1>3. CASE BeginsRow(w)
    <2>1. row'[job[w]] = "processing" /\ key'[job[w]] = key[job[w]] /\ Waiting(job[w])
      BY <1>1, <1>3 DEF BeginsRow, MarkGenerationProcessing, Waiting
    <2>2. Begins(job[w])
      BY <2>1 DEF Begins, Waiting
    <2> QED
      BY <1>1, <1>2, <2>2
  <1>4. CASE at[w] = "complete" /\ MarkGenerationCompleted(job[w])
    BY <1>1, <1>2, <1>4 DEF MarkGenerationCompleted, EndsWell, UnderWay
  <1>5. CASE at[w] = "fail" /\ MarkGenerationFailed(job[w])
    BY <1>1, <1>2, <1>5 DEF MarkGenerationFailed, EndsBadly, UnderWay
  <1> QED
    BY <1>3, <1>4, <1>5 DEF EndsRow

\* The row of an accepted job changes by the worker that handles it, if at all.
LEMMA AcceptedRow ==
  ASSUME IInv, FollowInv, [Next]_vars, NEW j \in Jobs, Accepted(j)
  PROVE  \/ RowStays(j)
         \/ /\ Begins(j) \/ EndsWell(j) \/ EndsBadly(j)
            /\ \E w \in Workers : j = job[w] /\ j \in taken[w] /\ (BeginsRow(w) \/ EndsRow(w))
  <1>0. TypeOK
    BY DEF IInv
  <1>1. CASE UNCHANGED rows
    BY <1>1 DEF rows, RowStays
  <1>2. ASSUME NEW i \in Jobs, InsertsRow(i) \/ UndoesRow(i)
        PROVE  RowStays(j)
    BY <1>0, <1>2 DEF InsertsRow, UndoesRow, CreateGenerationJob, MarkGenerationFailed,
         RowStays, Accepted
  <1>3. ASSUME NEW w \in Workers, BeginsRow(w) \/ EndsRow(w), j # job[w]
        PROVE  RowStays(j)
    BY <1>0, <1>3 DEF BeginsRow, EndsRow, MarkGenerationProcessing, MarkGenerationCompleted,
         MarkGenerationFailed, RowStays
  <1>4. ASSUME NEW w \in Workers, BeginsRow(w) \/ EndsRow(w), j = job[w]
        PROVE  j \in taken[w] /\ (Begins(j) \/ EndsWell(j) \/ EndsBadly(j))
    BY <1>4, StatementSteps
  <1> QED
    BY <1>0, <1>1, <1>2, <1>3, <1>4, RowSteps

\* With one replica, every step keeps FollowInv.
LEMMA FollowKept ==
  ASSUME OneReplica, IInv, FollowInv, [Next]_vars
  PROVE  FollowInv'
  <1>0. TypeOK
    BY DEF IInv
  <1> SUFFICES
        ASSUME NEW w \in Workers
        PROVE  /\ \A j \in Messages(w)' : Accepted(j)' => Waiting(j)'
               /\ Busy(w)' /\ Accepted(job[w])' =>
                    /\ at'[w] = "mark" => Waiting(job[w])'
                    /\ at'[w] \in {"synthesize", "upload", "fail", "complete"} => UnderWay(job[w])'
    BY DEF FollowInv
  <1>1. /\ \A j \in Messages(w) : j \in Jobs /\ req[j] # "publish" /\ (Accepted(j) => Waiting(j))
        /\ Messages(w) \cap taken[w] = {}
        /\ Busy(w) => job[w] \in Jobs /\ job[w] \in taken[w] /\ req[job[w]] # "publish"
        /\ Busy(w) /\ Accepted(job[w]) =>
             /\ at[w] = "mark" => Waiting(job[w])
             /\ at[w] \in {"synthesize", "upload", "fail", "complete"} => UnderWay(job[w])
    BY <1>0 DEF IInv, DeliveryInv, FollowInv, Messages
  <1>2. ASSUME NEW j \in Jobs, RowStays(j)
        PROVE  (Waiting(j) => Waiting(j)') /\ (UnderWay(j) => UnderWay(j)')
    BY <1>2 DEF RowStays, Waiting, UnderWay
  <1>3. ASSUME NEW j \in Messages(w), Accepted(j)'
        PROVE  Waiting(j)'
    <2>1. j \in Jobs /\ Accepted(j) /\ Waiting(j) /\ j \notin taken[w]
      BY <1>1, <1>3, AcceptedSteps
    <2>2. RowStays(j)
      BY <2>1, AcceptedRow DEF OneReplica
    <2> QED
      BY <1>2, <2>1, <2>2
  <1>4. ASSUME NEW j \in Messages(w)', Accepted(j)'
        PROVE  Waiting(j)'
    <2>a. Messages(w) = Elements(inbox[w]) /\ Messages(w)' = Elements(inbox'[w])
      BY DEF Messages, Elements
    <2>b. inbox[w] \in Seq(Jobs)
      BY <1>0
    <2>1. CASE Stays(w)
      BY <1>3, <1>4, <2>1, <2>a DEF Stays
    <2>2. CASE Ends(w)
      <3>1. Elements(<<>>) = {}
        BY DEF Elements
      <3> QED
        BY <1>3, <1>4, <2>2, <2>a, <3>1 DEF Ends
    <2>3. CASE Take(w)
      <3>1. inbox[w] # <<>> /\ inbox'[w] = Tail(inbox[w])
        BY <1>0, <2>3 DEF Take
      <3> QED
        BY <1>3, <1>4, <2>a, <2>b, <3>1, TailFacts
    <2>4. ASSUME NEW i \in Jobs, Receives(w, i)
          PROVE  Waiting(j)'
      <3>1. j \in Messages(w) \/ j = i
        BY <1>4, <2>4, <2>a, <2>b, AppendFacts DEF Receives
      <3>2. ~Accepted(i)
        BY <2>4 DEF Receives, Accepted
      <3> QED
        BY <1>3, <1>4, <3>1, <3>2, AcceptedSteps
    <2> QED
      BY <1>0, <2>1, <2>2, <2>3, <2>4, ChannelSteps
  <1>5. ASSUME Busy(w)', Accepted(job[w])'
        PROVE  /\ at'[w] = "mark" => Waiting(job[w])'
               /\ at'[w] \in {"synthesize", "upload", "fail", "complete"} => UnderWay(job[w])'
    <2>a. Waiting(job[w])' <=> row'[job'[w]] = "queued" /\ ~key'[job'[w]]
      BY DEF Waiting
    <2>b. UnderWay(job[w])' <=> row'[job'[w]] = "processing" /\ ~key'[job'[w]]
      BY DEF UnderWay
    <2>c. Accepted(job[w])' <=> req'[job'[w]] = "accepted"
      BY DEF Accepted
    <2>1. ASSUME at'[w] = at[w], job'[w] = job[w]
          PROVE  /\ at'[w] = "mark" => Waiting(job[w])'
                 /\ at'[w] \in {"synthesize", "upload", "fail", "complete"} => UnderWay(job[w])'
      <3>1. Busy(w) /\ job[w] \in Jobs /\ req[job[w]] # "publish"
        BY <1>1, <1>5, <2>1 DEF Busy
      <3>2. Accepted(job[w])
        BY <1>5, <2>1, <2>c, <3>1, AcceptedSteps DEF Accepted
      <3>3. RowStays(job[w]) \/ \E v \in Workers : BeginsRow(v) \/ EndsRow(v)
        BY <3>1, <3>2, AcceptedRow
      <3>4. ~BeginsRow(w) /\ ~EndsRow(w)
        BY <2>1 DEF BeginsRow, EndsRow
      <3>5. RowStays(job[w])
        BY <3>3, <3>4 DEF OneReplica
      <3> QED
        BY <1>1, <2>1, <2>a, <2>b, <3>1, <3>2, <3>5 DEF RowStays, Waiting, UnderWay
    <2>2. ASSUME HandleMessage(w)
          PROVE  /\ at'[w] = "mark" => Waiting(job[w])'
                 /\ at'[w] \in {"synthesize", "upload", "fail", "complete"} => UnderWay(job[w])'
      <3>1. CASE Take(w)
        <4>1. /\ inbox[w] # <<>> /\ job'[w] = Head(inbox[w]) /\ at'[w] = "mark"
              /\ UNCHANGED <<row, key, req>>
          BY <1>0, <3>1 DEF Take, rows
        <4>2. Head(inbox[w]) \in Messages(w)
          BY <1>0, <4>1, TailFacts DEF Elements, Messages
        <4> QED
          BY <1>1, <1>5, <2>a, <2>c, <4>1, <4>2 DEF Waiting, Accepted
      <3>2. CASE MarkProcessing(w)
        <4>1. /\ at[w] = "mark" /\ at'[w] = "synthesize" /\ job'[w] = job[w] /\ UNCHANGED req
              /\ MarkGenerationProcessing(job[w])
          BY <1>0, <3>2 DEF MarkProcessing, Goto
        <4>2. Waiting(job[w]) /\ job[w] \in Jobs
          BY <1>1, <1>5, <2>c, <4>1 DEF Busy, Accepted
        <4> QED
          BY <1>0, <2>b, <4>1, <4>2 DEF Waiting, MarkGenerationProcessing
      <3>3. CASE CallModalTTS(w) \/ CallModalTTSFails(w) \/ Upload(w) \/ UploadFails(w)
        <4>1. /\ at[w] \in {"synthesize", "upload"} /\ at'[w] # "mark" /\ job'[w] = job[w]
              /\ UNCHANGED <<row, key, req>>
          BY <1>0, <3>3 DEF CallModalTTS, CallModalTTSFails, Upload, UploadFails, Goto, rows
        <4> QED
          BY <1>1, <1>5, <2>b, <2>c, <4>1 DEF Busy, Accepted, UnderWay
      <3>4. CASE \/ MarkProcessingFails(w) \/ MarkFailed(w) \/ Complete(w) \/ CompleteFails(w)
                 \/ PublishResult(w)
        BY <1>0, <3>4 DEF MarkProcessingFails, MarkFailed, Complete, CompleteFails,
             PublishResult, Goto, Return
      <3> QED
        BY <2>2, <3>1, <3>2, <3>3, <3>4 DEF HandleMessage
    <2>3. at'[w] \notin {"down", "idle"}
      BY <1>5 DEF Busy
    <2> QED
      BY <1>0, <2>1, <2>2, <2>3, PlaceSteps
  <1> QED
    BY <1>4, <1>5

\* With one replica, the row of an accepted job is where its worker is.
LEMMA FollowInductive ==
  ASSUME OneReplica
  PROVE  Spec => []FollowInv
  <1>1. Init => FollowInv
    <2>1. ASSUME Init, NEW w \in Workers PROVE Messages(w) = {} /\ ~Busy(w)
      BY <2>1 DEF Init, Messages, Busy
    <2> QED
      BY <2>1 DEF FollowInv
  <1>2. IInv /\ FollowInv /\ [Next]_vars => FollowInv'
    BY FollowKept
  <1> QED
    BY <1>1, <1>2, Inductive, PTL DEF Spec

\* What a step may do to what the client saw.
LEMMA SeenSteps ==
  ASSUME TypeOK, [Next]_vars, NEW j \in Jobs
  PROVE  \/ seen'[j] = seen[j]
         \/ seen'[j] = row[j] /\ UNCHANGED <<row, req>>
  <1>1. CASE UNCHANGED seen
    BY <1>1
  <1>2. ASSUME NEW i \in Jobs, Poll(i)
        PROVE  seen'[j] = seen[j] \/ (seen'[j] = row[j] /\ UNCHANGED <<row, req>>)
    BY <1>2 DEF Poll, rows
  <1>3. ASSUME NEW i \in Jobs, Handle(i) PROVE UNCHANGED seen
    BY <1>3 DEF Handle, Insert, InsertFails, Publish, PublishFails, Undo, Abandon
  <1>4. ASSUME NEW w \in Workers, Subscribe(w) \/ HandleMessage(w) \/ Stop(w) PROVE UNCHANGED seen
    BY <1>4 DEF Subscribe, Stop, HandleMessage, Take, MarkProcessing, MarkProcessingFails,
         CallModalTTS, CallModalTTSFails, Upload, UploadFails, MarkFailed, Complete,
         CompleteFails, PublishResult, Goto, Return
  <1> QED
    BY <1>1, <1>2, <1>3, <1>4 DEF Next, vars

\* With one replica, the status at which the client stopped polling a job that
\* was accepted, before or after it first read it, is the one the row keeps
\* (use-generations.ts:47-54).
THEOREM LastSeenHolds == OneReplica => (Spec => []SeenIsFinal)
  <1> SUFFICES ASSUME OneReplica
               PROVE  Spec => []SeenIsFinal
    OBVIOUS
  <1>1. Init => SeenInv /\ SeenIsFinal
    BY DEF Init, SeenInv, SeenIsFinal, Accepted, Terminal
  <1>2. ASSUME IInv, FollowInv, SeenInv, SeenIsFinal, [Next]_vars
        PROVE  SeenInv' /\ SeenIsFinal'
    <2>0. TypeOK /\ RequestInv
      BY <1>2 DEF IInv
    <2>1. ASSUME NEW j \in Jobs
          PROVE  /\ req'[j] \in {"idle", "publish"} => seen'[j] \notin Terminal
                 /\ Accepted(j)' /\ seen'[j] \in Terminal => row'[j] = seen'[j]
      <3>1. CASE seen'[j] = row[j] /\ UNCHANGED <<row, req>>
        BY <2>0, <3>1 DEF RequestInv, Terminal
      <3>2. CASE seen'[j] = seen[j]
        <4>1. req'[j] \in {"idle", "publish"} => req[j] \in {"idle", "publish"}
          BY <1>2, <2>0, RequestSteps DEF InsertsRow
        <4>2. ASSUME Accepted(j)', seen[j] \in Terminal
              PROVE  row'[j] = seen[j]
          <5>1. Accepted(j)
            BY <1>2, <4>2, AcceptedSteps DEF SeenInv
          <5>2. row[j] = seen[j]
            BY <1>2, <4>2, <5>1 DEF SeenIsFinal
          <5>3. RowStays(j)
            BY <1>2, <4>2, <5>1, <5>2, AcceptedRow
               DEF Begins, EndsWell, EndsBadly, Waiting, UnderWay, Terminal
          <5> QED
            BY <5>2, <5>3 DEF RowStays
        <4> QED
          BY <1>2, <3>2, <4>1, <4>2 DEF SeenInv
      <3> QED
        BY <1>2, <2>0, <3>1, <3>2, SeenSteps
    <2> QED
      BY <2>1 DEF SeenInv, SeenIsFinal
  <1> QED
    BY <1>1, <1>2, Inductive, FollowInductive, PTL DEF Spec

-----------------------------------------------------------------------------
(* One replica: the refinement.                                            *)

LStatus   == [j \in Jobs |-> IF Accepted(j) THEN row[j] ELSE "none"]
LPlayable == {j \in Jobs : Accepted(j) /\ key[j]}

\* What a step does to the job's place in the lifecycle, when it is its job.
LEMMA LifecycleStep ==
  ASSUME TypeOK, TypeOK', NEW j \in Jobs,
         \A i \in Jobs \ {j} : (Accepted(i)' <=> Accepted(i)) /\ (Accepted(i) => RowStays(i)),
         \/ ~Accepted(j) /\ ~Accepted(j)'
         \/ Accepted(j) /\ Accepted(j)' /\ (RowStays(j) \/ Begins(j) \/ EndsWell(j) \/ EndsBadly(j))
         \/ ~Accepted(j) /\ Accepted(j)' /\ Waiting(j)'
  PROVE  [Lifecycle!Next]_(Lifecycle!vars)
  <1>1. \A i \in Jobs \ {j} : LStatus'[i] = LStatus[i] /\ (i \in LPlayable' <=> i \in LPlayable)
    BY DEF LStatus, LPlayable, RowStays
  <1>2. /\ LStatus \in [Jobs -> {"none"} \cup Statuses]
        /\ LStatus' \in [Jobs -> {"none"} \cup Statuses]
        /\ LPlayable \subseteq Jobs /\ LPlayable' \subseteq Jobs
    BY DEF LStatus, LPlayable
  <1>3. LStatus' = [LStatus EXCEPT ![j] = LStatus'[j]]
    BY <1>1, <1>2
  <1>4. LStatus'[j] = LStatus[j] => LStatus' = LStatus
    BY <1>2, <1>3
  <1>a. ASSUME j \in LPlayable' <=> j \in LPlayable
        PROVE  LPlayable' = LPlayable
    <2>1. \A i \in Jobs : i \in LPlayable' <=> i \in LPlayable
      BY <1>1, <1>a
    <2>2. LPlayable' \subseteq LPlayable /\ LPlayable \subseteq LPlayable'
      BY <1>2, <2>1
    <2> QED
      BY <2>2
  <1>b. j \in LPlayable' => LPlayable' = LPlayable \cup {j}
    <2>1. j \in LPlayable' => \A i \in Jobs : i \in LPlayable' <=> i \in LPlayable \cup {j}
      BY <1>1
    <2> QED
      BY <1>2, <2>1
  <1>5. CASE ~Accepted(j) /\ ~Accepted(j)'
    <2>1. LStatus'[j] = LStatus[j] /\ j \notin LPlayable /\ j \notin LPlayable'
      BY <1>5 DEF LStatus, LPlayable
    <2>2. LStatus' = LStatus /\ LPlayable' = LPlayable
      BY <1>4, <1>a, <2>1
    <2> QED
      BY <2>2 DEF Lifecycle!vars, LStatus, LPlayable
  <1>6. CASE Accepted(j) /\ Accepted(j)' /\ RowStays(j)
    <2>1. LStatus'[j] = LStatus[j] /\ (j \in LPlayable' <=> j \in LPlayable)
      BY <1>6 DEF LStatus, LPlayable, RowStays
    <2>2. LStatus' = LStatus /\ LPlayable' = LPlayable
      BY <1>4, <1>a, <2>1
    <2> QED
      BY <2>2 DEF Lifecycle!vars, LStatus, LPlayable
  <1>7. CASE ~Accepted(j) /\ Accepted(j)' /\ Waiting(j)'
    <2>1. /\ LStatus[j] = "none" /\ LStatus'[j] = "queued"
          /\ j \notin LPlayable /\ j \notin LPlayable'
      BY <1>7 DEF LStatus, LPlayable, Waiting
    <2>2. LStatus' = [LStatus EXCEPT ![j] = "queued"] /\ LPlayable' = LPlayable
      BY <1>3, <1>a, <2>1
    <2> QED
      BY <2>1, <2>2 DEF Lifecycle!Next, Lifecycle!Submit, Lifecycle!Move, LStatus, LPlayable
  <1>8. CASE Accepted(j) /\ Accepted(j)' /\ Begins(j)
    <2>1. /\ LStatus[j] = "queued" /\ LStatus'[j] = "processing"
          /\ j \notin LPlayable /\ j \notin LPlayable'
      BY <1>8 DEF LStatus, LPlayable, Begins, Waiting
    <2>2. LStatus' = [LStatus EXCEPT ![j] = "processing"] /\ LPlayable' = LPlayable
      BY <1>3, <1>a, <2>1
    <2> QED
      BY <2>1, <2>2 DEF Lifecycle!Next, Lifecycle!Begin, Lifecycle!Move, LStatus, LPlayable
  <1>9. CASE Accepted(j) /\ Accepted(j)' /\ EndsBadly(j)
    <2>1. /\ LStatus[j] = "processing" /\ LStatus'[j] = "failed"
          /\ j \notin LPlayable /\ j \notin LPlayable'
      BY <1>9 DEF LStatus, LPlayable, EndsBadly, UnderWay
    <2>2. LStatus' = [LStatus EXCEPT ![j] = "failed"] /\ LPlayable' = LPlayable
      BY <1>3, <1>a, <2>1
    <2> QED
      BY <2>1, <2>2 DEF Lifecycle!Next, Lifecycle!Fail, Lifecycle!Move, LStatus, LPlayable
  <1>10. CASE Accepted(j) /\ Accepted(j)' /\ EndsWell(j)
    <2>1. LStatus[j] = "processing" /\ LStatus'[j] = "completed" /\ j \in LPlayable'
      BY <1>10 DEF LStatus, LPlayable, EndsWell, UnderWay
    <2>2. LStatus' = [LStatus EXCEPT ![j] = "completed"] /\ LPlayable' = LPlayable \cup {j}
      BY <1>3, <1>b, <2>1
    <2> QED
      BY <2>1, <2>2 DEF Lifecycle!Next, Lifecycle!Succeed, LStatus, LPlayable
  <1> QED
    BY <1>5, <1>6, <1>7, <1>8, <1>9, <1>10

\* With one replica the service implements JobLifecycle: an accepted job is
\* queued, begun once and ended once, whatever fails and whenever it crashes.
THEOREM Refinement == OneReplica => (Spec => ImplementsLifecycle)
  <1> SUFFICES ASSUME OneReplica
               PROVE  Spec => ImplementsLifecycle
    OBVIOUS
  <1>1. Init => Lifecycle!Init
    BY DEF Init, Lifecycle!Init, Accepted
  <1>2. ASSUME IInv, FollowInv, [Next]_vars
        PROVE  [Lifecycle!Next]_(Lifecycle!vars)
    <2>0. TypeOK /\ TypeOK'
      BY <1>2, TypesKept DEF IInv
    <2>1. \A j \in Jobs : Accepted(j) => Accepted(j)'
      BY <1>2, AcceptedSteps
    <2>2. CASE \E j \in Jobs : Accepted(j)' /\ ~Accepted(j)
      <3>1. PICK j \in Jobs : Accepted(j)' /\ ~Accepted(j)
        BY <2>2
      <3>2. UNCHANGED rows /\ Waiting(j)'
        BY <1>2, <3>1, AcceptedSteps
      <3>3. \A i \in Jobs \ {j} : (Accepted(i)' <=> Accepted(i)) /\ RowStays(i)
        BY <1>2, <2>0, <3>1, <3>2, OneRequest DEF Accepted, RowStays, rows
      <3> QED
        BY <2>0, <3>1, <3>2, <3>3, LifecycleStep
    <2>3. CASE /\ \A j \in Jobs : Accepted(j)' <=> Accepted(j)
               /\ \A j \in Jobs : Accepted(j) => RowStays(j)
      <3>1. LStatus' = LStatus /\ LPlayable' = LPlayable
        BY <2>3 DEF LStatus, LPlayable, RowStays
      <3> QED
        BY <3>1 DEF Lifecycle!vars, LStatus, LPlayable
    <2>4. CASE /\ \A j \in Jobs : Accepted(j)' <=> Accepted(j)
               /\ \E j \in Jobs : Accepted(j) /\ ~RowStays(j)
      <3>1. PICK j \in Jobs : Accepted(j) /\ ~RowStays(j)
        BY <2>4
      <3>2. /\ Begins(j) \/ EndsWell(j) \/ EndsBadly(j)
            /\ \E w \in Workers : j = job[w] /\ (BeginsRow(w) \/ EndsRow(w))
        BY <1>2, <3>1, AcceptedRow
      <3>3. \A i \in Jobs \ {j} : RowStays(i)
        BY <1>2, <3>1, <3>2, StatementSteps
      <3> QED
        BY <2>0, <2>4, <3>1, <3>2, <3>3, LifecycleStep
    <2> QED
      BY <2>1, <2>2, <2>3, <2>4
  <1>3. IInv /\ FollowInv /\ [Next]_vars => [Lifecycle!Next]_(Lifecycle!vars)
    BY <1>2
  <1> QED
    BY <1>1, <1>3, Inductive, FollowInductive, PTL DEF Spec, ImplementsLifecycle, Lifecycle!Spec
=============================================================================
