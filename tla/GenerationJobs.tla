--------------------------- MODULE GenerationJobs ---------------------------
(***************************************************************************)
(* The generation service: GenerateSpeech inserts a row and publishes the  *)
(* job on a Redis channel; every replica's worker that is subscribed gets  *)
(* its own copy, marks the row, calls the TTS endpoint, uploads the audio, *)
(* and marks the row again; the web client polls the row until it ends.    *)
(* A request makes a fresh id, so the handler of job j is named by j.      *)
(***************************************************************************)
EXTENDS Naturals, Sequences

CONSTANTS Jobs,       \* generation ids (a request makes a new one)
          Workers,    \* replicas of the service, each with one worker goroutine
          QueueCap,   \* buffer of a subscription's Go channel
          Faults,     \* what may go wrong, a subset of FaultKinds
          NoJob

FaultKinds ==
  {"db",       \* a statement returns an error, having committed or not
   "publish",  \* PUBLISH of a job fails and reaches nobody
   "reply",    \* PUBLISH of a job reaches subscribers but returns an error
   "loss",     \* a subscriber misses a message (go-redis reconnecting)
   "tts",      \* the TTS call fails, times out or returns no audio
   "upload",   \* the S3 upload returns an error, having stored or not
   "crash",    \* a worker's process stops, or its context is cancelled
   "cancel"}   \* a request's context is cancelled, or its process stops

ASSUME JobAssumption == /\ NoJob \notin Jobs
                        /\ QueueCap \in Nat \ {0}
                        /\ Faults \subseteq FaultKinds

VARIABLES row,      \* row[j]: the status column, "none" before the insert
          key,      \* key[j]: the s3_object_key column is set
          stored,   \* jobs whose audio object is in the bucket
          req,      \* req[j]: where GenerateSpeech for j stands
          inbox,    \* inbox[w]: messages the subscription of w holds
          at,       \* at[w]: where handleMessage of w stands
          job,      \* job[w]: the job that w handles
          taken,    \* taken[w]: jobs w ever took (history)
          results,  \* result events published, as <<job, status>>
          seen      \* seen[j]: the status the client polled last

rows    == <<row, key>>
worker  == <<inbox, at, job, taken>>
vars    == <<row, key, stored, req, inbox, at, job, taken, results, seen>>

Terminal == {"completed", "failed"}
Statuses == {"queued", "processing"} \cup Terminal

-----------------------------------------------------------------------------
(* The three UPDATE statements and the INSERT of generation.sql.           *)

CreateGenerationJob(j) == /\ row' = [row EXCEPT ![j] = "queued"]
                          /\ UNCHANGED key

\* Mutant: the condition on the status is dropped.
MarkGenerationProcessing_AnyStatus(j) ==
  /\ row' = [row EXCEPT ![j] = IF @ = "none" THEN @ ELSE "processing"]
  /\ UNCHANGED key

\* WHERE status = 'queued': any other row is left alone, without an error.
MarkGenerationProcessing(j) ==
  /\ row' = [row EXCEPT ![j] = IF @ = "queued" THEN "processing" ELSE @]
  /\ UNCHANGED key

\* No condition on the status: a row that ended may end again, otherwise.
MarkGenerationCompleted(j) ==
  /\ row' = [row EXCEPT ![j] = IF @ = "none" THEN @ ELSE "completed"]
  /\ key' = [key EXCEPT ![j] = @ \/ row[j] # "none"]

MarkGenerationFailed(j) ==
  /\ row' = [row EXCEPT ![j] = IF @ = "none" THEN @ ELSE "failed"]
  /\ UNCHANGED key

-----------------------------------------------------------------------------
(* GenerateSpeech.                                                         *)

Insert(j) == /\ req[j] = "idle"
             /\ CreateGenerationJob(j)
             /\ req' = [req EXCEPT ![j] = "publish"]
             /\ UNCHANGED <<stored, worker, results, seen>>

\* Mutant: the error branch does not return.
InsertFails_Continues(j) == /\ req[j] = "idle" /\ "db" \in Faults
                            /\ CreateGenerationJob(j) \/ UNCHANGED rows
                            /\ req' = [req EXCEPT ![j] = "publish"]
                            /\ UNCHANGED <<stored, worker, results, seen>>

InsertFails(j) == /\ req[j] = "idle" /\ "db" \in Faults
                  /\ CreateGenerationJob(j) \/ UNCHANGED rows
                  /\ req' = [req EXCEPT ![j] = "refused"]
                  /\ UNCHANGED <<stored, worker, results, seen>>

\* Mutant: a full channel takes the message all the same.
Listening_Unbounded == {w \in Workers : at[w] # "down"}

\* The workers a PUBLISH may reach: those subscribed whose channel has room;
\* when messages may be lost, any of them.
Listening == {w \in Workers : at[w] # "down" /\ Len(inbox[w]) < QueueCap}

Reached == IF "loss" \in Faults THEN SUBSET Listening ELSE {Listening}

Deliver(j) == \E S \in Reached :
  inbox' = [w \in Workers |-> IF w \in S THEN Append(inbox[w], j) ELSE inbox[w]]

Publish(j) == /\ req[j] = "publish"
              /\ Deliver(j)
              /\ req' = [req EXCEPT ![j] = "accepted"]
              /\ UNCHANGED <<rows, stored, at, job, taken, results, seen>>

PublishFails(j) == /\ req[j] = "publish"
                   /\ \/ "publish" \in Faults /\ UNCHANGED inbox
                      \/ "reply" \in Faults /\ Deliver(j)
                   /\ req' = [req EXCEPT ![j] = "undo"]
                   /\ UNCHANGED <<rows, stored, at, job, taken, results, seen>>

\* The row of a job that was not published is marked, best effort.
Undo(j) == /\ req[j] = "undo"
           /\ MarkGenerationFailed(j) \/ ("db" \in Faults /\ UNCHANGED rows)
           /\ req' = [req EXCEPT ![j] = "refused"]
           /\ UNCHANGED <<stored, worker, results, seen>>

\* Every later call of the handler uses the same context, so all of them fail.
Abandon(j) == /\ req[j] \in {"publish", "undo"} /\ "cancel" \in Faults
              /\ req' = [req EXCEPT ![j] = "refused"]
              /\ UNCHANGED <<rows, stored, worker, results, seen>>

-----------------------------------------------------------------------------
(* The worker goroutine of a replica.                                      *)

Subscribe(w) == /\ at[w] = "down"
                /\ at' = [at EXCEPT ![w] = "idle"]
                /\ UNCHANGED <<rows, stored, req, inbox, job, taken, results, seen>>

\* Mutant: the message stays in the channel.
Take_Peek(w) == /\ at[w] = "idle" /\ inbox[w] # <<>>
                /\ job' = [job EXCEPT ![w] = Head(inbox[w])]
                /\ taken' = [taken EXCEPT ![w] = @ \cup {Head(inbox[w])}]
                /\ at' = [at EXCEPT ![w] = "mark"]
                /\ UNCHANGED <<rows, stored, req, inbox, results, seen>>

Take(w) == /\ at[w] = "idle" /\ inbox[w] # <<>>
           /\ job' = [job EXCEPT ![w] = Head(inbox[w])]
           /\ inbox' = [inbox EXCEPT ![w] = Tail(@)]
           /\ taken' = [taken EXCEPT ![w] = @ \cup {Head(inbox[w])}]
           /\ at' = [at EXCEPT ![w] = "mark"]
           /\ UNCHANGED <<rows, stored, req, results, seen>>

Goto(w, from, to) == /\ at[w] = from
                     /\ at' = [at EXCEPT ![w] = to]
                     /\ UNCHANGED <<req, inbox, job, taken, seen>>

\* handleMessage returns and the goroutine waits for the next message.
Return(w, from) == /\ at[w] = from
                   /\ at' = [at EXCEPT ![w] = "idle"]
                   /\ job' = [job EXCEPT ![w] = NoJob]
                   /\ UNCHANGED <<req, inbox, taken, seen>>

MarkProcessing(w) == /\ Goto(w, "mark", "synthesize")
                     /\ MarkGenerationProcessing(job[w])
                     /\ UNCHANGED <<stored, results>>

MarkProcessingFails(w) == /\ Return(w, "mark") /\ "db" \in Faults
                          /\ MarkGenerationProcessing(job[w]) \/ UNCHANGED rows
                          /\ UNCHANGED <<stored, results>>

CallModalTTS(w) == /\ Goto(w, "synthesize", "upload")
                   /\ UNCHANGED <<rows, stored, results>>

\* Mutant: the row is not marked before returning.
CallModalTTSFails_Returns(w) == /\ Return(w, "synthesize") /\ "tts" \in Faults
                                /\ UNCHANGED <<rows, stored, results>>

CallModalTTSFails(w) == /\ Goto(w, "synthesize", "fail") /\ "tts" \in Faults
                        /\ UNCHANGED <<rows, stored, results>>

Upload(w) == /\ Goto(w, "upload", "complete")
             /\ stored' = stored \cup {job[w]}
             /\ UNCHANGED <<rows, results>>

\* Mutant: the error branch does not return.
UploadFails_Continues(w) == /\ Goto(w, "upload", "complete") /\ "upload" \in Faults
                            /\ stored' \in {stored, stored \cup {job[w]}}
                            /\ UNCHANGED <<rows, results>>

UploadFails(w) == /\ Goto(w, "upload", "fail") /\ "upload" \in Faults
                  /\ stored' \in {stored, stored \cup {job[w]}}
                  /\ UNCHANGED <<rows, results>>

MarkFailed(w) == /\ Goto(w, "fail", "announceFailure")
                 /\ MarkGenerationFailed(job[w]) \/ ("db" \in Faults /\ UNCHANGED rows)
                 /\ UNCHANGED <<stored, results>>

Complete(w) == /\ Goto(w, "complete", "announce")
               /\ MarkGenerationCompleted(job[w])
               /\ UNCHANGED <<stored, results>>

\* Mutant: the error branch does not return.
CompleteFails_Announces(w) ==
  /\ Goto(w, "complete", "announce") /\ "db" \in Faults
  /\ MarkGenerationCompleted(job[w]) \/ UNCHANGED rows
  /\ UNCHANGED <<stored, results>>

CompleteFails(w) == /\ Return(w, "complete") /\ "db" \in Faults
                    /\ MarkGenerationCompleted(job[w]) \/ UNCHANGED rows
                    /\ UNCHANGED <<stored, results>>

\* publishResult: a failed PUBLISH is only logged.
PublishResult(w) ==
  \E from \in {"announce", "announceFailure"} :
    LET event == <<job[w], IF from = "announce" THEN "completed" ELSE "failed">>
    IN  /\ Return(w, from)
        /\ results' \in {results, results \cup {event}}
        /\ UNCHANGED <<rows, stored>>

\* The process stops anywhere in handleMessage; what its subscription held is
\* gone, since a Redis channel keeps nothing for an absent subscriber.
Stop(w) == /\ at[w] # "down" /\ "crash" \in Faults
           /\ at' = [at EXCEPT ![w] = "down"]
           /\ job' = [job EXCEPT ![w] = NoJob]
           /\ inbox' = [inbox EXCEPT ![w] = <<>>]
           /\ UNCHANGED <<rows, stored, req, taken, results, seen>>

-----------------------------------------------------------------------------
(* A page of the web client refetches its job while the status is pending. *)
(* The history links every row, so a page may show the job of a request    *)
(* that was refused, or that GenerateSpeech has not answered yet.          *)

\* Mutant: the client stops refetching once a worker has begun.
Pending_QueuedOnly == {"unasked", "queued"}

Pending == {"unasked", "queued", "processing"}

Poll(j) == /\ row[j] # "none" /\ seen[j] \in Pending
           /\ seen' = [seen EXCEPT ![j] = row[j]]
           /\ UNCHANGED <<rows, stored, req, worker, results>>

-----------------------------------------------------------------------------
Init == /\ row = [j \in Jobs |-> "none"]
        /\ key = [j \in Jobs |-> FALSE]
        /\ stored = {}
        /\ req = [j \in Jobs |-> "idle"]
        /\ inbox = [w \in Workers |-> <<>>]
        /\ at = [w \in Workers |-> "down"]
        /\ job = [w \in Workers |-> NoJob]
        /\ taken = [w \in Workers |-> {}]
        /\ results = {}
        /\ seen = [j \in Jobs |-> "unasked"]

Handle(j) == \/ Insert(j) \/ InsertFails(j)
             \/ Publish(j) \/ PublishFails(j)
             \/ Undo(j) \/ Abandon(j)

HandleMessage(w) == \/ Take(w)
                    \/ MarkProcessing(w) \/ MarkProcessingFails(w)
                    \/ CallModalTTS(w) \/ CallModalTTSFails(w)
                    \/ Upload(w) \/ UploadFails(w)
                    \/ Complete(w) \/ CompleteFails(w)
                    \/ MarkFailed(w) \/ PublishResult(w)

Next == \/ \E j \in Jobs : Handle(j) \/ Poll(j)
        \/ \E w \in Workers : Subscribe(w) \/ HandleMessage(w) \/ Stop(w)

Spec == Init /\ [][Next]_vars

\* A running goroutine keeps running, and the client's timer keeps firing;
\* nothing obliges a client to submit a job or a process to start.
Fairness == /\ \A w \in Workers : WF_vars(HandleMessage(w))
            /\ \A j \in Jobs : WF_vars(Poll(j))
            /\ \A j \in Jobs : WF_vars(req[j] # "idle" /\ Handle(j))

FairSpec == Spec /\ Fairness

-----------------------------------------------------------------------------
(* Properties.                                                             *)

Messages(w) == {inbox[w][i] : i \in DOMAIN inbox[w]}

Accepted(j) == req[j] = "accepted"

\* Types; a subscription never holds more than its channel's buffer.
TypeOK == /\ row \in [Jobs -> {"none"} \cup Statuses]
          /\ key \in [Jobs -> BOOLEAN]
          /\ stored \subseteq Jobs
          /\ req \in [Jobs -> {"idle", "publish", "undo", "accepted", "refused"}]
          /\ inbox \in [Workers -> Seq(Jobs)]
          /\ at \in [Workers -> {"down", "idle", "mark", "synthesize", "upload", "fail",
                                 "complete", "announce", "announceFailure"}]
          /\ job \in [Workers -> Jobs \cup {NoJob}]
          /\ taken \in [Workers -> SUBSET Jobs]
          /\ results \subseteq Jobs \X Terminal
          /\ seen \in [Jobs -> {"unasked"} \cup Statuses]
          /\ \A w \in Workers : Len(inbox[w]) <= QueueCap

\* A row that names an audio object names one that is in the bucket, and a
\* completed row names one, whatever the replicas' interleaving and whatever
\* failed: what GetGeneration hands out can be fetched (worker.go:136-154).
CompletedHasAudio == \A j \in Jobs : /\ row[j] = "completed" => key[j]
                                     /\ key[j] => j \in stored

\* A "completed" event is never published before its row says so: whoever
\* reads the row upon the event finds the object key (worker.go:151-159).
EventAfterRow == \A j \in Jobs : <<j, "completed">> \in results => key[j]

\* No worker ever handles a job that has no row: its updates would touch
\* nothing, and the row inserted later would stay queued (server.go:179-215).
RowBeforeMessage ==
  \A w \in Workers : /\ \A j \in Messages(w) : row[j] # "none"
                     /\ job[w] # NoJob => row[job[w]] # "none"

\* A replica synthesizes a job at most once, crashes and reconnections
\* included: it never takes a message for a job it has already taken.
OncePerReplica ==
  [][\A w \in Workers : at[w] = "idle" /\ at'[w] = "mark" => job'[w] \notin taken[w]]_vars

\* A row that ended never reads queued or processing again, so a client that
\* stopped polling did not stop early (generation.sql:45).
NeverReopened ==
  [][\A j \in Jobs : row[j] \in Terminal => row'[j] \in Terminal]_vars

\* With one replica, the terminal status at which the client stops polling a
\* job that was accepted is the one the row keeps, whatever fails. The row of a
\* refused job may end twice: its worker and the handler's undo each mark it,
\* in either order (use-generations.ts:47-54, server.go:215-219).
SeenIsFinal ==
  \A j \in Jobs : Accepted(j) /\ seen[j] \in Terminal => row[j] = seen[j]

\* With one replica, every job that GenerateSpeech accepted runs through the
\* lifecycle its client is promised, whatever fails; a job that it refused may
\* still run, once its PUBLISH was delivered and only the reply lost.
Lifecycle == INSTANCE JobLifecycle WITH
  status   <- [j \in Jobs |-> IF Accepted(j) THEN row[j] ELSE "none"],
  playable <- {j \in Jobs : Accepted(j) /\ key[j]}

ImplementsLifecycle == Lifecycle!Spec

\* A job that a live worker's subscription holds ends, although the TTS call
\* or the upload may fail (worker.go:124-149).
HeldJobEnds == \A j \in Jobs :
  (\E w \in Workers : j \in Messages(w)) ~> row[j] \in Terminal

\* ... and the client that was told "queued" comes to see it ended.
ClientSeesEnd == \A j \in Jobs :
  (req[j] = "accepted" /\ \E w \in Workers : j \in Messages(w)) ~> seen[j] \in Terminal

-----------------------------------------------------------------------------
(* The inductive strengthening of the safety properties.                   *)

Busy(w) == at[w] \notin {"down", "idle"}

\* The row is inserted before the job is published, and no row comes from
\* elsewhere; until the job is published the row is as it was inserted.
RequestInv == \A j \in Jobs :
  /\ req[j] = "idle" => row[j] = "none" /\ ~key[j]
  /\ req[j] = "publish" => row[j] = "queued" /\ ~key[j]
  /\ req[j] \in {"undo", "accepted"} => row[j] # "none"

\* A job is published once and delivered at most once to each replica.
DeliveryInv == \A w \in Workers :
  /\ \A j \in Messages(w) \cup taken[w] : req[j] \notin {"idle", "publish"}
  /\ Messages(w) \cap taken[w] = {}
  /\ \A i, k \in DOMAIN inbox[w] : inbox[w][i] = inbox[w][k] => i = k
  /\ IF Busy(w) THEN job[w] \in taken[w] ELSE job[w] = NoJob

\* What a worker has achieved when it is about to say so.
ProgressInv == \A w \in Workers :
  /\ at[w] = "complete" => job[w] \in stored
  /\ at[w] = "announce" => key[job[w]]

IInv == /\ TypeOK /\ CompletedHasAudio /\ EventAfterRow /\ RowBeforeMessage
        /\ RequestInv /\ DeliveryInv /\ ProgressInv

\* With one replica the row of an accepted job follows its worker.
UnderWay(j) == row[j] = "processing" /\ ~key[j]
Waiting(j)  == row[j] = "queued" /\ ~key[j]

FollowInv == \A w \in Workers :
  /\ \A j \in Messages(w) : Accepted(j) => Waiting(j)
  /\ Busy(w) /\ Accepted(job[w]) =>
       /\ at[w] = "mark" => Waiting(job[w])
       /\ at[w] \in {"synthesize", "upload", "fail", "complete"} => UnderWay(job[w])

OneReplica == \A v, w \in Workers : v = w

\* No job is seen ended before it is published.
SeenInv == \A j \in Jobs : req[j] \in {"idle", "publish"} => seen[j] \notin Terminal
=============================================================================
